--------------------------- MODULE FileSystemProofs ---------------------------
(***************************************************************************)
(* For every number of blocks, size of block and number of falls: no block *)
(* is of two files, the bits of the blocks in use are set, a truncation    *)
(* moves no block that a file keeps, and an access that starts and ends    *)
(* where the code expects touches exactly the bytes asked for.             *)
(*                                                                         *)
(* The blocks of a file are seen as places (Lugares): 0 is its block of    *)
(* pointers, 1 its direct block, i > 1 the block of pointer i - 2.  The    *)
(* invariant says that no two places have one block, and where the         *)
(* truncation under way is: what it took is of no place, what it will free *)
(* is of places the new size does not have.                                *)
(***************************************************************************)
EXTENDS FileSystem, FiniteSetTheorems, SequenceTheorems,
        WellFoundedInduction, TLAPS

\* The places of a file of n blocks.
Lugares(n) == IF n > 1 THEN 0..n ELSE 1..n
PunteroDe(P, b, k) ==
    IF Palabra(b, k) \in DOMAIN P THEN P[Palabra(b, k)] ELSE 0
\* The block at place i of a file whose FCB is c, when the pointers are P.
BloqueDe(P, c, i) ==
    CASE i = 0 -> c.indirecto
      [] i = 1 -> c.directo
      [] OTHER -> PunteroDe(P, c.indirecto, i - 2)
Suyos(c) == Lugares(Bloques(c.tamanio))
\* The places that f has before and after the truncation o.
Queda(F, o, f) ==
    IF o # Ninguna /\ o.archivo = f
    THEN Suyos(F[f]) \cap Lugares(Bloques(o.tamanio))
    ELSE Suyos(F[f])
Reservados(F, P, o) ==
    UNION {{BloqueDe(P, F[f], i) : i \in Queda(F, o, f)} : f \in DOMAIN F}
\* What the truncation under way has taken or will free.
DeLaObra(o) ==
    IF o = Ninguna THEN {} ELSE Range(o.tomados) \cup Range(o.porLiberar)

Tipos ==
    /\ DOMAIN fcb \subseteq Archivos
    /\ \A f \in DOMAIN fcb : /\ fcb[f] \in Fcb
                             /\ fcb[f].tamanio \in Tamanios \cup {0}
    /\ \A w \in DOMAIN punteros : w \in Nat /\ punteros[w] \in Nat
    /\ bitmap \in SUBSET Nat /\ IsFiniteSet(bitmap)
    /\ obra # Ninguna => /\ obra \in Obra /\ obra.tamanio \in Tamanios
                         /\ obra.archivo \in DOMAIN fcb
    /\ caidas \in 0..MAX_CAIDAS
    /\ sano \in BOOLEAN
    /\ caidas = 0 \/ obra # Ninguna => sano

Unicos ==
    sano => \A f, g \in DOMAIN fcb :
        \A i \in Suyos(fcb[f]), j \in Suyos(fcb[g]) :
            BloqueDe(punteros, fcb[f], i) = BloqueDe(punteros, fcb[g], j) =>
                f = g /\ i = j
Marcados ==
    /\ sano => /\ Reservados(fcb, punteros, obra) \subseteq bitmap
               /\ DeLaObra(obra) \subseteq bitmap
    /\ caidas = 0 =>
          bitmap \subseteq Reservados(fcb, punteros, obra) \cup DeLaObra(obra)

Toma ==
    obra # Ninguna =>
        /\ Len(obra.tomados) <= CuantosToma(fcb[obra.archivo], obra.tamanio)
        /\ \A j, k \in DOMAIN obra.tomados :
              obra.tomados[j] = obra.tomados[k] => j = k
        /\ \A j \in DOMAIN obra.tomados : \A f \in DOMAIN fcb :
              \A i \in Suyos(fcb[f]) :
                  obra.tomados[j] # BloqueDe(punteros, fcb[f], i)
Libera ==
    obra # Ninguna =>
        /\ \A j, k \in DOMAIN obra.porLiberar :
              obra.porLiberar[j] = obra.porLiberar[k] => j = k
        /\ \A j \in DOMAIN obra.porLiberar :
              \E i \in Suyos(fcb[obra.archivo])
                          \ Lugares(Bloques(obra.tamanio)) :
                  obra.porLiberar[j] = BloqueDe(punteros, fcb[obra.archivo], i)
\* Which of the blocks taken goes to place i of a file that had n.
Tomado(n, i) ==
    CASE i = 0 -> IF n = 0 THEN 2 ELSE 1
      [] i = 1 -> 1
      [] OTHER -> IF n = 0 THEN i + 1 ELSE IF n = 1 THEN i ELSE i - n
Escribe ==
    obra # Ninguna /\ obra.escrito =>
        LET c == fcb[obra.archivo]
            n == Bloques(c.tamanio)
            nuevo == Truncado(c, obra)
        IN  /\ obra.porLiberar = <<>>
            /\ Len(obra.tomados) = CuantosToma(c, obra.tamanio)
            /\ \A i \in Lugares(Bloques(obra.tamanio)) :
                  BloqueDe(punteros, nuevo, i) =
                      IF i \in Lugares(n) THEN BloqueDe(punteros, c, i)
                      ELSE obra.tomados[Tomado(n, i)]

Inv ==
    /\ Tipos /\ Unicos /\ Marcados
    /\ Toma /\ Libera /\ Escribe

-----------------------------------------------------------------------------
(* Numbers of blocks, words and places.                                    *)

\* A size needs no block, or some.
LEMMA BloquesTipo ==
    ASSUME NEW t \in Nat
    PROVE  /\ Bloques(t) \in Nat
           /\ t = 0 => Bloques(t) = 0
           /\ t > 0 => Bloques(t) > 0
<1> DEFINE T == tamanioBloque
<1>1. T \in Nat \ {0}
  BY SuperbloqueAssumption DEF tamanioBloque
<1>2. Bloques(t) = (t + T - 1) \div T
  BY DEF Bloques
<1> HIDE DEF T
<1> QED
  BY <1>1, <1>2

\* A file has at most the pointers of one block.
LEMMA BloquesCota ==
    ASSUME NEW t \in Tamanios \cup {0}
    PROVE  /\ t \in Nat /\ Bloques(t) \in 0..(PUNTEROS + 1)
           /\ t \in Tamanios => Bloques(t) > 0
<1> DEFINE T == tamanioBloque
<1>1. PUNTEROS \in Nat \ {0} /\ T = 4 * PUNTEROS
  BY SuperbloqueAssumption DEF tamanioBloque
<1>2. t \in Nat /\ (t \in Tamanios => t \in 1..T * (PUNTEROS + 1))
  BY <1>1, TamaniosAssumption
<1>3. Bloques(t) = (t + T - 1) \div T /\ (t = 0 => Bloques(t) = 0)
  BY <1>2, BloquesTipo DEF Bloques
<1> HIDE DEF T
<1>4. T \in Nat \ {0}
  BY <1>1
<1>5. CASE t \in Tamanios
  <2>1. (t + T - 1) \div T <= PUNTEROS + 1
    BY <1>1, <1>2, <1>5
  <2> QED
    BY <1>1, <1>2, <1>3, <1>5, <2>1, BloquesTipo
<1>6. CASE t \notin Tamanios
  BY <1>1, <1>2, <1>3, <1>6
<1> QED
  BY <1>5, <1>6

\* A word is of one block, and is one of its pointers.
LEMMA PalabraUnica ==
    ASSUME NEW b \in Nat, NEW d \in Nat,
           NEW k \in 0..(PUNTEROS - 1), NEW l \in 0..(PUNTEROS - 1),
           Palabra(b, k) = Palabra(d, l)
    PROVE  b = d /\ k = l
<1>1. ASSUME NEW x \in Nat, NEW y \in Nat, x < y
      PROVE  x * PUNTEROS + PUNTEROS <= y * PUNTEROS
  <2>1. PICK e \in Nat : y = (x + 1) + e
    <3>1. y = (x + 1) + (y - (x + 1)) /\ y - (x + 1) \in Nat
      BY <1>1
    <3> QED
      BY <3>1
  <2>2. /\ y * PUNTEROS = (x + 1) * PUNTEROS + e * PUNTEROS
        /\ (x + 1) * PUNTEROS = x * PUNTEROS + PUNTEROS
    BY <2>1, SuperbloqueAssumption
  <2>3. e * PUNTEROS \in Nat /\ x * PUNTEROS \in Nat /\ y * PUNTEROS \in Nat
    BY SuperbloqueAssumption
  <2> QED
    BY <2>2, <2>3, SuperbloqueAssumption
<1>2. /\ b * PUNTEROS \in Nat /\ d * PUNTEROS \in Nat
      /\ b * PUNTEROS + k = d * PUNTEROS + l
  BY SuperbloqueAssumption DEF Palabra
<1>3. ~ (b < d) /\ ~ (d < b)
  BY <1>1, <1>2, SuperbloqueAssumption
<1> QED
  BY <1>2, <1>3, SuperbloqueAssumption

\* A word is a natural number.
LEMMA PalabraTipo ==
    ASSUME NEW b \in Nat, NEW k \in Nat
    PROVE  Palabra(b, k) \in Nat
  BY SuperbloqueAssumption DEF Palabra

\* A set of naturals has a first.
LEMMA HayPrimero ==
    ASSUME NEW S \in SUBSET Nat, S # {}
    PROVE  \E x \in S : \A y \in S : x <= y
<1>1. PICK R : R = {s \in Nat \X Nat : s[1] < s[2]}
  OBVIOUS
<1>2. IsWellFoundedOn(R, Nat)
  BY <1>1, NatLessThanWellFounded DEF OpToRel
<1>3. PICK x \in S : \A y \in S : ~ (<<y, x>> \in R)
  BY <1>2, WFMin
<1>4. \A y \in S : y < x => <<y, x>> \in R
  BY <1>1
<1>5. \A y \in S : ~ (y < x)
  BY <1>3, <1>4
<1>6. x \in Nat /\ \A y \in S : y \in Nat
  OBVIOUS
<1>7. \A y \in S : x <= y
  BY <1>5, <1>6
<1> QED
  BY <1>7

\* The search always ends, at a bit that is clear: among one more bits than
\* are set there is one.
LEMMA BuscaLibre ==
    ASSUME bitmap \in SUBSET Nat, IsFiniteSet(bitmap)
    PROVE  BuscarBloqueLibre \in Nat \ bitmap
<1> DEFINE n == Cardinality(bitmap)
           L == {b \in 0..n : b \notin bitmap}
<1>1. n \in Nat
  BY FS_CardinalityType
<1>2. L # {}
  <2> SUFFICES ASSUME L = {}
               PROVE  FALSE
    OBVIOUS
  <2>1. 0..n \in SUBSET bitmap
    OBVIOUS
  <2>2. Cardinality(0..n) <= n
    BY <2>1, FS_Subset
  <2>3. Cardinality(0..n) = n + 1
    <3> HIDE DEF n
    <3>1. 0 \in Int /\ n \in Int /\ ~ (0 > n)
      BY <1>1
    <3>2. Cardinality(0..n) = n - 0 + 1
      BY <3>1, FS_Interval
    <3> QED
      BY <1>1, <3>2
  <2> QED
    BY <1>1, <2>2, <2>3
<1>3. L \in SUBSET Nat
  OBVIOUS
<1>4. \E x \in L : \A y \in L : x <= y
  <2> HIDE DEF L
  <2> QED
    BY <1>2, <1>3, HayPrimero
<1>5. Min(L) \in L
  <2> HIDE DEF L
  <2> QED
    BY <1>4 DEF Min
<1> QED
  BY <1>3, <1>5 DEF BuscarBloqueLibre

\* An empty file counts as one block.
LEMMA Antes ==
    ASSUME NEW c, Bloques(c.tamanio) \in Nat
    PROVE  BloquesAntes(c) = IF Bloques(c.tamanio) > 1 THEN Bloques(c.tamanio)
                             ELSE 1
<1> DEFINE n == Bloques(c.tamanio)
<1>1. \A x \in {1, n} : (\A y \in {1, n} : x >= y) <=>
          x = IF n > 1 THEN n ELSE 1
  <2> HIDE DEF n
  <2> QED
    BY Bloques(c.tamanio) \in Nat DEF n
<1>2. Max({1, n}) = IF n > 1 THEN n ELSE 1
  <2> HIDE DEF n
  <2>1. (IF n > 1 THEN n ELSE 1) \in {1, n}
    OBVIOUS
  <2> QED
    BY <1>1, <2>1 DEF Max
<1> QED
  BY <1>2 DEF BloquesAntes

\* How many blocks a truncation takes, by the places it needs.
LEMMA Cuantos ==
    ASSUME NEW c, NEW t, NEW n \in Nat, n = Bloques(c.tamanio),
           NEW m \in Nat, m = Bloques(t)
    PROVE  /\ CuantosToma(c, t) =
                  IF m <= n THEN 0
                  ELSE m - n + IF n <= 1 /\ m > 1 THEN 1 ELSE 0
           /\ FaltaIndirecto(c, t) <=> n <= 1 /\ m > 1
<1>1. BloquesAntes(c) = IF n > 1 THEN n ELSE 1
  BY Antes
<1> QED
  BY <1>1 DEF CuantosToma, FaltaIndirecto

\* Each block taken is for one of the places the file lacks.
LEMMA TomadoUnico ==
    ASSUME NEW n \in Nat, NEW m \in Nat, n < m, NEW z,
           z = m - n + IF n <= 1 /\ m > 1 THEN 1 ELSE 0
    PROVE  /\ \A i \in Lugares(m) \ Lugares(n) : Tomado(n, i) \in 1..z
           /\ \A i, j \in Lugares(m) \ Lugares(n) :
                 Tomado(n, i) = Tomado(n, j) => i = j
           /\ \A k \in 1..z : \E i \in Lugares(m) \ Lugares(n) : Tomado(n, i) = k
<1>1. \A i \in Lugares(m) \ Lugares(n) : Tomado(n, i) \in 1..z
  BY DEF Lugares, Tomado
<1>2. \A i, j \in Lugares(m) \ Lugares(n) : Tomado(n, i) = Tomado(n, j) => i = j
  BY DEF Lugares, Tomado
<1>3. ASSUME NEW k \in 1..z
      PROVE  \E i \in Lugares(m) \ Lugares(n) : Tomado(n, i) = k
  <2> DEFINE i == IF n = 0 THEN (IF k = 1 THEN 1 ELSE IF k = 2 THEN 0 ELSE k - 1)
                  ELSE IF n = 1 THEN (IF k = 1 THEN 0 ELSE k)
                  ELSE k + n
  <2>1. i \in Lugares(m) \ Lugares(n)
    BY DEF Lugares
  <2>2. Tomado(n, i) = k
    BY DEF Tomado
  <2> QED
    BY <2>1, <2>2
<1> QED
  BY <1>1, <1>2, <1>3

\* The places of a smaller file are places of a larger one.
LEMMA LugaresCrecen ==
    ASSUME NEW n \in Nat, NEW m \in Nat, m > 0
    PROVE  /\ Lugares(n) \in SUBSET Nat
           /\ n <= m => Lugares(n) \subseteq Lugares(m)
           /\ Lugares(0) = {}
           /\ n <= 1 => 0 \notin Lugares(n)
  BY DEF Lugares

\* What the blocks of the places are.
LEMMA EnReservados ==
    ASSUME NEW F, NEW P, NEW o, NEW x
    PROVE  x \in Reservados(F, P, o) <=>
               \E f \in DOMAIN F : \E i \in Queda(F, o, f) :
                   x = BloqueDe(P, F[f], i)
  BY DEF Reservados

-----------------------------------------------------------------------------
(* What the operators of a truncation give.                                *)

\* Every place of a file has a block.
LEMMA BloqueTipo ==
    ASSUME Tipos, NEW f \in DOMAIN fcb, NEW i \in Nat
    PROVE  BloqueDe(punteros, fcb[f], i) \in Nat
  BY DEF Tipos, Fcb, BloqueDe, PunteroDe

\* The FCB of a file.
LEMMA DeFcb ==
    ASSUME Tipos, NEW f \in DOMAIN fcb
    PROVE  /\ fcb[f].tamanio \in Tamanios \cup {0} /\ fcb[f].tamanio \in Nat
           /\ fcb[f].directo \in Nat /\ fcb[f].indirecto \in Nat
           /\ Bloques(fcb[f].tamanio) \in 0..(PUNTEROS + 1)
           /\ Bloques(fcb[f].tamanio) = 0 <=> fcb[f].tamanio = 0
<1>1. fcb[f] \in Fcb /\ fcb[f].tamanio \in Tamanios \cup {0}
  BY DEF Tipos
<1>2. Bloques(fcb[f].tamanio) \in 0..(PUNTEROS + 1)
  BY <1>1, BloquesCota
<1>3. fcb[f].tamanio \in Nat
  BY <1>1 DEF Fcb
<1>4. Bloques(fcb[f].tamanio) = 0 <=> fcb[f].tamanio = 0
  BY <1>3, BloquesTipo
<1> QED
  BY <1>1, <1>2, <1>3, <1>4 DEF Fcb

\* The truncation under way.
LEMMA DeObra ==
    ASSUME Tipos, obra # Ninguna
    PROVE  /\ obra.archivo \in DOMAIN fcb /\ sano
           /\ obra.tamanio \in Tamanios /\ obra.tamanio \in Nat
           /\ obra.tomados \in Seq(Nat) /\ obra.porLiberar \in Seq(Nat)
           /\ obra.escrito \in BOOLEAN
           /\ Bloques(obra.tamanio) \in 1..(PUNTEROS + 1)
<1>1. obra \in Obra /\ obra.tamanio \in Tamanios
  BY DEF Tipos
<1>2. /\ Bloques(obra.tamanio) \in 0..(PUNTEROS + 1)
      /\ Bloques(obra.tamanio) > 0
  BY <1>1, BloquesCota
<1>3. Bloques(obra.tamanio) \in 1..(PUNTEROS + 1)
  BY <1>2, SuperbloqueAssumption
<1> QED
  BY <1>1, <1>3 DEF Tipos, Obra

\* What a truncation frees are the blocks of the places that the new size
\* does not have, each once: first to last, then that of pointers.
LEMMA PorLiberarHace ==
    ASSUME Tipos, NEW f \in DOMAIN fcb, NEW t \in Tamanios,
           NEW n, n = Bloques(fcb[f].tamanio), NEW m, m = Bloques(t),
           NEW s, s = PorLiberar(fcb[f], t)
    PROVE  /\ s \in Seq(Nat)
           /\ n <= m => s = <<>>
           /\ \A j \in DOMAIN s : \E i \in Lugares(n) \ Lugares(m) :
                 /\ j = IF i = 0 THEN n - m + 1 ELSE i - m
                 /\ s[j] = BloqueDe(punteros, fcb[f], i)
           /\ \A i \in Lugares(n) \ Lugares(m) : \E j \in DOMAIN s :
                 s[j] = BloqueDe(punteros, fcb[f], i)
<1> DEFINE c == fcb[f]
           A == [i \in 1..n - m |-> Puntero(c.indirecto, m - 2 + i)]
           B == IF m = 1 /\ n > 1 THEN <<c.indirecto>> ELSE <<>>
<1>1. /\ n \in Nat /\ m \in Nat \ {0} /\ c.indirecto \in Nat
      /\ \A k \in Nat : Puntero(c.indirecto, k) \in Nat
      /\ \A k \in Nat : k > 1 =>
            Puntero(c.indirecto, k - 2) = BloqueDe(punteros, c, k)
      /\ BloqueDe(punteros, c, 0) = c.indirecto
  <2>1. n \in Nat /\ c.indirecto \in Nat
    BY DeFcb, SuperbloqueAssumption
  <2>2. m \in Nat \ {0}
    BY BloquesCota, SuperbloqueAssumption
  <2> QED
    BY <2>1, <2>2 DEF Tipos, Puntero, BloqueDe, PunteroDe
<1>2. s = A \o B
  BY DEF PorLiberar
<1>3. CASE n <= m
  <2>1. A = <<>> /\ B = <<>>
    <3>1. 1..n - m = {} /\ ~ (m = 1 /\ n > 1)
      BY <1>1, <1>3
    <3> QED
      BY <3>1
  <2>2. s = <<>>
    BY <1>2, <2>1
  <2>3. Lugares(n) \ Lugares(m) = {}
    BY <1>1, <1>3, LugaresCrecen
  <2> QED
    BY <2>2, <2>3
<1>4. CASE n > m
  <2>1. A \in Seq(Nat) /\ Len(A) = n - m /\ n - m \in Nat
    <3>1. \A i \in 1..n - m : Puntero(c.indirecto, m - 2 + i) \in Nat
      <4>1. \A i \in 1..n - m : m - 2 + i \in Nat
        BY <1>1, <1>4
      <4> QED
        BY <1>1, <4>1
    <3>2. n - m \in Nat
      BY <1>1, <1>4
    <3> QED
      BY <3>1, <3>2
  <2>2. \A i \in 1..n - m : A[i] = BloqueDe(punteros, c, m + i)
    <3>1. \A i \in 1..n - m : m + i \in Nat /\ m + i > 1 /\ (m + i) - 2 = m - 2 + i
      BY <1>1, <1>4
    <3> QED
      BY <1>1, <3>1
  <2> HIDE DEF A
  <2>3. CASE m = 1
    <3>0. PICK x \in Nat : x = c.indirecto
      BY <1>1
    <3>9. s = A \o <<x>>
      BY <1>2, <1>4, <2>3, <3>0
    <3>10. s = Append(A, x)
      BY <2>1, <3>9
    <3>1. /\ s \in Seq(Nat) /\ Len(s) = n - m + 1
          /\ s[n - m + 1] = c.indirecto
          /\ \A i \in 1..n - m : s[i] = A[i]
      BY <2>1, <3>0, <3>10
    <3>2. Lugares(n) \ Lugares(m) = {0} \cup 2..n
      <4>1. Lugares(n) = 0..n /\ Lugares(m) = 1..1
        BY <1>4, <2>3 DEF Lugares
      <4>2. \A i : i \in 0..n \ 1..1 <=> i \in {0} \cup 2..n
        BY <1>1, <1>4, <2>3
      <4> QED
        BY <4>1, <4>2
    <3>3. ASSUME NEW j \in DOMAIN s
          PROVE  \E i \in Lugares(n) \ Lugares(m) :
                    /\ j = IF i = 0 THEN n - m + 1 ELSE i - m
                    /\ s[j] = BloqueDe(punteros, c, i)
      <4>1. j \in 1..(n - m + 1)
        BY <3>1
      <4>2. CASE j = n - m + 1
        BY <1>1, <3>1, <3>2, <4>2
      <4>3. CASE j # n - m + 1
        <5>1. j \in 1..n - m /\ m + j \in 2..n /\ (m + j) - m = j /\ m + j # 0
          BY <1>1, <1>4, <2>3, <4>1, <4>3
        <5> QED
          BY <2>2, <3>1, <3>2, <5>1
      <4> QED
        BY <4>2, <4>3
    <3>4. ASSUME NEW i \in Lugares(n) \ Lugares(m)
          PROVE  \E j \in DOMAIN s : s[j] = BloqueDe(punteros, c, i)
      <4>1. CASE i = 0
        <5>1. n - m + 1 \in DOMAIN s
          BY <2>1, <3>1
        <5> QED
          BY <1>1, <3>1, <4>1, <5>1
      <4>2. CASE i # 0
        <5>2. i \in 2..n
          BY <3>2, <4>2
        <5>3. i - m \in 1..n - m /\ m + (i - m) = i
          BY <1>1, <1>4, <2>3, <5>2
        <5>4. DOMAIN s = 1..(n - m + 1)
          BY <2>1, <3>1
        <5>1. i - m \in 1..n - m /\ m + (i - m) = i /\ i - m \in DOMAIN s
          BY <1>1, <1>4, <5>3, <5>4
        <5> QED
          BY <2>2, <3>1, <5>1
      <4> QED
        BY <4>1, <4>2
    <3>5. s \in Seq(Nat) /\ ~ (n <= m)
      BY <1>1, <1>4, <3>1
    <3> QED
      BY <3>3, <3>4, <3>5
  <2>4. CASE m # 1
    <3>1. s = A
      BY <1>2, <2>1, <2>4
    <3>2. Lugares(n) \ Lugares(m) = (m + 1)..n /\ 0 \notin (m + 1)..n
      BY <1>1, <1>4, <2>4 DEF Lugares
    <3>3. ASSUME NEW j \in DOMAIN s
          PROVE  \E i \in Lugares(n) \ Lugares(m) :
                    /\ j = IF i = 0 THEN n - m + 1 ELSE i - m
                    /\ s[j] = BloqueDe(punteros, c, i)
      <4>1. j \in 1..n - m
        BY <2>1, <3>1
      <4>2. m + j \in (m + 1)..n /\ (m + j) - m = j
        BY <1>1, <1>4, <4>1
      <4> QED
        BY <2>2, <3>1, <3>2, <4>1, <4>2
    <3>4. ASSUME NEW i \in Lugares(n) \ Lugares(m)
          PROVE  \E j \in DOMAIN s : s[j] = BloqueDe(punteros, c, i)
      <4>2. i \in (m + 1)..n
        BY <3>2
      <4>3. DOMAIN s = 1..n - m
        BY <2>1, <3>1
      <4>4. PICK k \in (m + 1)..n : k = i
        BY <4>2
      <4>5. k - m \in 1..n - m /\ m + (k - m) = k
        BY <1>1, <1>4
      <4>1. i - m \in 1..n - m /\ m + (i - m) = i /\ i - m \in DOMAIN s
        BY <4>3, <4>4, <4>5
      <4> QED
        BY <2>2, <3>1, <4>1
    <3> QED
      BY <1>1, <1>4, <2>1, <3>1, <3>3, <3>4
  <2> QED
    BY <2>3, <2>4
<1> QED
  BY <1>1, <1>3, <1>4

\* The FCB that a truncation leaves, place by place.
LEMMA TruncadoHace ==
    ASSUME Tipos, obra # Ninguna,
           NEW c, c = fcb[obra.archivo], NEW v, v = Truncado(c, obra),
           NEW n, n = Bloques(c.tamanio), NEW m, m = Bloques(obra.tamanio),
           Len(obra.tomados) = CuantosToma(c, obra.tamanio)
    PROVE  /\ n \in 0..(PUNTEROS + 1) /\ m \in 1..(PUNTEROS + 1)
           /\ m > n => /\ Len(obra.tomados) =
                             m - n + IF n <= 1 /\ m > 1 THEN 1 ELSE 0
                       /\ Len(obra.tomados) > 0
           /\ m <= n => obra.tomados = <<>>
           /\ \A i \in Lugares(m) \ Lugares(n) :
                 /\ Tomado(n, i) \in DOMAIN obra.tomados
                 /\ obra.tomados[Tomado(n, i)] \in Nat
           /\ v \in Fcb /\ v.tamanio = obra.tamanio
           /\ v.directo = IF n > 0 THEN c.directo ELSE obra.tomados[Tomado(n, 1)]
           /\ m > 1 => v.indirecto = IF n > 1 THEN c.indirecto
                                     ELSE obra.tomados[Tomado(n, 0)]
<1>1. /\ n \in 0..(PUNTEROS + 1) /\ m \in 1..(PUNTEROS + 1)
      /\ n = 0 <=> c.tamanio = 0
      /\ obra.tomados \in Seq(Nat) /\ obra.tamanio \in Nat
      /\ c.directo \in Nat /\ c.indirecto \in Nat
  BY DeFcb, DeObra
<1>2. n \in Nat /\ m \in Nat \ {0}
  BY <1>1, SuperbloqueAssumption
<1>3. /\ Len(obra.tomados) =
             IF m <= n THEN 0
             ELSE m - n + IF n <= 1 /\ m > 1 THEN 1 ELSE 0
      /\ FaltaIndirecto(c, obra.tamanio) <=> n <= 1 /\ m > 1
  <2>1. PICK t : t = obra.tamanio
    OBVIOUS
  <2>2. m = Bloques(t) /\ Len(obra.tomados) = CuantosToma(c, t)
    BY <2>1
  <2>3. CuantosToma(c, t) = IF m <= n THEN 0
                            ELSE m - n + IF n <= 1 /\ m > 1 THEN 1 ELSE 0
    BY <1>2, <2>2, Cuantos
  <2>4. FaltaIndirecto(c, t) <=> n <= 1 /\ m > 1
    BY <1>2, <2>2, Cuantos
  <2> QED
    BY <2>1, <2>2, <2>3, <2>4
<1>4. m > n => /\ Len(obra.tomados) =
                     m - n + IF n <= 1 /\ m > 1 THEN 1 ELSE 0
               /\ Len(obra.tomados) > 0
  BY <1>2, <1>3
<1>5. m <= n => obra.tomados = <<>>
  BY <1>1, <1>3
<1>6. ASSUME NEW i \in Lugares(m) \ Lugares(n)
      PROVE  /\ Tomado(n, i) \in DOMAIN obra.tomados
             /\ obra.tomados[Tomado(n, i)] \in Nat
  <2>1. n < m
    BY <1>2, LugaresCrecen
  <2>2. Tomado(n, i) \in 1..Len(obra.tomados)
    BY <1>2, <1>4, <2>1, TomadoUnico
  <2> QED
    BY <1>1, <2>2
<1>7. n = 0 => /\ 1 \in Lugares(m) \ Lugares(n) /\ Tomado(n, 1) = 1
  BY <1>2 DEF Lugares, Tomado
<1>8. n <= 1 /\ m > 1 => /\ 0 \in Lugares(m) \ Lugares(n)
                         /\ Tomado(n, 0) = IF n = 0 THEN 2 ELSE 1
  BY <1>2 DEF Lugares, Tomado
<1>9. /\ v = [tamanio |-> v.tamanio, directo |-> v.directo,
              indirecto |-> v.indirecto]
      /\ v.tamanio = obra.tamanio
      /\ v.directo = IF c.tamanio = 0 THEN obra.tomados[1] ELSE c.directo
      /\ v.indirecto =
            IF m = 1 THEN 0
            ELSE IF FaltaIndirecto(c, obra.tamanio)
            THEN obra.tomados[IF c.tamanio = 0 THEN 2 ELSE 1]
            ELSE c.indirecto
  BY DEF Truncado
<1>10. v.directo = IF n > 0 THEN c.directo ELSE obra.tomados[Tomado(n, 1)]
  BY <1>1, <1>2, <1>7, <1>9
<1>11. m > 1 => v.indirecto = IF n > 1 THEN c.indirecto
                              ELSE obra.tomados[Tomado(n, 0)]
  BY <1>1, <1>2, <1>3, <1>8, <1>9
<1>12. v.directo \in Nat
  BY <1>1, <1>2, <1>6, <1>7, <1>10
<1>13. v.indirecto \in Nat
  <2>1. CASE m > 1
    BY <1>1, <1>2, <1>6, <1>8, <1>11, <2>1
  <2>2. CASE m = 1
    BY <1>9, <2>2
  <2> QED
    BY <1>2, <2>1, <2>2
<1>14. v \in Fcb
  BY <1>1, <1>9, <1>12, <1>13 DEF Fcb
<1> QED
  BY <1>1, <1>4, <1>5, <1>6, <1>9, <1>10, <1>11, <1>14

\* The pointers that a truncation writes: those of the places the file did not
\* have, with the blocks taken for them.
LEMMA NuevosHace ==
    ASSUME Tipos, obra # Ninguna,
           NEW c, c = fcb[obra.archivo], NEW v, v = Truncado(c, obra),
           NEW n, n = Bloques(c.tamanio), NEW m, m = Bloques(obra.tamanio),
           Len(obra.tomados) = CuantosToma(c, obra.tamanio),
           NEW N, N = PunterosNuevos(c, obra),
           NEW i0, i0 = IF n > 1 THEN n + 1 ELSE 2
    PROVE  /\ \A w \in DOMAIN N : \E i \in i0..m :
                 m > n /\ w = Palabra(v.indirecto, i - 2)
           /\ m > n => \A i \in i0..m :
                 /\ Palabra(v.indirecto, i - 2) \in DOMAIN N
                 /\ N[Palabra(v.indirecto, i - 2)] = obra.tomados[Tomado(n, i)]
<1> DEFINE q == v.indirecto * PUNTEROS
           a == IF n > 1 THEN n ELSE 1
           e == IF obra.tomados = <<>> THEN 0 ELSE m - a
<1>1. /\ n \in Nat /\ m \in Nat \ {0} /\ v.indirecto \in Nat
      /\ m > n => /\ Len(obra.tomados) =
                        m - n + IF n <= 1 /\ m > 1 THEN 1 ELSE 0
                  /\ Len(obra.tomados) > 0
      /\ m <= n => obra.tomados = <<>>
  BY TruncadoHace, SuperbloqueAssumption DEF Fcb
<1>2. q \in Nat /\ \A k \in Int : Palabra(v.indirecto, k) = q + k
  BY <1>1, SuperbloqueAssumption DEF Palabra
<1>3. BloquesAntes(c) = a
  BY <1>1, Antes
<1> DEFINE x == Palabra(v.indirecto, PrimeraEntrada(c))
<1>4. x = q + (a - 1)
  BY <1>1, <1>2, <1>3 DEF PrimeraEntrada
<1>5. N = [w \in x..x + e - 1 |->
              obra.tomados[(Len(obra.tomados) - e) + 1 + w - x]]
  BY <1>3 DEF PunterosNuevos
<1>8. /\ a \in Nat \ {0} /\ i0 = a + 1 /\ i0 \in Nat
      /\ m > n => a <= m
      /\ a = IF n > 1 THEN n ELSE 1
  BY <1>1
<1> HIDE DEF q, x, a
<1>6. CASE m <= n
  <2>3. e = 0
    BY <1>1, <1>6
  <2>4. x \in Int
    BY <1>2, <1>4, <1>8
  <2>1. e = 0 /\ x \in Int
    BY <2>3, <2>4
  <2>2. DOMAIN N = {}
    BY <1>5, <2>1
  <2> QED
    BY <1>1, <1>6, <2>2
<1>7. CASE m > n
  <2>1. obra.tomados # <<>>
    BY <1>1, <1>7
  <2>6. e = m - a
    BY <2>1
  <2>7. x \in Int
    BY <1>2, <1>4, <1>8
  <2>8. a - 1 = i0 - 2
    BY <1>8
  <2>2. e = m - a /\ x \in Int /\ a - 1 = i0 - 2
    BY <2>6, <2>7, <2>8
  <2>3. DOMAIN N = x..x + (m - a) - 1
    BY <1>5, <2>2
  <2>4. ASSUME NEW w \in DOMAIN N
        PROVE  \E i \in i0..m : w = Palabra(v.indirecto, i - 2)
    <3> DEFINE i == w - q + 2
    <3>3. w \in x..x + (m - a) - 1 /\ x = q + (a - 1) /\ q \in Nat
      BY <1>2, <1>4, <2>3
    <3>10. a \in Nat /\ m \in Nat /\ q \in Nat /\ x = q + (a - 1)
      BY <1>1, <1>8, <3>3
    <3>9. x \in Int /\ x + (m - a) - 1 = q + m - 2
      BY <3>10
    <3>4. w \in Int /\ q + (a - 1) <= w /\ w <= q + m - 2
      BY <3>3, <3>9
    <3>5. i - 2 \in Int /\ q + (i - 2) = w
      BY <3>3, <3>4
    <3>7. a \in Nat /\ m \in Nat /\ q \in Nat /\ i0 = a + 1
      BY <1>1, <1>8, <3>3
    <3>8. a + 1 <= i /\ i <= m
      BY <3>4, <3>7
    <3>6. i \in i0..m
      BY <3>5, <3>7, <3>8
    <3>1. i \in i0..m /\ i - 2 \in Int /\ q + (i - 2) = w
      BY <3>5, <3>6
    <3>2. w = Palabra(v.indirecto, i - 2)
      BY <1>2, <3>1
    <3> QED
      BY <3>1, <3>2
  <2>5. ASSUME NEW i \in i0..m
        PROVE  /\ Palabra(v.indirecto, i - 2) \in DOMAIN N
               /\ N[Palabra(v.indirecto, i - 2)] = obra.tomados[Tomado(n, i)]
    <3>5. i \in Int /\ i - 2 \in Int /\ i0 <= i /\ i <= m
      BY <1>1, <1>8
    <3>6. Palabra(v.indirecto, i - 2) = q + (i - 2)
      BY <1>2, <3>5
    <3>1. i \in Int /\ Palabra(v.indirecto, i - 2) = q + (i - 2)
      BY <3>5, <3>6
    <3>7. q \in Nat /\ x = q + (a - 1)
      BY <1>2, <1>4
    <3>8. q + (i - 2) \in x..x + (m - a) - 1
      BY <1>1, <1>8, <3>5, <3>7
    <3>2. q + (i - 2) \in DOMAIN N
      BY <2>3, <3>8
    <3>3. N[q + (i - 2)] =
              obra.tomados[(Len(obra.tomados) - e) + 1 + (q + (i - 2)) - x]
      BY <1>5, <2>2, <2>3, <3>2
    <3>4. (Len(obra.tomados) - e) + 1 + (q + (i - 2)) - x = Tomado(n, i)
      <4> DEFINE z == Len(obra.tomados)
      <4>1. z = m - n + IF n <= 1 /\ m > 1 THEN 1 ELSE 0
        BY <1>1, <1>7
      <4>2. i > 1 /\ m > 1
        BY <1>1, <1>8, <3>1
      <4>3. Tomado(n, i) =
                IF n = 0 THEN i + 1 ELSE IF n = 1 THEN i ELSE i - n
        BY <3>1, <4>2 DEF Tomado
      <4> HIDE DEF z
      <4>5. /\ n \in Nat /\ m \in Nat /\ a \in Nat /\ i \in Int /\ q \in Nat
            /\ x = q + (a - 1) /\ m > 1
            /\ a = IF n > 1 THEN n ELSE 1
        BY <1>1, <1>8, <3>5, <3>7, <4>2
      <4>4. (z - (m - a)) + 1 + (q + (i - 2)) - x = Tomado(n, i)
        <5>1. CASE n = 0
          <6>1. a = 1 /\ z = m + 1 /\ Tomado(n, i) = i + 1
            BY <4>1, <4>3, <4>5, <5>1
          <6> QED
            BY <4>5, <6>1
        <5>2. CASE n = 1
          <6>1. a = 1 /\ z = m /\ Tomado(n, i) = i
            BY <4>1, <4>3, <4>5, <5>2
          <6> QED
            BY <4>5, <6>1
        <5>3. CASE n > 1
          <6>1. a = n
            BY <4>5, <5>3
          <6>2. z = m - n
            BY <4>1, <4>5, <5>3
          <6>3. Tomado(n, i) = i - n
            <7>1. n # 0 /\ n # 1
              BY <4>5, <5>3
            <7> QED
              BY <4>3, <7>1
          <6>9. n \in Nat /\ m \in Nat
            BY <4>5
          <6>5. z - (m - a) = 0
            BY <6>1, <6>2, <6>9
          <6>6. x = q + (n - 1)
            BY <4>5, <6>1
          <6>8. q \in Nat /\ i \in Int /\ n \in Nat
            BY <4>5
          <6>7. 0 + 1 + (q + (i - 2)) - (q + (n - 1)) = i - n
            BY <6>8
          <6>4. (z - (m - a)) + 1 + (q + (i - 2)) - x = i - n
            BY <6>5, <6>6, <6>7
          <6> QED
            BY <6>3, <6>4
        <5> QED
          BY <4>5, <5>1, <5>2, <5>3
      <4> QED
        BY <2>2, <4>4 DEF z
    <3> QED
      BY <3>1, <3>2, <3>3, <3>4
  <2> QED
    BY <1>7, <2>4, <2>5
<1> QED
  BY <1>1, <1>6, <1>7

\* Which places a file of n blocks has.
LEMMA LugaresDe ==
    ASSUME NEW n \in Nat
    PROVE  /\ 0 \in Lugares(n) <=> n > 1
           /\ 1 \in Lugares(n) <=> n > 0
           /\ \A i \in Nat : i > 1 => (i \in Lugares(n) <=> i <= n)
           /\ \A i \in Lugares(n) : i \in Nat /\ i <= n
  BY DEF Lugares

\* The pointers as the loop of fputs leaves them.
ConNuevos(P, N) == [w \in DOMAIN P \cup DOMAIN N |->
                       IF w \in DOMAIN N THEN N[w] ELSE P[w]]

\* The words that a truncation writes are not those of any pointer in use:
\* they are past the end of the block of pointers of its own file, or in a
\* block that nobody has.
LEMMA NoPisan ==
    ASSUME Tipos, Unicos, Toma, obra # Ninguna,
           NEW c, c = fcb[obra.archivo],
           Len(obra.tomados) = CuantosToma(c, obra.tamanio),
           NEW N, N = PunterosNuevos(c, obra),
           NEW f \in DOMAIN fcb, NEW i \in Suyos(fcb[f]), i > 1
    PROVE  Palabra(fcb[f].indirecto, i - 2) \notin DOMAIN N
<1> SUFFICES ASSUME Palabra(fcb[f].indirecto, i - 2) \in DOMAIN N
             PROVE  FALSE
  OBVIOUS
<1>1. PICK v : v = Truncado(c, obra)
  OBVIOUS
<1>2. PICK n : n = Bloques(c.tamanio)
  OBVIOUS
<1>3. PICK m : m = Bloques(obra.tamanio)
  OBVIOUS
<1>4. PICK i0 : i0 = IF n > 1 THEN n + 1 ELSE 2
  OBVIOUS
<1>5. /\ n \in 0..(PUNTEROS + 1) /\ m \in 1..(PUNTEROS + 1)
      /\ v.indirecto \in Nat
      /\ \A k \in Lugares(m) \ Lugares(n) : Tomado(n, k) \in DOMAIN obra.tomados
      /\ m > 1 => v.indirecto = IF n > 1 THEN c.indirecto
                                ELSE obra.tomados[Tomado(n, 0)]
  BY <1>1, <1>2, <1>3, TruncadoHace DEF Fcb
<1>6. PICK j \in i0..m : /\ m > n
                         /\ Palabra(fcb[f].indirecto, i - 2) =
                                Palabra(v.indirecto, j - 2)
  <2>1. \A w \in DOMAIN N : \E k \in i0..m :
           m > n /\ w = Palabra(v.indirecto, k - 2)
    BY <1>1, <1>2, <1>3, <1>4, NuevosHace
  <2> QED
    BY <2>1
<1>7. PICK nf : nf = Bloques(fcb[f].tamanio)
  OBVIOUS
<1>8. /\ nf \in 0..(PUNTEROS + 1) /\ fcb[f].indirecto \in Nat
      /\ obra.archivo \in DOMAIN fcb /\ sano
  BY <1>7, DeFcb, DeObra
<1>9. i \in Nat /\ i <= nf /\ 0 \in Lugares(nf) /\ n \in Nat /\ m \in Nat
  <2>1. nf \in Nat /\ n \in Nat /\ m \in Nat
    BY <1>5, <1>8, SuperbloqueAssumption
  <2>2. i \in Lugares(nf)
    BY <1>7 DEF Suyos
  <2>3. i \in Nat /\ i <= nf
    BY <2>1, <2>2, LugaresDe
  <2>4. nf > 1
    BY <2>1, <2>3
  <2> QED
    BY <2>1, <2>3, <2>4, LugaresDe
<1>10. i - 2 \in 0..(PUNTEROS - 1) /\ j - 2 \in 0..(PUNTEROS - 1)
       /\ j > 1 /\ m > 1 /\ i0 <= j /\ j \in Nat
  BY <1>4, <1>5, <1>8, <1>9, SuperbloqueAssumption
<1>11. fcb[f].indirecto = v.indirecto /\ i - 2 = j - 2
  BY <1>5, <1>6, <1>8, <1>10, PalabraUnica
<1>12. i = j
  BY <1>9, <1>10, <1>11
<1>13. /\ BloqueDe(punteros, fcb[f], 0) = fcb[f].indirecto
       /\ BloqueDe(punteros, c, 0) = c.indirecto
       /\ 0 \in Suyos(fcb[f])
  BY <1>7, <1>9 DEF BloqueDe, Suyos
<1>14. CASE n > 1
  <2>1. 0 \in Suyos(fcb[obra.archivo])
    BY <1>2, <1>9, <1>14, LugaresDe DEF Suyos
  <2>2. v.indirecto = c.indirecto
    BY <1>5, <1>10, <1>14
  <2>3. BloqueDe(punteros, fcb[f], 0) = BloqueDe(punteros, fcb[obra.archivo], 0)
    BY <1>11, <1>13, <2>2
  <2>4. f = obra.archivo
    BY <1>8, <1>13, <2>1, <2>3 DEF Unicos
  <2>5. nf = n
    BY <1>2, <1>7, <2>4
  <2> QED
    BY <1>4, <1>9, <1>10, <1>12, <1>14, <2>5
<1>15. CASE ~ (n > 1)
  <2>1. v.indirecto = obra.tomados[Tomado(n, 0)]
    BY <1>5, <1>10, <1>15
  <2>2. 0 \in Lugares(m) \ Lugares(n)
    BY <1>9, <1>10, <1>15, LugaresDe
  <2>3. Tomado(n, 0) \in DOMAIN obra.tomados
    BY <1>5, <2>2
  <2>4. obra.tomados[Tomado(n, 0)] # BloqueDe(punteros, fcb[f], 0)
    BY <1>13, <2>3 DEF Toma
  <2> QED
    BY <1>11, <1>13, <2>1, <2>4
<1> QED
  BY <1>14, <1>15

\* Writing the pointers moves no block of any file, and the places of the new
\* size, read through the FCB that is not yet saved, are the old ones and then
\* the blocks taken.
LEMMA EscribirHace ==
    ASSUME Tipos, Unicos, Toma, obra # Ninguna,
           NEW c, c = fcb[obra.archivo],
           Len(obra.tomados) = CuantosToma(c, obra.tamanio),
           NEW N, N = PunterosNuevos(c, obra),
           NEW Q, Q = ConNuevos(punteros, N),
           NEW v, v = Truncado(c, obra),
           NEW n, n = Bloques(c.tamanio), NEW m, m = Bloques(obra.tamanio)
    PROVE  /\ \A f \in DOMAIN fcb : \A i \in Suyos(fcb[f]) :
                 BloqueDe(Q, fcb[f], i) = BloqueDe(punteros, fcb[f], i)
           /\ \A i \in Lugares(m) :
                 BloqueDe(Q, v, i) =
                     IF i \in Lugares(n) THEN BloqueDe(punteros, c, i)
                     ELSE obra.tomados[Tomado(n, i)]
           /\ \A w \in DOMAIN Q : w \in Nat /\ Q[w] \in Nat
<1>1. PICK i0 : i0 = IF n > 1 THEN n + 1 ELSE 2
  OBVIOUS
<1>2. /\ n \in 0..(PUNTEROS + 1) /\ m \in 1..(PUNTEROS + 1)
      /\ v.indirecto \in Nat
      /\ \A k \in Lugares(m) \ Lugares(n) :
            /\ Tomado(n, k) \in DOMAIN obra.tomados
            /\ obra.tomados[Tomado(n, k)] \in Nat
      /\ v.directo = IF n > 0 THEN c.directo ELSE obra.tomados[Tomado(n, 1)]
      /\ m > 1 => v.indirecto = IF n > 1 THEN c.indirecto
                                ELSE obra.tomados[Tomado(n, 0)]
  BY TruncadoHace DEF Fcb
<1>3. /\ \A w \in DOMAIN N : \E k \in i0..m :
            m > n /\ w = Palabra(v.indirecto, k - 2)
      /\ m > n => \A k \in i0..m :
            /\ Palabra(v.indirecto, k - 2) \in DOMAIN N
            /\ N[Palabra(v.indirecto, k - 2)] = obra.tomados[Tomado(n, k)]
  BY <1>1, NuevosHace
<1>4. n \in Nat /\ m \in Nat /\ i0 \in Nat /\ i0 > 1
  BY <1>1, <1>2, SuperbloqueAssumption
<1>5. ASSUME NEW f \in DOMAIN fcb, NEW i \in Suyos(fcb[f])
      PROVE  BloqueDe(Q, fcb[f], i) = BloqueDe(punteros, fcb[f], i)
  <2>1. i \in Nat
    <3>1. Bloques(fcb[f].tamanio) \in Nat
      BY DeFcb, SuperbloqueAssumption
    <3> QED
      BY <3>1, LugaresDe DEF Suyos
  <2>2. CASE i > 1
    <3>1. Palabra(fcb[f].indirecto, i - 2) \notin DOMAIN N
      BY <2>2, NoPisan
    <3> QED
      BY <3>1 DEF BloqueDe, PunteroDe, ConNuevos
  <2>3. CASE ~ (i > 1)
    <3>1. i = 0 \/ i = 1
      BY <2>1, <2>3
    <3> QED
      BY <3>1 DEF BloqueDe
  <2> QED
    BY <2>2, <2>3
<1>6. \A k \in i0..m : k \in Lugares(m) \ Lugares(n)
  <2> SUFFICES ASSUME NEW k \in i0..m
               PROVE  k \in Lugares(m) \ Lugares(n)
    OBVIOUS
  <2>1. k \in Nat /\ k > 1 /\ k <= m /\ ~ (k <= n)
    BY <1>1, <1>4
  <2> QED
    BY <1>4, <2>1, LugaresDe
<1>7. ASSUME NEW i \in Lugares(m)
      PROVE  BloqueDe(Q, v, i) =
                 IF i \in Lugares(n) THEN BloqueDe(punteros, c, i)
                 ELSE obra.tomados[Tomado(n, i)]
  <2>1. i \in Nat /\ i <= m
    BY <1>4, LugaresDe
  <2>2. CASE i = 0
    <3>1. m > 1 /\ (0 \in Lugares(n) <=> n > 1)
      BY <1>4, <2>2, LugaresDe
    <3>2. BloqueDe(Q, v, i) = v.indirecto /\ BloqueDe(punteros, c, i) = c.indirecto
      BY <2>2 DEF BloqueDe
    <3> QED
      BY <1>2, <2>2, <3>1, <3>2
  <2>3. CASE i = 1
    <3>1. 1 \in Lugares(n) <=> n > 0
      BY <1>4, LugaresDe
    <3>2. BloqueDe(Q, v, i) = v.directo /\ BloqueDe(punteros, c, i) = c.directo
      BY <2>3 DEF BloqueDe
    <3> QED
      BY <1>2, <2>3, <3>1, <3>2
  <2>4. CASE i > 1
    <3>1. /\ m > 1 /\ (i \in Lugares(n) <=> i <= n)
          /\ BloqueDe(Q, v, i) = PunteroDe(Q, v.indirecto, i - 2)
          /\ BloqueDe(Q, c, i) = PunteroDe(Q, c.indirecto, i - 2)
      BY <1>4, <2>1, <2>4, LugaresDe DEF BloqueDe
    <3>2. CASE i <= n
      <4>1. n > 1
        BY <1>4, <2>1, <2>4, <3>2
      <4>2. v.indirecto = c.indirecto
        BY <1>2, <3>1, <4>1
      <4>3. i \in Suyos(fcb[obra.archivo]) /\ obra.archivo \in DOMAIN fcb
        BY <3>1, <3>2, DeObra DEF Suyos
      <4>4. BloqueDe(Q, c, i) = BloqueDe(punteros, c, i)
        BY <1>5, <4>3
      <4> QED
        BY <3>1, <3>2, <4>2, <4>4
    <3>3. CASE ~ (i <= n)
      <4>1. i \in i0..m /\ m > n
        BY <1>1, <1>4, <2>1, <2>4, <3>3
      <4>2. /\ Palabra(v.indirecto, i - 2) \in DOMAIN N
            /\ N[Palabra(v.indirecto, i - 2)] = obra.tomados[Tomado(n, i)]
        BY <1>3, <4>1
      <4>3. PunteroDe(Q, v.indirecto, i - 2) = obra.tomados[Tomado(n, i)]
        BY <4>2 DEF PunteroDe, ConNuevos
      <4> QED
        BY <3>1, <3>3, <4>3
    <3> QED
      BY <3>2, <3>3
  <2> QED
    BY <2>1, <2>2, <2>3, <2>4
<1>8. ASSUME NEW w \in DOMAIN Q
      PROVE  w \in Nat /\ Q[w] \in Nat
  <2>1. CASE w \in DOMAIN N
    <3>1. PICK k \in i0..m : m > n /\ w = Palabra(v.indirecto, k - 2)
      BY <1>3, <2>1
    <3>2. k - 2 \in Nat
      BY <1>4
    <3>3. w \in Nat
      BY <1>2, <3>1, <3>2, PalabraTipo
    <3>4. N[w] = obra.tomados[Tomado(n, k)]
      BY <1>3, <3>1
    <3>5. obra.tomados[Tomado(n, k)] \in Nat
      BY <1>2, <1>6
    <3> QED
      BY <2>1, <3>3, <3>4, <3>5 DEF ConNuevos
  <2>2. CASE w \notin DOMAIN N
    BY <2>2 DEF Tipos, ConNuevos
  <2> QED
    BY <2>1, <2>2
<1> QED
  BY <1>5, <1>7, <1>8

-----------------------------------------------------------------------------
(* Every step keeps the invariant.                                         *)

\* The invariant holds of a file system that was just formatted.
LEMMA InvInit == Init => Inv
<1> SUFFICES ASSUME Init
             PROVE  Inv
  OBVIOUS
<1>1. /\ DOMAIN fcb = {} /\ DOMAIN punteros = {} /\ bitmap = {}
      /\ obra = Ninguna /\ caidas = 0 /\ sano = TRUE
  BY DEF Init
<1>2. Tipos
  BY <1>1, CaidasAssumption, FS_EmptySet DEF Tipos
<1>3. Unicos /\ Toma /\ Libera /\ Escribe
  BY <1>1 DEF Unicos, Toma, Libera, Escribe
<1>4. Reservados(fcb, punteros, obra) = {}
  BY <1>1, EnReservados
<1>5. Marcados
  BY <1>1, <1>4 DEF Marcados, DeLaObra
<1> QED
  BY <1>2, <1>3, <1>5 DEF Inv

\* A file that is created has no block.
LEMMA InvCrear ==
    ASSUME Inv, NEW f \in Archivos, CrearArchivo(f)
    PROVE  Inv'
<1>1. /\ obra = Ninguna /\ obra' = Ninguna /\ f \notin DOMAIN fcb
      /\ UNCHANGED <<punteros, bitmap, caidas, sano>>
      /\ DOMAIN fcb' = DOMAIN fcb \cup {f}
      /\ fcb'[f] = [tamanio |-> 0, directo |-> 0, indirecto |-> 0]
      /\ \A g \in DOMAIN fcb : fcb'[g] = fcb[g]
  BY DEF CrearArchivo
<1>2. Suyos(fcb'[f]) = {}
  <2>1. fcb'[f].tamanio = 0
    BY <1>1
  <2>2. Bloques(0) = 0
    BY BloquesTipo
  <2>3. Lugares(0) = {}
    BY DEF Lugares
  <2> QED
    BY <2>1, <2>2, <2>3 DEF Suyos
<1>3. Tipos'
  <2>1. fcb'[f] \in Fcb /\ fcb'[f].tamanio = 0
    BY <1>1 DEF Fcb
  <2> QED
    BY <1>1, <2>1 DEF Inv, Tipos
<1>4. Unicos'
  BY <1>1, <1>2 DEF Inv, Unicos
<1>5. ASSUME NEW x
      PROVE  x \in Reservados(fcb', punteros', obra') <=>
                 x \in Reservados(fcb, punteros, obra)
  <2>1. Queda(fcb', obra', f) = {}
    BY <1>1, <1>2 DEF Queda
  <2>2. \A g \in DOMAIN fcb : Queda(fcb', obra', g) = Queda(fcb, obra, g)
    BY <1>1 DEF Queda
  <2>3. x \in Reservados(fcb', punteros', obra') <=>
           \E g \in DOMAIN fcb' : \E i \in Queda(fcb', obra', g) :
               x = BloqueDe(punteros', fcb'[g], i)
    BY EnReservados
  <2>4. x \in Reservados(fcb, punteros, obra) <=>
           \E g \in DOMAIN fcb : \E i \in Queda(fcb, obra, g) :
               x = BloqueDe(punteros, fcb[g], i)
    BY EnReservados
  <2> QED
    BY <1>1, <2>1, <2>2, <2>3, <2>4
<1>6. Marcados'
  <2>1. DeLaObra(obra') = DeLaObra(obra)
    BY <1>1
  <2> QED
    BY <1>1, <1>5, <2>1 DEF Inv, Marcados
<1>7. Toma' /\ Libera' /\ Escribe'
  BY <1>1 DEF Toma, Libera, Escribe
<1> QED
  BY <1>3, <1>4, <1>6, <1>7 DEF Inv

\* A truncation starts with nothing taken and with every block that the new
\* size does not have still to be freed.
LEMMA InvTruncar ==
    ASSUME Inv, NEW f \in Archivos, NEW t \in Tamanios, TruncarArchivo(f, t)
    PROVE  Inv'
<1>1. PICK s : s = PorLiberar(fcb[f], t)
  OBVIOUS
<1>2. /\ obra = Ninguna /\ sano /\ f \in DOMAIN fcb
      /\ obra' = [archivo |-> f, tamanio |-> t, tomados |-> <<>>,
                  porLiberar |-> s, escrito |-> FALSE]
      /\ UNCHANGED <<fcb, punteros, bitmap, caidas, sano>>
  BY <1>1 DEF TruncarArchivo, SeSigue
<1>3. PICK n : n = Bloques(fcb[f].tamanio)
  OBVIOUS
<1>4. PICK m : m = Bloques(t)
  OBVIOUS
<1>5. /\ s \in Seq(Nat)
      /\ \A j \in DOMAIN s : \E i \in Lugares(n) \ Lugares(m) :
            /\ j = IF i = 0 THEN n - m + 1 ELSE i - m
            /\ s[j] = BloqueDe(punteros, fcb[f], i)
      /\ \A i \in Lugares(n) \ Lugares(m) : \E j \in DOMAIN s :
            s[j] = BloqueDe(punteros, fcb[f], i)
  <2>1. Tipos
    BY DEF Inv
  <2>2. s \in Seq(Nat)
    BY <1>1, <1>2, <1>3, <1>4, <2>1, PorLiberarHace
  <2>3. \A j \in DOMAIN s : \E i \in Lugares(n) \ Lugares(m) :
           /\ j = IF i = 0 THEN n - m + 1 ELSE i - m
           /\ s[j] = BloqueDe(punteros, fcb[f], i)
    BY <1>1, <1>2, <1>3, <1>4, <2>1, PorLiberarHace
  <2>4. \A i \in Lugares(n) \ Lugares(m) : \E j \in DOMAIN s :
           s[j] = BloqueDe(punteros, fcb[f], i)
    BY <1>1, <1>2, <1>3, <1>4, <2>1, PorLiberarHace
  <2> QED
    BY <2>2, <2>3, <2>4
<1>6. t \in Nat /\ n \in Nat /\ m \in Nat
  BY <1>2, <1>3, <1>4, DeFcb, BloquesCota, SuperbloqueAssumption DEF Inv
<1>7. Tipos'
  <2>1. obra' \in Obra /\ obra'.tamanio = t /\ obra'.archivo = f
    BY <1>2, <1>5, <1>6 DEF Obra
  <2> QED
    BY <1>2, <2>1 DEF Inv, Tipos
<1>8. obra' # Ninguna /\ obra'.archivo = f /\ obra'.tamanio = t
      /\ obra'.tomados = <<>> /\ obra'.porLiberar = s /\ ~ obra'.escrito
  <2>1. obra' \in Obra
    BY <1>2, <1>5, <1>6 DEF Obra
  <2> QED
    BY <1>2, <2>1, NingunaAssumption
<1>9. Unicos'
  BY <1>2 DEF Inv, Unicos
<1>10. /\ Suyos(fcb[f]) = Lugares(n)
       /\ Queda(fcb, obra', f) = Lugares(n) \cap Lugares(m)
       /\ \A g \in DOMAIN fcb : Queda(fcb, obra, g) = Suyos(fcb[g])
       /\ \A g \in DOMAIN fcb \ {f} : Queda(fcb, obra', g) = Suyos(fcb[g])
  BY <1>2, <1>3, <1>4, <1>8 DEF Queda, Suyos
<1>11. ASSUME NEW x
       PROVE  /\ x \in Reservados(fcb, punteros, obra) <=>
                    \E g \in DOMAIN fcb : \E i \in Suyos(fcb[g]) :
                        x = BloqueDe(punteros, fcb[g], i)
              /\ x \in Reservados(fcb, punteros, obra') <=>
                    \E g \in DOMAIN fcb : \E i \in Queda(fcb, obra', g) :
                        x = BloqueDe(punteros, fcb[g], i)
  <2>1. x \in Reservados(fcb, punteros, obra) <=>
            \E g \in DOMAIN fcb : \E i \in Queda(fcb, obra, g) :
                x = BloqueDe(punteros, fcb[g], i)
    BY EnReservados
  <2> QED
    BY <1>10, <2>1, EnReservados
<1>12. DeLaObra(obra') = Range(s)
  <2>1. Range(<<>>) = {}
    BY DEF Range
  <2> QED
    BY <1>8, <2>1 DEF DeLaObra
<1>13. \A x \in Range(s) : \E i \in Lugares(n) \ Lugares(m) :
          x = BloqueDe(punteros, fcb[f], i)
  BY <1>5 DEF Range
<1>14. Reservados(fcb, punteros, obra') \cup Range(s) \subseteq
           Reservados(fcb, punteros, obra)
  <2>1. ASSUME NEW x \in Reservados(fcb, punteros, obra')
        PROVE  x \in Reservados(fcb, punteros, obra)
    BY <1>10, <1>11
  <2>2. ASSUME NEW x \in Range(s)
        PROVE  x \in Reservados(fcb, punteros, obra)
    BY <1>2, <1>10, <1>11, <1>13
  <2> QED
    BY <2>1, <2>2
<1>15. Reservados(fcb, punteros, obra) \subseteq
           Reservados(fcb, punteros, obra') \cup Range(s)
  <2> SUFFICES ASSUME NEW x \in Reservados(fcb, punteros, obra)
               PROVE  x \in Reservados(fcb, punteros, obra') \cup Range(s)
    OBVIOUS
  <2>1. PICK g \in DOMAIN fcb : \E i \in Suyos(fcb[g]) :
            x = BloqueDe(punteros, fcb[g], i)
    BY <1>11
  <2>2. PICK i \in Suyos(fcb[g]) : x = BloqueDe(punteros, fcb[g], i)
    BY <2>1
  <2>3. CASE g = f /\ i \notin Lugares(m)
    <3>1. PICK j \in DOMAIN s : s[j] = BloqueDe(punteros, fcb[f], i)
      BY <1>5, <1>10, <2>3
    <3>2. x \in Range(s)
      BY <2>2, <2>3, <3>1 DEF Range
    <3> QED
      BY <3>2
  <2>4. CASE ~ (g = f /\ i \notin Lugares(m))
    <3>1. i \in Queda(fcb, obra', g)
      BY <1>10, <2>4
    <3> QED
      BY <1>11, <2>2, <3>1
  <2> QED
    BY <2>3, <2>4
<1>16. Marcados'
  <2>1. DeLaObra(obra) = {}
    BY <1>2 DEF DeLaObra
  <2>2. Reservados(fcb', punteros', obra') = Reservados(fcb, punteros, obra')
    BY <1>2
  <2> QED
    BY <1>2, <1>12, <1>14, <1>15, <2>1, <2>2 DEF Inv, Marcados
<1>17. Toma'
  <2>1. CuantosToma(fcb[f], t) =
            IF m <= n THEN 0 ELSE m - n + IF n <= 1 /\ m > 1 THEN 1 ELSE 0
    BY <1>3, <1>4, <1>6, Cuantos
  <2>2. 0 <= CuantosToma(fcb[f], t)
    BY <1>6, <2>1
  <2>3. Len(<<>>) = 0 /\ DOMAIN <<>> = {}
    OBVIOUS
  <2> QED
    BY <1>2, <1>8, <2>2, <2>3 DEF Toma
<1>18. Libera'
  <2>1. ASSUME NEW j \in DOMAIN s, NEW k \in DOMAIN s, s[j] = s[k]
        PROVE  j = k
    <3>1. PICK a \in Lugares(n) \ Lugares(m) :
              /\ j = IF a = 0 THEN n - m + 1 ELSE a - m
              /\ s[j] = BloqueDe(punteros, fcb[f], a)
      BY <1>5
    <3>2. PICK b \in Lugares(n) \ Lugares(m) :
              /\ k = IF b = 0 THEN n - m + 1 ELSE b - m
              /\ s[k] = BloqueDe(punteros, fcb[f], b)
      BY <1>5
    <3>3. a = b
      BY <1>2, <1>10, <2>1, <3>1, <3>2 DEF Inv, Unicos
    <3> QED
      BY <3>1, <3>2, <3>3
  <2>2. \A j \in DOMAIN s : \E i \in Suyos(fcb[f]) \ Lugares(m) :
           s[j] = BloqueDe(punteros, fcb[f], i)
    BY <1>5, <1>10
  <2> QED
    BY <1>2, <1>4, <1>8, <2>1, <2>2 DEF Libera
<1>19. Escribe'
  BY <1>8 DEF Escribe
<1> QED
  BY <1>7, <1>9, <1>16, <1>17, <1>18, <1>19 DEF Inv

\* One block is freed: that of a place the new size does not have, and no other
\* place, nor the truncation itself, has it.
LEMMA InvLiberar ==
    ASSUME Inv, LiberarBloque
    PROVE  Inv'
<1>1. PICK s : s = obra.porLiberar
  OBVIOUS
<1>2. PICK c : c = fcb[obra.archivo]
  OBVIOUS
<1>3. PICK m : m = Bloques(obra.tamanio)
  OBVIOUS
<1>4. /\ obra # Ninguna /\ s # <<>> /\ s \in Seq(Nat)
      /\ obra \in Obra /\ obra.archivo \in DOMAIN fcb /\ sano
      /\ bitmap' = bitmap \ {Head(s)}
      /\ obra' = [obra EXCEPT !.porLiberar = Tail(s)]
      /\ UNCHANGED <<fcb, punteros, caidas, sano>>
  <2>1. obra # Ninguna
    BY DEF LiberarBloque
  <2> QED
    BY <1>1, <2>1, DeObra DEF Inv, Tipos, LiberarBloque
<1>5. PICK r : r = Tail(s)
  OBVIOUS
<1>6. PICK h : h = Head(s)
  OBVIOUS
<1>7. /\ r \in Seq(Nat) /\ h = s[1] /\ 1 \in DOMAIN s
      /\ \A k \in DOMAIN r : k + 1 \in DOMAIN s /\ r[k] = s[k + 1] /\ k + 1 # 1
      /\ \A k \in DOMAIN s : k # 1 => k - 1 \in DOMAIN r /\ r[k - 1] = s[k]
      /\ DOMAIN r \subseteq Nat
  BY <1>4, <1>5, <1>6
<1>8. /\ obra' \in Obra /\ obra' # Ninguna
      /\ obra'.archivo = obra.archivo /\ obra'.tamanio = obra.tamanio
      /\ obra'.tomados = obra.tomados /\ obra'.escrito = obra.escrito
      /\ obra'.porLiberar = r
  <2>1. /\ obra' \in Obra
        /\ obra'.archivo = obra.archivo /\ obra'.tamanio = obra.tamanio
        /\ obra'.tomados = obra.tomados /\ obra'.escrito = obra.escrito
        /\ obra'.porLiberar = r
    BY <1>4, <1>5, <1>7 DEF Obra
  <2> QED
    BY <2>1, NingunaAssumption
<1>9. /\ \A j, k \in DOMAIN s : s[j] = s[k] => j = k
      /\ \A j \in DOMAIN s : \E i \in Suyos(c) \ Lugares(m) :
            s[j] = BloqueDe(punteros, c, i)
  BY <1>1, <1>2, <1>3, <1>4 DEF Inv, Libera
<1>10. PICK i0 \in Suyos(c) \ Lugares(m) : h = BloqueDe(punteros, c, i0)
  BY <1>7, <1>9
<1>11. h \notin Range(r) /\ Range(s) = Range(r) \cup {h}
  <2>1. h \notin Range(r)
    BY <1>7, <1>9 DEF Range
  <2>2. \A x : x \in Range(s) <=> x \in Range(r) \/ x = h
    BY <1>7 DEF Range
  <2> QED
    BY <2>1, <2>2
<1>12. Tipos'
  <2>1. bitmap' \in SUBSET bitmap /\ IsFiniteSet(bitmap)
    BY <1>4 DEF Inv, Tipos
  <2>2. IsFiniteSet(bitmap')
    BY <2>1, FS_Subset
  <2> QED
    BY <1>4, <1>8, <2>1, <2>2 DEF Inv, Tipos
<1>13. Unicos'
  BY <1>4 DEF Inv, Unicos
<1>14. Reservados(fcb', punteros', obra') = Reservados(fcb, punteros, obra)
  <2>1. \A g : Queda(fcb', obra', g) = Queda(fcb, obra, g)
    BY <1>4, <1>8 DEF Queda
  <2>2. \A x : x \in Reservados(fcb', punteros', obra') <=>
                   x \in Reservados(fcb, punteros, obra)
    <3>1. fcb' = fcb /\ punteros' = punteros
      BY <1>4
    <3> QED
      BY <2>1, <3>1, EnReservados
  <2> QED
    BY <2>2
<1>15. h \notin Reservados(fcb, punteros, obra)
  <2> SUFFICES ASSUME NEW g \in DOMAIN fcb, NEW i \in Queda(fcb, obra, g),
                      h = BloqueDe(punteros, fcb[g], i)
               PROVE  FALSE
    BY EnReservados
  <2>1. i \in Suyos(fcb[g]) /\ (g = obra.archivo => i \in Lugares(m))
    BY <1>3, <1>4 DEF Queda
  <2>3. /\ i0 \in Suyos(fcb[obra.archivo])
        /\ BloqueDe(punteros, fcb[g], i) =
               BloqueDe(punteros, fcb[obra.archivo], i0)
    BY <1>2, <1>10
  <2>2. g = obra.archivo /\ i = i0
    BY <1>4, <2>1, <2>3 DEF Inv, Unicos
  <2> QED
    BY <1>10, <2>1, <2>2
<1>16. h \notin Range(obra.tomados)
  BY <1>2, <1>4, <1>10 DEF Inv, Toma, Range
<1>17. DeLaObra(obra) = DeLaObra(obra') \cup {h} /\ h \notin DeLaObra(obra')
  BY <1>1, <1>4, <1>8, <1>11, <1>16 DEF DeLaObra
<1>18. Marcados'
  BY <1>4, <1>6, <1>14, <1>15, <1>17 DEF Inv, Marcados
<1>19. Toma'
  BY <1>4, <1>8 DEF Inv, Toma
<1>20. Libera'
  <2>1. \A j, k \in DOMAIN r : r[j] = r[k] => j = k
    BY <1>7, <1>9
  <2>2. \A j \in DOMAIN r : \E i \in Suyos(c) \ Lugares(m) :
            r[j] = BloqueDe(punteros, c, i)
    BY <1>7, <1>9
  <2> QED
    <3>1. /\ fcb'[obra'.archivo] = c /\ punteros' = punteros
          /\ Bloques(obra'.tamanio) = m /\ obra'.porLiberar = r
      BY <1>2, <1>3, <1>4, <1>8
    <3> QED
      BY <2>1, <2>2, <3>1 DEF Libera
<1>21. Escribe'
  BY <1>1, <1>4, <1>8 DEF Inv, Escribe
<1> QED
  BY <1>12, <1>13, <1>18, <1>19, <1>20, <1>21 DEF Inv

\* The bit that is set was clear: nobody had that block.
LEMMA InvTomar ==
    ASSUME Inv, TomarBloque
    PROVE  Inv'
<1>1. PICK s : s = obra.tomados
  OBVIOUS
<1>2. PICK c : c = fcb[obra.archivo]
  OBVIOUS
<1>3. PICK m : m = Bloques(obra.tamanio)
  OBVIOUS
<1>4. PICK b : b = BuscarBloqueLibre
  OBVIOUS
<1>5. PICK n : n = Bloques(c.tamanio)
  OBVIOUS
<1>6. /\ obra # Ninguna /\ s \in Seq(Nat)
      /\ obra \in Obra /\ obra.archivo \in DOMAIN fcb /\ sano
      /\ Len(s) < CuantosToma(c, obra.tamanio)
      /\ bitmap' = bitmap \cup {b}
      /\ obra' = [obra EXCEPT !.tomados = Append(s, b)]
      /\ UNCHANGED <<fcb, punteros, caidas, sano>>
  <2>1. obra # Ninguna
    BY DEF TomarBloque
  <2> QED
    BY <1>1, <1>2, <1>4, <2>1, DeObra DEF Inv, Tipos, TomarBloque, FaltanBloques
<1>7. b \in Nat /\ b \notin bitmap
  BY <1>4, BuscaLibre DEF Inv, Tipos
<1>8. PICK r : r = Append(s, b)
  OBVIOUS
<1>9. /\ r \in Seq(Nat) /\ Len(r) = Len(s) + 1 /\ Len(s) + 1 \in DOMAIN r
      /\ Len(s) \in Nat /\ DOMAIN s = 1..Len(s)
      /\ \A k \in DOMAIN s : k \in DOMAIN r /\ r[k] = s[k]
      /\ r[Len(s) + 1] = b
      /\ \A k \in DOMAIN r : k \in DOMAIN s \/ k = Len(s) + 1
  BY <1>6, <1>7, <1>8
<1>10. /\ obra' \in Obra /\ obra' # Ninguna
       /\ obra'.archivo = obra.archivo /\ obra'.tamanio = obra.tamanio
       /\ obra'.tomados = r /\ obra'.escrito = obra.escrito
       /\ obra'.porLiberar = obra.porLiberar
  <2>1. /\ obra' \in Obra
        /\ obra'.archivo = obra.archivo /\ obra'.tamanio = obra.tamanio
        /\ obra'.tomados = r /\ obra'.escrito = obra.escrito
        /\ obra'.porLiberar = obra.porLiberar
    BY <1>6, <1>8, <1>9 DEF Obra
  <2> QED
    BY <2>1, NingunaAssumption
<1>11. n \in Nat /\ m \in Nat \ {0}
  BY <1>2, <1>3, <1>5, <1>6, DeFcb, DeObra, SuperbloqueAssumption DEF Inv
<1>12. n < m
  <2>1. CuantosToma(c, obra.tamanio) =
            IF m <= n THEN 0 ELSE m - n + IF n <= 1 /\ m > 1 THEN 1 ELSE 0
    <3>1. PICK t : t = obra.tamanio
      OBVIOUS
    <3>2. m = Bloques(t)
      BY <1>3, <3>1
    <3>3. CuantosToma(c, t) =
              IF m <= n THEN 0 ELSE m - n + IF n <= 1 /\ m > 1 THEN 1 ELSE 0
      BY <1>5, <1>11, <3>2, Cuantos
    <3> QED
      BY <3>1, <3>3
  <2>2. ~ (m <= n)
    BY <1>6, <1>9, <2>1
  <2> QED
    BY <1>11, <2>2
\* The file grows: no place of it is given up.
<1>13. \A g \in DOMAIN fcb : Queda(fcb, obra, g) = Suyos(fcb[g])
  <2>1. Lugares(n) \subseteq Lugares(m)
    BY <1>11, <1>12, LugaresCrecen
  <2> QED
    BY <1>2, <1>3, <1>5, <2>1 DEF Queda, Suyos
<1>14. \A g \in DOMAIN fcb : \A i \in Suyos(fcb[g]) :
          b # BloqueDe(punteros, fcb[g], i)
  <2> SUFFICES ASSUME NEW g \in DOMAIN fcb, NEW i \in Suyos(fcb[g])
               PROVE  b # BloqueDe(punteros, fcb[g], i)
    OBVIOUS
  <2>1. BloqueDe(punteros, fcb[g], i) \in Reservados(fcb, punteros, obra)
    BY <1>13, EnReservados
  <2> QED
    BY <1>6, <1>7, <2>1 DEF Inv, Marcados
<1>15. \A j \in DOMAIN s : s[j] # b
  <2>1. Range(s) \subseteq bitmap
    BY <1>1, <1>6 DEF Inv, Marcados, DeLaObra
  <2> QED
    BY <1>7, <2>1 DEF Range
<1>16. Tipos'
  <2>1. IsFiniteSet(bitmap')
    BY <1>6, FS_AddElement DEF Inv, Tipos
  <2> QED
    BY <1>6, <1>7, <1>10, <2>1 DEF Inv, Tipos
<1>17. Unicos'
  BY <1>6 DEF Inv, Unicos
<1>18. Reservados(fcb', punteros', obra') = Reservados(fcb, punteros, obra)
  <2>1. \A g : Queda(fcb', obra', g) = Queda(fcb, obra, g)
    BY <1>6, <1>10 DEF Queda
  <2>2. \A x : x \in Reservados(fcb', punteros', obra') <=>
                   x \in Reservados(fcb, punteros, obra)
    BY <1>6, <2>1, EnReservados
  <2> QED
    BY <2>2
<1>19. DeLaObra(obra') = DeLaObra(obra) \cup {b}
  <2>1. Range(r) = Range(s) \cup {b}
    <3>1. \A x : x \in Range(r) <=> x \in Range(s) \/ x = b
      BY <1>9 DEF Range
    <3> QED
      BY <3>1
  <2> QED
    BY <1>1, <1>6, <1>10, <2>1 DEF DeLaObra
<1>20. Marcados'
  BY <1>6, <1>18, <1>19 DEF Inv, Marcados
<1>21. Toma'
  <2>1. \A j, k \in DOMAIN s : s[j] = s[k] => j = k
    BY <1>1, <1>6 DEF Inv, Toma
  <2>2. \A j, k \in DOMAIN r : r[j] = r[k] => j = k
    BY <1>9, <1>15, <2>1
  <2>3. \A j \in DOMAIN s : \A g \in DOMAIN fcb : \A i \in Suyos(fcb[g]) :
            s[j] # BloqueDe(punteros, fcb[g], i)
    BY <1>1, <1>6 DEF Inv, Toma
  <2>4. \A j \in DOMAIN r : \A g \in DOMAIN fcb : \A i \in Suyos(fcb[g]) :
            r[j] # BloqueDe(punteros, fcb[g], i)
    BY <1>9, <1>14, <2>3
  <2>5. Len(r) <= CuantosToma(c, obra.tamanio)
    <3>1. CuantosToma(c, obra.tamanio) \in Int
      <4>1. PICK t : t = obra.tamanio
        OBVIOUS
      <4>2. m = Bloques(t)
        BY <1>3, <4>1
      <4>3. CuantosToma(c, t) =
                IF m <= n THEN 0 ELSE m - n + IF n <= 1 /\ m > 1 THEN 1 ELSE 0
        BY <1>5, <1>11, <4>2, Cuantos
      <4>4. CuantosToma(c, t) \in Int
        BY <1>11, <4>3
      <4> QED
        BY <4>1, <4>4
    <3> QED
      BY <1>6, <1>9, <3>1
  <2> QED
    BY <1>2, <1>6, <1>10, <2>2, <2>4, <2>5 DEF Toma
<1>22. Libera'
  BY <1>6, <1>10 DEF Inv, Libera
<1>23. Escribe'
  <2>1. ~ obra.escrito
    <3>1. obra.escrito => Len(s) = CuantosToma(c, obra.tamanio)
      BY <1>1, <1>2, <1>6 DEF Inv, Escribe
    <3> QED
      BY <1>6, <1>9, <3>1
  <2> QED
    BY <1>10, <2>1 DEF Escribe
<1> QED
  BY <1>16, <1>17, <1>20, <1>21, <1>22, <1>23 DEF Inv

\* The pointers are written: nobody's blocks move.
LEMMA InvEscribir ==
    ASSUME Inv, EscribirPunteros
    PROVE  /\ Inv'
           /\ UNCHANGED fcb
           /\ \A f \in DOMAIN fcb : \A i \in Suyos(fcb[f]) :
                 BloqueDe(punteros', fcb[f], i) = BloqueDe(punteros, fcb[f], i)
<1>1. PICK c : c = fcb[obra.archivo]
  OBVIOUS
<1>2. PICK n : n = Bloques(c.tamanio)
  OBVIOUS
<1>3. PICK m : m = Bloques(obra.tamanio)
  OBVIOUS
<1>4. PICK N : N = PunterosNuevos(c, obra)
  OBVIOUS
<1>5. PICK v : v = Truncado(c, obra)
  OBVIOUS
<1>6. /\ obra # Ninguna /\ obra \in Obra /\ obra.archivo \in DOMAIN fcb /\ sano
      /\ obra.tomados \in Seq(Nat) /\ obra.porLiberar = <<>>
      /\ ~ (Len(obra.tomados) < CuantosToma(c, obra.tamanio))
      /\ Len(obra.tomados) <= CuantosToma(c, obra.tamanio)
      /\ punteros' = ConNuevos(punteros, N)
      /\ obra' = [obra EXCEPT !.escrito = TRUE]
      /\ UNCHANGED <<fcb, bitmap, caidas, sano>>
  <2>1. obra # Ninguna
    BY DEF EscribirPunteros
  <2>2. punteros' = ConNuevos(punteros, N)
    BY <1>1, <1>4 DEF EscribirPunteros, ConNuevos
  <2>3. Len(obra.tomados) <= CuantosToma(c, obra.tamanio)
    BY <1>1, <2>1 DEF Inv, Toma
  <2> QED
    BY <1>1, <2>1, <2>2, <2>3, DeObra DEF Inv, Tipos, EscribirPunteros,
       FaltanBloques
<1>7. n \in Nat /\ m \in Nat \ {0}
  BY <1>1, <1>2, <1>3, <1>6, DeFcb, DeObra, SuperbloqueAssumption DEF Inv
<1>8. Len(obra.tomados) = CuantosToma(c, obra.tamanio)
  <2>1. PICK t : t = obra.tamanio
    OBVIOUS
  <2>2. m = Bloques(t)
    BY <1>3, <2>1
  <2>3. CuantosToma(c, t) =
            IF m <= n THEN 0 ELSE m - n + IF n <= 1 /\ m > 1 THEN 1 ELSE 0
    BY <1>2, <1>7, <2>2, Cuantos
  <2>4. CuantosToma(c, t) \in Int /\ Len(obra.tomados) \in Int
    BY <1>6, <1>7, <2>3
  <2> QED
    BY <1>6, <2>1, <2>4
<1>9. PICK Q : Q = punteros'
  OBVIOUS
<1>10. /\ \A f \in DOMAIN fcb : \A i \in Suyos(fcb[f]) :
             BloqueDe(Q, fcb[f], i) = BloqueDe(punteros, fcb[f], i)
       /\ \A i \in Lugares(m) :
             BloqueDe(Q, v, i) =
                 IF i \in Lugares(n) THEN BloqueDe(punteros, c, i)
                 ELSE obra.tomados[Tomado(n, i)]
       /\ \A w \in DOMAIN Q : w \in Nat /\ Q[w] \in Nat
  <2>1. Tipos /\ Unicos /\ Toma
    BY DEF Inv
  <2>2. Q = ConNuevos(punteros, N)
    BY <1>6, <1>9
  <2>3. \A f \in DOMAIN fcb : \A i \in Suyos(fcb[f]) :
           BloqueDe(Q, fcb[f], i) = BloqueDe(punteros, fcb[f], i)
    BY <1>1, <1>2, <1>3, <1>4, <1>5, <1>6, <1>8, <2>1, <2>2, EscribirHace
  <2>4. \A i \in Lugares(m) :
           BloqueDe(Q, v, i) =
               IF i \in Lugares(n) THEN BloqueDe(punteros, c, i)
               ELSE obra.tomados[Tomado(n, i)]
    BY <1>1, <1>2, <1>3, <1>4, <1>5, <1>6, <1>8, <2>1, <2>2, EscribirHace
  <2>5. \A w \in DOMAIN Q : w \in Nat /\ Q[w] \in Nat
    BY <1>1, <1>2, <1>3, <1>4, <1>5, <1>6, <1>8, <2>1, <2>2, EscribirHace
  <2> QED
    BY <2>3, <2>4, <2>5
<1>11. /\ obra' \in Obra /\ obra' # Ninguna
       /\ obra'.archivo = obra.archivo /\ obra'.tamanio = obra.tamanio
       /\ obra'.tomados = obra.tomados /\ obra'.porLiberar = <<>>
  <2>1. /\ obra' \in Obra
        /\ obra'.archivo = obra.archivo /\ obra'.tamanio = obra.tamanio
        /\ obra'.tomados = obra.tomados /\ obra'.porLiberar = <<>>
    BY <1>6 DEF Obra
  <2> QED
    BY <2>1, NingunaAssumption
<1>12. Tipos'
  BY <1>6, <1>9, <1>10, <1>11 DEF Inv, Tipos
<1>13. Unicos'
  BY <1>6, <1>9, <1>10 DEF Inv, Unicos
<1>14. Reservados(fcb', punteros', obra') = Reservados(fcb, punteros, obra)
  <2>1. fcb' = fcb /\ punteros' = Q
    BY <1>6, <1>9
  <2>2. \A g : Queda(fcb, obra', g) = Queda(fcb, obra, g)
    BY <1>6, <1>11 DEF Queda
  <2>3. \A g \in DOMAIN fcb : Queda(fcb, obra, g) \subseteq Suyos(fcb[g])
    BY DEF Queda
  <2>4. \A x : x \in Reservados(fcb, Q, obra') <=>
                   \E g \in DOMAIN fcb : \E i \in Queda(fcb, obra', g) :
                       x = BloqueDe(Q, fcb[g], i)
    BY EnReservados
  <2>5. \A x : x \in Reservados(fcb, punteros, obra) <=>
                   \E g \in DOMAIN fcb : \E i \in Queda(fcb, obra, g) :
                       x = BloqueDe(punteros, fcb[g], i)
    BY EnReservados
  <2>6. \A x : x \in Reservados(fcb, Q, obra') <=>
                   x \in Reservados(fcb, punteros, obra)
    BY <1>10, <2>2, <2>3, <2>4, <2>5
  <2>7. Reservados(fcb, Q, obra') = Reservados(fcb, punteros, obra)
    BY <2>6
  <2> QED
    BY <2>1, <2>7
<1>15. DeLaObra(obra') = DeLaObra(obra)
  BY <1>6, <1>11 DEF DeLaObra
<1>16. Marcados'
  BY <1>6, <1>14, <1>15 DEF Inv, Marcados
<1>17. Toma'
  BY <1>6, <1>9, <1>10, <1>11 DEF Inv, Toma
<1>18. Libera'
  BY <1>11 DEF Libera
<1>19. Escribe'
  <2>1. Truncado(c, obra') = v
    BY <1>5, <1>11 DEF Truncado
  <2>2. \A i \in Lugares(m) \cap Lugares(n) : i \in Suyos(c)
    BY <1>2 DEF Suyos
  <2>3. \A i \in Lugares(m) :
           BloqueDe(Q, v, i) =
               IF i \in Lugares(n) THEN BloqueDe(Q, c, i)
               ELSE obra.tomados[Tomado(n, i)]
    BY <1>1, <1>6, <1>10, <2>2
  <2>4. /\ fcb'[obra'.archivo] = c /\ punteros' = Q
        /\ obra'.tomados = obra.tomados /\ obra'.porLiberar = <<>>
        /\ obra'.tamanio = obra.tamanio
    BY <1>1, <1>6, <1>9, <1>11
  <2> QED
    BY <1>2, <1>3, <1>8, <2>1, <2>3, <2>4 DEF Escribe
<1>20. /\ UNCHANGED fcb
       /\ \A f \in DOMAIN fcb : \A i \in Suyos(fcb[f]) :
             BloqueDe(punteros', fcb[f], i) = BloqueDe(punteros, fcb[f], i)
  BY <1>6, <1>9, <1>10
<1> QED
  BY <1>12, <1>13, <1>16, <1>17, <1>18, <1>19, <1>20 DEF Inv

\* Forgetting the words that are no longer pointers leaves those that are.
LEMMA SeConservan ==
    ASSUME NEW F, NEW P, NEW Q, Q = Restrict(P, Entradas(F) \cap DOMAIN P),
           NEW g \in DOMAIN F, Bloques(F[g].tamanio) \in Nat,
           NEW i \in Suyos(F[g])
    PROVE  BloqueDe(Q, F[g], i) = BloqueDe(P, F[g], i)
<1>1. PICK n \in Nat : n = Bloques(F[g].tamanio)
  OBVIOUS
<1>2. i \in Nat /\ i <= n
  BY <1>1, LugaresDe DEF Suyos
<1>3. CASE i > 1
  <2>1. i - 2 \in 0..Bloques(F[g].tamanio) - 2
    BY <1>1, <1>2, <1>3
  <2>2. Palabra(F[g].indirecto, i - 2) \in Entradas(F)
    BY <2>1 DEF Entradas
  <2> QED
    BY <2>2 DEF BloqueDe, PunteroDe, Restrict
<1>4. CASE ~ (i > 1)
  <2>1. i = 0 \/ i = 1
    BY <1>2, <1>4
  <2> QED
    BY <2>1 DEF BloqueDe
<1> QED
  BY <1>3, <1>4

\* What saving the FCB leaves, place by place: the file has the places of the
\* new size, with the blocks it had or those taken for them, each of those
\* taken in one place; no other file's blocks move.
LEMMA GuardarHace ==
    ASSUME Inv, GuardarFcb,
           NEW a, a = obra.archivo, NEW c, c = fcb[a],
           NEW F, F = fcb', NEW Q, Q = punteros',
           NEW s, s = obra.tomados,
           NEW n, n = Bloques(c.tamanio), NEW m, m = Bloques(obra.tamanio)
    PROVE  /\ obra # Ninguna /\ sano /\ obra' = Ninguna
           /\ UNCHANGED <<bitmap, caidas, sano>>
           /\ obra.porLiberar = <<>> /\ s \in Seq(Nat)
           /\ a \in DOMAIN fcb /\ DOMAIN F = DOMAIN fcb
           /\ n \in Nat /\ m \in Nat \ {0}
           /\ F[a] \in Fcb /\ F[a].tamanio \in Tamanios
           /\ Suyos(F[a]) = Lugares(m)
           /\ \A w \in DOMAIN Q : w \in Nat /\ Q[w] \in Nat
           /\ \A g \in DOMAIN fcb \ {a} :
                 /\ F[g] = fcb[g]
                 /\ \A i \in Suyos(fcb[g]) :
                       BloqueDe(Q, F[g], i) = BloqueDe(punteros, fcb[g], i)
           /\ \A i \in Lugares(m) :
                 BloqueDe(Q, F[a], i) =
                     IF i \in Lugares(n) THEN BloqueDe(punteros, c, i)
                     ELSE s[Tomado(n, i)]
           /\ \A i \in Lugares(m) \ Lugares(n) : Tomado(n, i) \in DOMAIN s
           /\ \A i, j \in Lugares(m) \ Lugares(n) :
                 Tomado(n, i) = Tomado(n, j) => i = j
           /\ \A k \in DOMAIN s : \E i \in Lugares(m) \ Lugares(n) :
                 Tomado(n, i) = k
<1>1. /\ obra # Ninguna /\ obra.escrito /\ obra' = Ninguna
      /\ UNCHANGED <<bitmap, caidas, sano>>
      /\ F = [fcb EXCEPT ![a] = Truncado(c, obra)]
      /\ Q = Restrict(punteros, Entradas(F) \cap DOMAIN punteros)
  BY DEF GuardarFcb
<1>2. PICK v : v = Truncado(c, obra)
  OBVIOUS
<1>3. /\ a \in DOMAIN fcb /\ sano /\ obra.tamanio \in Tamanios
      /\ s \in Seq(Nat) /\ DOMAIN s = 1..Len(s)
  BY <1>1, DeObra DEF Inv
<1>4. /\ obra.porLiberar = <<>>
      /\ Len(s) = CuantosToma(c, obra.tamanio)
      /\ \A i \in Lugares(m) :
            BloqueDe(punteros, v, i) =
                IF i \in Lugares(n) THEN BloqueDe(punteros, c, i)
                ELSE s[Tomado(n, i)]
  BY <1>1, <1>2 DEF Inv, Escribe
<1>5. /\ n \in 0..(PUNTEROS + 1) /\ m \in 1..(PUNTEROS + 1)
      /\ m > n => Len(s) = m - n + IF n <= 1 /\ m > 1 THEN 1 ELSE 0
      /\ m <= n => s = <<>>
      /\ \A i \in Lugares(m) \ Lugares(n) : Tomado(n, i) \in DOMAIN s
      /\ v \in Fcb /\ v.tamanio = obra.tamanio
  <2>1. Tipos /\ Len(obra.tomados) = CuantosToma(c, obra.tamanio)
    BY <1>4 DEF Inv
  <2> QED
    BY <1>1, <1>2, <2>1, TruncadoHace
<1>6. n \in Nat /\ m \in Nat \ {0}
  BY <1>5, SuperbloqueAssumption
<1>7. /\ DOMAIN F = DOMAIN fcb /\ F[a] = v
      /\ \A g \in DOMAIN fcb \ {a} : F[g] = fcb[g]
  BY <1>1, <1>2, <1>3
<1>8. Suyos(F[a]) = Lugares(m)
  BY <1>5, <1>7 DEF Suyos
<1>9. \A w \in DOMAIN Q : w \in Nat /\ Q[w] \in Nat
  <2>1. \A w \in DOMAIN punteros : w \in Nat /\ punteros[w] \in Nat
    BY DEF Inv, Tipos
  <2> QED
    BY <1>1, <2>1 DEF Restrict
<1>10. ASSUME NEW g \in DOMAIN F, NEW i \in Suyos(F[g])
       PROVE  BloqueDe(Q, F[g], i) = BloqueDe(punteros, F[g], i)
  <2>1. Bloques(F[g].tamanio) \in Nat
    <3>1. CASE g = a
      BY <1>5, <1>6, <1>7, <3>1
    <3>2. CASE g # a
      <4>1. Bloques(fcb[g].tamanio) \in 0..(PUNTEROS + 1)
        BY <1>7, DeFcb DEF Inv
      <4> QED
        BY <1>7, <3>2, <4>1, SuperbloqueAssumption
    <3> QED
      BY <3>1, <3>2
  <2>2. Q = Restrict(punteros, Entradas(F) \cap DOMAIN punteros)
    BY <1>1
  <2> QED
    BY <2>1, <2>2, SeConservan
<1>11. \A g \in DOMAIN fcb \ {a} :
          /\ F[g] = fcb[g]
          /\ \A i \in Suyos(fcb[g]) :
                BloqueDe(Q, F[g], i) = BloqueDe(punteros, fcb[g], i)
  BY <1>7, <1>10
<1>12. \A i \in Lugares(m) :
          BloqueDe(Q, F[a], i) =
              IF i \in Lugares(n) THEN BloqueDe(punteros, c, i)
              ELSE s[Tomado(n, i)]
  BY <1>3, <1>4, <1>7, <1>8, <1>10
<1>13. /\ \A i, j \in Lugares(m) \ Lugares(n) :
             Tomado(n, i) = Tomado(n, j) => i = j
       /\ \A k \in DOMAIN s : \E i \in Lugares(m) \ Lugares(n) :
             Tomado(n, i) = k
  <2>1. CASE m > n
    <3>1. PICK z : z = Len(s)
      OBVIOUS
    <3>2. n < m /\ z = m - n + IF n <= 1 /\ m > 1 THEN 1 ELSE 0
      BY <1>5, <1>6, <2>1, <3>1
    <3>3. /\ \A i, j \in Lugares(m) \ Lugares(n) :
                Tomado(n, i) = Tomado(n, j) => i = j
          /\ \A k \in 1..z : \E i \in Lugares(m) \ Lugares(n) :
                Tomado(n, i) = k
      BY <1>6, <3>2, TomadoUnico
    <3> QED
      BY <1>3, <3>1, <3>3
  <2>2. CASE ~ (m > n)
    <3>1. s = <<>> /\ Lugares(m) \subseteq Lugares(n)
      <4>1. n > 0 /\ m <= n
        BY <1>6, <2>2
      <4> QED
        BY <1>5, <1>6, <4>1, LugaresCrecen
    <3> QED
      BY <3>1
  <2> QED
    BY <2>1, <2>2
<1>14. F[a] \in Fcb /\ F[a].tamanio \in Tamanios
  BY <1>3, <1>5, <1>7
<1> QED
  BY <1>1, <1>3, <1>4, <1>5, <1>6, <1>7, <1>8, <1>9, <1>11, <1>12, <1>13, <1>14

\* The FCB is saved: its new places have blocks that were nobody's, and the
\* bits that are set are those of places of some file again.
LEMMA InvGuardar ==
    ASSUME Inv, GuardarFcb
    PROVE  /\ Inv'
           /\ \A f \in DOMAIN fcb : \A i \in Suyos(fcb[f]) \cap Suyos(fcb'[f]) :
                 BloqueDe(punteros', fcb'[f], i) = BloqueDe(punteros, fcb[f], i)
<1>1. PICK a : a = obra.archivo
  OBVIOUS
<1>2. PICK c : c = fcb[a]
  OBVIOUS
<1>3. PICK F : F = fcb'
  OBVIOUS
<1>4. PICK Q : Q = punteros'
  OBVIOUS
<1>5. PICK s : s = obra.tomados
  OBVIOUS
<1>6. PICK n : n = Bloques(c.tamanio)
  OBVIOUS
<1>7. PICK m : m = Bloques(obra.tamanio)
  OBVIOUS
<1>8. /\ obra # Ninguna /\ sano /\ obra' = Ninguna
      /\ UNCHANGED <<bitmap, caidas, sano>>
      /\ obra.porLiberar = <<>> /\ s \in Seq(Nat)
      /\ a \in DOMAIN fcb /\ DOMAIN F = DOMAIN fcb
      /\ n \in Nat /\ m \in Nat \ {0}
      /\ F[a] \in Fcb /\ F[a].tamanio \in Tamanios
      /\ Suyos(F[a]) = Lugares(m) /\ Suyos(fcb[a]) = Lugares(n)
  <2>1. Suyos(fcb[a]) = Lugares(n)
    BY <1>2, <1>6 DEF Suyos
  <2> QED
    BY <1>1, <1>2, <1>3, <1>4, <1>5, <1>6, <1>7, <2>1, GuardarHace
<1>9. /\ \A w \in DOMAIN Q : w \in Nat /\ Q[w] \in Nat
      /\ \A g \in DOMAIN fcb \ {a} :
            /\ F[g] = fcb[g]
            /\ \A i \in Suyos(fcb[g]) :
                  BloqueDe(Q, F[g], i) = BloqueDe(punteros, fcb[g], i)
      /\ \A i \in Lugares(m) :
            BloqueDe(Q, F[a], i) =
                IF i \in Lugares(n) THEN BloqueDe(punteros, fcb[a], i)
                ELSE s[Tomado(n, i)]
  <2>1. \A i \in Lugares(m) :
            BloqueDe(Q, F[a], i) =
                IF i \in Lugares(n) THEN BloqueDe(punteros, c, i)
                ELSE s[Tomado(n, i)]
    BY <1>1, <1>2, <1>3, <1>4, <1>5, <1>6, <1>7, GuardarHace
  <2> QED
    BY <1>1, <1>2, <1>3, <1>4, <1>5, <1>6, <1>7, <2>1, GuardarHace
<1>10. PICK nuevos : nuevos = Lugares(m) \ Lugares(n)
  OBVIOUS
<1>11. /\ \A i \in nuevos : Tomado(n, i) \in DOMAIN s
       /\ \A i, j \in nuevos : Tomado(n, i) = Tomado(n, j) => i = j
       /\ \A k \in DOMAIN s : \E i \in nuevos : Tomado(n, i) = k
  BY <1>1, <1>2, <1>3, <1>4, <1>5, <1>6, <1>7, <1>10, GuardarHace
\* A place is one that its file had, or has one of the blocks taken.
<1>12. \A g \in DOMAIN fcb : \A i \in Suyos(F[g]) :
          \/ /\ i \in Suyos(fcb[g])
             /\ BloqueDe(Q, F[g], i) = BloqueDe(punteros, fcb[g], i)
          \/ /\ g = a /\ i \in nuevos
             /\ BloqueDe(Q, F[g], i) = s[Tomado(n, i)]
  <2> SUFFICES ASSUME NEW g \in DOMAIN fcb, NEW i \in Suyos(F[g])
               PROVE  \/ /\ i \in Suyos(fcb[g])
                         /\ BloqueDe(Q, F[g], i) = BloqueDe(punteros, fcb[g], i)
                      \/ /\ g = a /\ i \in nuevos
                         /\ BloqueDe(Q, F[g], i) = s[Tomado(n, i)]
    OBVIOUS
  <2>1. CASE g = a
    BY <1>8, <1>9, <1>10, <2>1
  <2>2. CASE g # a
    BY <1>9, <2>2
  <2> QED
    BY <2>1, <2>2
<1>13. /\ \A j, k \in DOMAIN s : s[j] = s[k] => j = k
       /\ \A j \in DOMAIN s : \A f \in DOMAIN fcb : \A i \in Suyos(fcb[f]) :
             s[j] # BloqueDe(punteros, fcb[f], i)
  BY <1>5, <1>8 DEF Inv, Toma
<1>14. Tipos'
  <2>1. /\ DOMAIN fcb \subseteq Archivos
        /\ \A f \in DOMAIN fcb : fcb[f] \in Fcb
                                 /\ fcb[f].tamanio \in Tamanios \cup {0}
    BY DEF Inv, Tipos
  <2>2. /\ DOMAIN F \subseteq Archivos
        /\ \A f \in DOMAIN F : F[f] \in Fcb /\ F[f].tamanio \in Tamanios \cup {0}
    BY <1>8, <1>9, <2>1
  <2> QED
    BY <1>3, <1>4, <1>8, <1>9, <2>2 DEF Inv, Tipos
<1>15. Unicos'
  <2>1. ASSUME NEW f \in DOMAIN fcb, NEW g \in DOMAIN fcb,
               NEW i \in Suyos(F[f]), NEW j \in Suyos(F[g]),
               BloqueDe(Q, F[f], i) = BloqueDe(Q, F[g], j)
        PROVE  f = g /\ i = j
    <3>1. CASE i \in Suyos(fcb[f]) /\ j \in Suyos(fcb[g])
               /\ BloqueDe(Q, F[f], i) = BloqueDe(punteros, fcb[f], i)
               /\ BloqueDe(Q, F[g], j) = BloqueDe(punteros, fcb[g], j)
      <4>1. BloqueDe(punteros, fcb[f], i) = BloqueDe(punteros, fcb[g], j)
        BY <2>1, <3>1
      <4> QED
        BY <1>8, <3>1, <4>1 DEF Inv, Unicos
    <3>2. CASE i \in Suyos(fcb[f])
               /\ BloqueDe(Q, F[f], i) = BloqueDe(punteros, fcb[f], i)
               /\ j \in nuevos /\ BloqueDe(Q, F[g], j) = s[Tomado(n, j)]
      BY <1>11, <1>13, <2>1, <3>2
    <3>3. CASE j \in Suyos(fcb[g])
               /\ BloqueDe(Q, F[g], j) = BloqueDe(punteros, fcb[g], j)
               /\ i \in nuevos /\ BloqueDe(Q, F[f], i) = s[Tomado(n, i)]
      BY <1>11, <1>13, <2>1, <3>3
    <3>4. CASE f = a /\ g = a /\ i \in nuevos /\ j \in nuevos
               /\ BloqueDe(Q, F[f], i) = s[Tomado(n, i)]
               /\ BloqueDe(Q, F[g], j) = s[Tomado(n, j)]
      BY <1>11, <1>13, <2>1, <3>4
    <3> QED
      BY <1>12, <3>1, <3>2, <3>3, <3>4
  <2> QED
    BY <1>3, <1>4, <1>8, <2>1 DEF Unicos
<1>16. /\ \A g : Queda(F, Ninguna, g) = Suyos(F[g])
       /\ \A g \in DOMAIN fcb \ {a} : Queda(fcb, obra, g) = Suyos(fcb[g])
       /\ Queda(fcb, obra, a) = Lugares(n) \cap Lugares(m)
  BY <1>1, <1>7, <1>8 DEF Queda
<1>17. Reservados(F, Q, Ninguna) \subseteq
           Reservados(fcb, punteros, obra) \cup Range(s)
  <2> SUFFICES ASSUME NEW g \in DOMAIN fcb, NEW i \in Suyos(F[g])
               PROVE  BloqueDe(Q, F[g], i) \in
                          Reservados(fcb, punteros, obra) \cup Range(s)
    <3>1. \A x \in Reservados(F, Q, Ninguna) :
              \E g \in DOMAIN fcb : \E i \in Suyos(F[g]) :
                  x = BloqueDe(Q, F[g], i)
      <4>1. \A x : x \in Reservados(F, Q, Ninguna) <=>
               \E g \in DOMAIN F : \E i \in Queda(F, Ninguna, g) :
                   x = BloqueDe(Q, F[g], i)
        BY EnReservados
      <4> QED
        BY <1>8, <1>16, <4>1
    <3> QED
      BY <3>1
  <2>1. CASE /\ i \in Suyos(fcb[g])
             /\ BloqueDe(Q, F[g], i) = BloqueDe(punteros, fcb[g], i)
    <3>1. i \in Queda(fcb, obra, g)
      BY <1>8, <1>16, <2>1
    <3>2. BloqueDe(punteros, fcb[g], i) \in Reservados(fcb, punteros, obra)
      BY <3>1, EnReservados
    <3> QED
      BY <2>1, <3>2
  <2>2. CASE i \in nuevos /\ BloqueDe(Q, F[g], i) = s[Tomado(n, i)]
    BY <1>11, <2>2 DEF Range
  <2> QED
    BY <1>12, <2>1, <2>2
<1>18. Reservados(fcb, punteros, obra) \subseteq Reservados(F, Q, Ninguna)
  <2> SUFFICES ASSUME NEW g \in DOMAIN fcb, NEW i \in Queda(fcb, obra, g)
               PROVE  BloqueDe(punteros, fcb[g], i) \in Reservados(F, Q, Ninguna)
    <3>1. \A x \in Reservados(fcb, punteros, obra) :
              \E g \in DOMAIN fcb : \E i \in Queda(fcb, obra, g) :
                  x = BloqueDe(punteros, fcb[g], i)
      BY EnReservados
    <3> QED
      BY <3>1
  <2>1. i \in Suyos(F[g])
        /\ BloqueDe(Q, F[g], i) = BloqueDe(punteros, fcb[g], i)
    <3>1. CASE g = a
      BY <1>8, <1>9, <1>16, <3>1
    <3>2. CASE g # a
      BY <1>9, <1>16, <3>2
    <3> QED
      BY <3>1, <3>2
  <2>2. BloqueDe(Q, F[g], i) \in Reservados(F, Q, Ninguna)
    BY <1>8, <1>16, <2>1, EnReservados
  <2> QED
    BY <2>1, <2>2
<1>19. Range(s) \subseteq Reservados(F, Q, Ninguna)
  <2> SUFFICES ASSUME NEW k \in DOMAIN s
               PROVE  s[k] \in Reservados(F, Q, Ninguna)
    BY DEF Range
  <2>1. PICK i \in nuevos : Tomado(n, i) = k
    BY <1>11
  <2>2. i \in Suyos(F[a]) /\ BloqueDe(Q, F[a], i) = s[k]
    BY <1>8, <1>9, <1>10, <2>1
  <2>3. BloqueDe(Q, F[a], i) \in Reservados(F, Q, Ninguna)
    BY <1>8, <1>16, <2>2, EnReservados
  <2> QED
    BY <2>2, <2>3
<1>20. Marcados'
  <2>1. DeLaObra(obra) = Range(s)
    BY <1>5, <1>8 DEF DeLaObra, Range
  <2>2. DeLaObra(obra') = {}
    BY <1>8 DEF DeLaObra
  <2>3. Reservados(fcb', punteros', obra') = Reservados(F, Q, Ninguna)
    BY <1>3, <1>4, <1>8
  <2> QED
    BY <1>8, <1>17, <1>18, <1>19, <2>1, <2>2, <2>3 DEF Inv, Marcados
<1>21. Toma' /\ Libera' /\ Escribe'
  BY <1>8 DEF Toma, Libera, Escribe
<1>22. \A f \in DOMAIN fcb : \A i \in Suyos(fcb[f]) \cap Suyos(fcb'[f]) :
          BloqueDe(punteros', fcb'[f], i) = BloqueDe(punteros, fcb[f], i)
  <2>1. \A f \in DOMAIN fcb : \A i \in Suyos(fcb[f]) \cap Suyos(F[f]) :
            BloqueDe(Q, F[f], i) = BloqueDe(punteros, fcb[f], i)
    BY <1>8, <1>10, <1>12
  <2> QED
    BY <1>3, <1>4, <2>1
<1> QED
  BY <1>14, <1>15, <1>20, <1>21, <1>22 DEF Inv

\* The module falls: with every bit still set, nothing that was reserved on
\* disk is lost; what a truncation took stays set for nobody.
LEMMA InvCaer ==
    ASSUME Inv, Caer
    PROVE  Inv'
<1>1. /\ caidas \in Nat /\ caidas < MAX_CAIDAS /\ caidas' = caidas + 1
      /\ obra' = Ninguna /\ bitmap' \subseteq bitmap
      /\ sano' \in BOOLEAN
      /\ sano' => sano /\ ~ Recortando /\ bitmap' = bitmap
      /\ UNCHANGED <<fcb, punteros>>
  <2>1. caidas \in Nat /\ caidas < MAX_CAIDAS /\ caidas' = caidas + 1
    BY CaidasAssumption DEF Caer, Inv, Tipos
  <2>2. sano' = (sano /\ ~ Recortando /\ bitmap' = bitmap)
    BY DEF Caer
  <2>3. sano \in BOOLEAN
    BY DEF Inv, Tipos
  <2>4. sano' \in BOOLEAN /\ (sano' => sano /\ ~ Recortando /\ bitmap' = bitmap)
    BY <2>2, <2>3, Zenon
  <2>5. /\ obra' = Ninguna /\ bitmap' \subseteq bitmap
        /\ UNCHANGED <<fcb, punteros>>
    BY DEF Caer
  <2> QED
    BY <2>1, <2>4, <2>5
<1>2. Tipos'
  <2>1. IsFiniteSet(bitmap') /\ bitmap' \in SUBSET Nat
    BY <1>1, FS_Subset DEF Inv, Tipos
  <2>2. caidas' \in 0..MAX_CAIDAS /\ caidas' # 0
    BY <1>1, CaidasAssumption
  <2> QED
    BY <1>1, <2>1, <2>2 DEF Inv, Tipos
<1>3. Unicos'
  BY <1>1 DEF Inv, Unicos
<1>4. Marcados'
  <2>1. caidas' # 0
    BY <1>1
  <2>2. DeLaObra(obra') = {}
    BY <1>1 DEF DeLaObra
  <2>3. ASSUME sano'
        PROVE  Reservados(fcb', punteros', obra') \subseteq bitmap'
    <3>1. ASSUME NEW g \in DOMAIN fcb
          PROVE  Queda(fcb, obra, g) = Suyos(fcb[g])
      <4>1. CASE obra # Ninguna /\ obra.archivo = g
        <5>1. PICK n : n = Bloques(fcb[g].tamanio)
          OBVIOUS
        <5>2. PICK m : m = Bloques(obra.tamanio)
          OBVIOUS
        <5>3. n \in Nat /\ m \in Nat \ {0}
          BY <4>1, <5>1, <5>2, DeFcb, DeObra, SuperbloqueAssumption DEF Inv
        <5>4. n <= m
          BY <1>1, <2>3, <4>1, <5>1, <5>2, <5>3 DEF Recortando
        <5>5. Lugares(n) \subseteq Lugares(m)
          BY <5>3, <5>4, LugaresCrecen
        <5> QED
          BY <4>1, <5>1, <5>2, <5>5 DEF Queda, Suyos
      <4>2. CASE ~ (obra # Ninguna /\ obra.archivo = g)
        BY <4>2 DEF Queda
      <4> QED
        BY <4>1, <4>2
    <3>2. \A g : Queda(fcb', obra', g) = Suyos(fcb[g])
      BY <1>1 DEF Queda
    <3>3. ASSUME NEW x \in Reservados(fcb', punteros', obra')
          PROVE  x \in Reservados(fcb, punteros, obra)
      <4>1. PICK g \in DOMAIN fcb : \E i \in Suyos(fcb[g]) :
                x = BloqueDe(punteros, fcb[g], i)
        BY <1>1, <3>2, EnReservados
      <4> QED
        BY <3>1, <4>1, EnReservados
    <3>4. Reservados(fcb, punteros, obra) \subseteq bitmap
      BY <1>1, <2>3 DEF Inv, Marcados
    <3> QED
      BY <1>1, <2>3, <3>3, <3>4
  <2> QED
    BY <2>1, <2>2, <2>3 DEF Marcados
<1>5. Toma' /\ Libera' /\ Escribe'
  BY <1>1 DEF Toma, Libera, Escribe
<1> QED
  BY <1>2, <1>3, <1>4, <1>5 DEF Inv

\* Every step keeps the invariant, a fall in the middle of a truncation too.
LEMMA InvNext ==
    ASSUME Inv, [Next]_vars
    PROVE  Inv'
<1>1. ASSUME NEW f \in Archivos, CrearArchivo(f)
      PROVE  Inv'
  BY <1>1, InvCrear
<1>2. ASSUME NEW f \in Archivos, NEW t \in Tamanios, TruncarArchivo(f, t)
      PROVE  Inv'
  BY <1>2, InvTruncar
<1>3. CASE LiberarBloque
  BY <1>3, InvLiberar
<1>4. CASE TomarBloque
  BY <1>4, InvTomar
<1>5. CASE EscribirPunteros
  BY <1>5, InvEscribir
<1>6. CASE GuardarFcb
  BY <1>6, InvGuardar
<1>7. CASE Caer
  BY <1>7, InvCaer
<1>8. CASE UNCHANGED vars
  BY <1>8 DEF vars, Inv, Tipos, Unicos, Marcados, Toma, Libera, Escribe
<1> QED
  BY <1>1, <1>2, <1>3, <1>4, <1>5, <1>6, <1>7, <1>8 DEF Next

\* The invariant holds in every state the module reaches.
THEOREM SpecInv == Spec => []Inv
  BY InvInit, InvNext, PTL DEF Spec

-----------------------------------------------------------------------------
(* The properties.                                                         *)

\* Every variable has its type, whatever the sizes asked for and however many
\* times the module falls.
THEOREM TipoCorrecto == Spec => []TypeOK
<1>1. Inv => TypeOK
  <2> SUFFICES ASSUME Inv
               PROVE  TypeOK
    OBVIOUS
  <2>1. obra \in Obra \cup {Ninguna}
    BY DEF Inv, Tipos
  <2> QED
    BY <2>1 DEF Inv, Tipos, TypeOK
<1> QED
  BY <1>1, SpecInv, PTL

\* A set has as many members as another that a function maps to it one to one.
LEMMA UnoAUno ==
    ASSUME NEW S, IsFiniteSet(S), NEW h, DOMAIN h = S, h = [x \in S |-> h[x]],
           \A x, y \in S : h[x] = h[y] => x = y
    PROVE  Cardinality({h[x] : x \in S}) = Cardinality(S)
<1>1. PICK T : T = {h[x] : x \in S}
  OBVIOUS
<1>2. h \in Surjection(S, T)
  BY <1>1 DEF Surjection
<1>3. h \in Injection(S, T)
  BY <1>1 DEF Injection, IsInjective
<1> QED
  BY <1>1, <1>2, <1>3, FS_Surjection

\* How many places a file has.
LEMMA CuantosLugares ==
    ASSUME NEW n \in Nat
    PROVE  /\ IsFiniteSet(Lugares(n))
           /\ Cardinality(Lugares(n)) = n + IF n > 1 THEN 1 ELSE 0
<1>1. CASE n > 1
  <2>1. Lugares(n) = 0..n
    BY <1>1 DEF Lugares
  <2> QED
    BY <1>1, <2>1, FS_Interval
<1>2. CASE ~ (n > 1)
  <2>1. Lugares(n) = 1..n
    BY <1>2 DEF Lugares
  <2> QED
    BY <1>2, <2>1, FS_Interval
<1> QED
  BY <1>1, <1>2

\* The blocks of a file are those of its places.
LEMMA OcupadosSon ==
    ASSUME Tipos, NEW f \in DOMAIN fcb, NEW x
    PROVE  x \in Ocupados(fcb[f]) <=>
               \E i \in Suyos(fcb[f]) : x = BloqueDe(punteros, fcb[f], i)
<1>1. PICK c : c = fcb[f]
  OBVIOUS
<1>2. PICK n : n = Bloques(c.tamanio)
  OBVIOUS
<1>3. n \in Nat
  BY <1>1, <1>2, DeFcb, SuperbloqueAssumption
<1>4. /\ DOMAIN Datos(c) = 1..n
      /\ \A i \in 1..n : Datos(c)[i] = BloqueDe(punteros, c, i)
  BY <1>2 DEF Datos, BloqueDe, PunteroDe, Puntero
<1>5. x \in Range(Datos(c)) <=> \E i \in 1..n : x = BloqueDe(punteros, c, i)
  BY <1>4 DEF Range
<1>6. BloqueDe(punteros, c, 0) = c.indirecto
  BY DEF BloqueDe
<1>7. Suyos(c) = Lugares(n)
  BY <1>2 DEF Suyos
<1>8. CASE n > 1
  <2>1. x \in Ocupados(c) <=> x \in Range(Datos(c)) \/ x = c.indirecto
    BY <1>2, <1>8 DEF Ocupados
  <2>2. \A i : i \in Suyos(c) <=> i \in 1..n \/ i = 0
    BY <1>3, <1>7, <1>8 DEF Lugares
  <2> QED
    BY <1>1, <1>5, <1>6, <2>1, <2>2
<1>9. CASE ~ (n > 1)
  <2>1. x \in Ocupados(c) <=> x \in Range(Datos(c))
    BY <1>2, <1>9 DEF Ocupados
  <2>2. Suyos(c) = 1..n
    BY <1>3, <1>7, <1>9 DEF Lugares
  <2> QED
    BY <1>1, <1>5, <2>1, <2>2
<1> QED
  BY <1>8, <1>9

\* No block belongs to two files, or twice to one, for any number of files,
\* of blocks and of falls, while no fall has lost a bit in use.
THEOREM BloquesSeparados == Spec => []BloquesDisjuntos
<1>1. ASSUME Inv
      PROVE  BloquesDisjuntos
  <2> SUFFICES ASSUME sano, NEW f \in DOMAIN fcb
               PROVE  /\ Cardinality(Ocupados(fcb[f])) =
                             Bloques(fcb[f].tamanio)
                             + IF Bloques(fcb[f].tamanio) > 1 THEN 1 ELSE 0
                      /\ \A g \in DOMAIN fcb \ {f} :
                             Ocupados(fcb[f]) \cap Ocupados(fcb[g]) = {}
    BY DEF BloquesDisjuntos
  <2>1. Tipos /\ Unicos
    BY <1>1 DEF Inv
  <2>2. PICK n \in Nat : n = Bloques(fcb[f].tamanio)
    BY <2>1, DeFcb, SuperbloqueAssumption
  <2>3. PICK S : S = Lugares(n)
    OBVIOUS
  <2>4. PICK h : h = [i \in S |-> BloqueDe(punteros, fcb[f], i)]
    OBVIOUS
  <2>5. S = Suyos(fcb[f])
    BY <2>2, <2>3 DEF Suyos
  <2>6. \A x, y \in S : h[x] = h[y] => x = y
    BY <2>1, <2>4, <2>5 DEF Unicos
  <2>7. Ocupados(fcb[f]) = {h[x] : x \in S}
    <3>1. \A x : x \in Ocupados(fcb[f]) <=> x \in {h[y] : y \in S}
      BY <2>1, <2>4, <2>5, OcupadosSon
    <3> QED
      BY <3>1
  <2>8. Cardinality(Ocupados(fcb[f])) = n + IF n > 1 THEN 1 ELSE 0
    <3>1. IsFiniteSet(S) /\ Cardinality(S) = n + IF n > 1 THEN 1 ELSE 0
      BY <2>3, CuantosLugares
    <3>2. Cardinality({h[x] : x \in S}) = Cardinality(S)
      BY <2>4, <2>6, <3>1, UnoAUno
    <3> QED
      BY <2>7, <3>1, <3>2
  <2>9. ASSUME NEW g \in DOMAIN fcb \ {f}, NEW x \in Ocupados(fcb[f]),
               x \in Ocupados(fcb[g])
        PROVE  FALSE
    <3>1. PICK i \in Suyos(fcb[f]) : x = BloqueDe(punteros, fcb[f], i)
      BY <2>1, OcupadosSon
    <3>2. PICK j \in Suyos(fcb[g]) : x = BloqueDe(punteros, fcb[g], j)
      BY <2>1, <2>9, OcupadosSon
    <3> QED
      BY <2>1, <3>1, <3>2 DEF Unicos
  <2> QED
    BY <2>2, <2>8, <2>9
<1> QED
  BY <1>1, SpecInv, PTL

\* The bit of every block in use is set unless its file is being shortened,
\* and before the first fall no other bit is.
THEOREM BitmapSiempreExacto == Spec => []BitmapExacto
<1>1. ASSUME Inv
      PROVE  BitmapExacto
  <2> DEFINE enUso == UNION {Ocupados(fcb[f]) : f \in DOMAIN fcb}
  <2>1. Tipos /\ Marcados
    BY <1>1 DEF Inv
  <2>2. ASSUME ~ Recortando
        PROVE  \A x : x \in enUso <=> x \in Reservados(fcb, punteros, obra)
    <3>1. ASSUME NEW g \in DOMAIN fcb
          PROVE  Queda(fcb, obra, g) = Suyos(fcb[g])
      <4>1. CASE obra # Ninguna /\ obra.archivo = g
        <5>1. PICK n : n = Bloques(fcb[g].tamanio)
          OBVIOUS
        <5>2. PICK m : m = Bloques(obra.tamanio)
          OBVIOUS
        <5>3. n \in Nat /\ m \in Nat \ {0}
          BY <2>1, <4>1, <5>1, <5>2, DeFcb, DeObra, SuperbloqueAssumption
        <5>4. n <= m
          BY <2>2, <4>1, <5>1, <5>2, <5>3 DEF Recortando
        <5>5. Lugares(n) \subseteq Lugares(m)
          BY <5>3, <5>4, LugaresCrecen
        <5> QED
          BY <4>1, <5>1, <5>2, <5>5 DEF Queda, Suyos
      <4>2. CASE ~ (obra # Ninguna /\ obra.archivo = g)
        BY <4>2 DEF Queda
      <4> QED
        BY <4>1, <4>2
    <3>2. \A x : x \in enUso <=> \E g \in DOMAIN fcb : x \in Ocupados(fcb[g])
      OBVIOUS
    <3>3. \A g \in DOMAIN fcb : \A x : x \in Ocupados(fcb[g]) <=>
             \E i \in Suyos(fcb[g]) : x = BloqueDe(punteros, fcb[g], i)
      BY <2>1, OcupadosSon
    <3>4. \A x : x \in Reservados(fcb, punteros, obra) <=>
             \E g \in DOMAIN fcb : \E i \in Queda(fcb, obra, g) :
                 x = BloqueDe(punteros, fcb[g], i)
      BY EnReservados
    <3> HIDE DEF enUso
    <3> QED
      BY <3>1, <3>2, <3>3, <3>4
  <2> HIDE DEF enUso
  <2>3. sano /\ ~ Recortando => enUso \subseteq bitmap
    BY <2>1, <2>2 DEF Marcados
  <2>4. caidas = 0 /\ obra = Ninguna => bitmap = enUso
    <3> SUFFICES ASSUME caidas = 0, obra = Ninguna
                 PROVE  bitmap = enUso
      OBVIOUS
    <3>1. ~ Recortando /\ DeLaObra(obra) = {} /\ sano
      BY <2>1 DEF Recortando, DeLaObra, Tipos
    <3>2. \A x : x \in bitmap <=> x \in Reservados(fcb, punteros, obra)
      BY <2>1, <3>1 DEF Marcados
    <3> QED
      BY <2>2, <3>1, <3>2
  <2> QED
    BY <2>3, <2>4 DEF BitmapExacto, enUso
<1> QED
  BY <1>1, SpecInv, PTL

\* No step moves a block that a file keeps, place by place.
LEMMA Quietos ==
    ASSUME Inv, Next \/ UNCHANGED vars,
           NEW f \in DOMAIN fcb, NEW i \in Suyos(fcb[f]) \cap Suyos(fcb'[f])
    PROVE  BloqueDe(punteros', fcb'[f], i) = BloqueDe(punteros, fcb[f], i)
<1>1. CASE EscribirPunteros
  BY <1>1, InvEscribir
<1>2. CASE GuardarFcb
  BY <1>2, InvGuardar
<1>3. ASSUME NEW g \in Archivos, CrearArchivo(g)
      PROVE  punteros' = punteros /\ fcb'[f] = fcb[f]
  BY <1>3 DEF CrearArchivo
<1>4. CASE \/ \E g \in Archivos : \E t \in Tamanios : TruncarArchivo(g, t)
           \/ LiberarBloque \/ TomarBloque \/ Caer \/ UNCHANGED vars
  BY <1>4 DEF TruncarArchivo, LiberarBloque, TomarBloque, Caer, vars
<1> QED
  BY <1>1, <1>2, <1>3, <1>4 DEF Next

\* A truncation, in any of its steps and whatever its size, leaves the blocks
\* that every file keeps where they were.
THEOREM ContenidoIntacto == Spec => ContenidoConservado
<1> DEFINE Conserva ==
        sano' => \A f \in DOMAIN fcb :
          LET antes == Datos(fcb[f])
              despues == Datos(fcb[f])'
          IN  \A i \in DOMAIN antes \cap DOMAIN despues :
                  antes[i] = despues[i]
<1>1. ASSUME Inv, [Next]_vars
      PROVE  Conserva
  <2> SUFFICES ASSUME NEW f \in DOMAIN fcb,
                      NEW i \in DOMAIN Datos(fcb[f]) \cap DOMAIN Datos(fcb[f])'
               PROVE  Datos(fcb[f])[i] = Datos(fcb[f])'[i]
    OBVIOUS
  <2>1. PICK n : n = Bloques(fcb[f].tamanio)
    OBVIOUS
  <2>2. PICK m : m = Bloques(fcb'[f].tamanio)
    OBVIOUS
  <2>3. /\ i \in 1..n /\ Datos(fcb[f])[i] = BloqueDe(punteros, fcb[f], i)
        /\ i \in 1..m /\ Datos(fcb[f])'[i] = BloqueDe(punteros', fcb'[f], i)
    BY <2>1, <2>2 DEF Datos, BloqueDe, PunteroDe, Puntero
  <2>4. i \in Suyos(fcb[f]) \cap Suyos(fcb'[f])
    BY <2>1, <2>2, <2>3 DEF Suyos, Lugares
  <2> QED
    BY <1>1, <2>3, <2>4, Quietos
<1>2. Inv /\ [Next]_vars => [Conserva]_vars
  BY <1>1
<1> QED
  BY <1>2, SpecInv, PTL DEF Spec, ContenidoConservado

-----------------------------------------------------------------------------
(* The bytes an access touches.  Byte x of a file is one of the file of    *)
(* blocks, and an access is right when it touches those of a range of      *)
(* positions (Desde); each run of bytes is such a range, and they join.    *)

Byte(c, x) ==
    IF x < tamanioBloque THEN c.directo * tamanioBloque + x
    ELSE Puntero(c.indirecto, x \div tamanioBloque - 1) * tamanioBloque
         + (x % tamanioBloque)
Desde(c, x, n) == [i \in 1..n |-> Byte(c, x + i - 1)]

\* Quotient and remainder of a position.
LEMMA Multiplos ==
    ASSUME NEW T \in Nat \ {0}, NEW a \in Nat, NEW b \in Nat
    PROVE  /\ a * T \in Nat /\ (a + b) * T = a * T + b * T
           /\ a > 0 => a * T >= T
           /\ a <= b => a * T <= b * T
           /\ a * T < b * T => a < b
<1>1. a * T \in Nat /\ b * T \in Nat /\ (a + b) * T = a * T + b * T
  OBVIOUS
<1>2. ASSUME NEW e \in Nat, NEW d \in Nat, e = d + 1
      PROVE  e * T = d * T + T /\ d * T \in Nat
  BY <1>2
<1>3. a > 0 => a * T >= T
  <2>1. a > 0 => a - 1 \in Nat /\ a = (a - 1) + 1
    OBVIOUS
  <2> QED
    BY <1>1, <1>2, <2>1
<1>4. ASSUME NEW x \in Nat, NEW y \in Nat, x <= y PROVE x * T <= y * T
  <2>1. PICK d \in Nat : y = x + d
    <3>1. y - x \in Nat /\ y = x + (y - x)
      BY <1>4
    <3> QED
      BY <3>1
  <2>2. y * T = x * T + d * T /\ d * T \in Nat /\ x * T \in Nat
    BY <2>1
  <2> QED
    BY <2>2
<1>5. a * T < b * T => a < b
  BY <1>1, <1>4
<1> QED
  BY <1>1, <1>3, <1>4, <1>5

LEMMA Cociente ==
    ASSUME NEW T \in Nat \ {0}, NEW q \in Nat, NEW s \in 0..(T - 1)
    PROVE  (q * T + s) \div T = q /\ (q * T + s) % T = s /\ q * T + s \in Nat
<1>3. PICK x : x = q * T + s
  OBVIOUS
<1>1. x \in Nat /\ q * T \in Nat
  BY <1>3, Multiplos
<1>a. PICK d, r : d = x \div T /\ r = x % T
  OBVIOUS
<1>2. d \in Nat /\ r \in 0..(T - 1) /\ d * T \in Nat /\ x = d * T + r
  BY <1>1, <1>a
<1>4. ~ (d < q)
  <2> SUFFICES ASSUME d < q PROVE FALSE
    OBVIOUS
  <2>1. d + 1 \in Nat /\ d + 1 <= q
    BY <1>2
  <2>2. (d + 1) * T <= q * T /\ (d + 1) * T = d * T + 1 * T
    BY <1>2, <2>1, Multiplos
  <2> QED
    BY <1>1, <1>2, <1>3, <2>2
<1>5. ~ (q < d)
  <2> SUFFICES ASSUME q < d PROVE FALSE
    OBVIOUS
  <2>1. q + 1 \in Nat /\ q + 1 <= d
    BY <1>2
  <2>2. (q + 1) * T <= d * T /\ (q + 1) * T = q * T + 1 * T
    BY <1>2, <2>1, Multiplos
  <2> QED
    BY <1>1, <1>2, <1>3, <2>2
<1>6. d = q
  BY <1>2, <1>4, <1>5
<1>7. r = s
  BY <1>1, <1>2, <1>3, <1>6
<1> QED
  BY <1>1, <1>3, <1>6, <1>7, <1>a

\* How many blocks n bytes need, when they end inside one.
LEMMA BloquesDeResto ==
    ASSUME NEW n \in Nat, n % tamanioBloque # 0
    PROVE  Bloques(n) = n \div tamanioBloque + 1
<1> DEFINE T == tamanioBloque
<1>1. T \in Nat \ {0} /\ n % T # 0
  BY SuperbloqueAssumption DEF tamanioBloque
<1> HIDE DEF T
<1>a. PICK q, s : q = n \div T /\ s = n % T
  OBVIOUS
<1>2. q \in Nat /\ s \in 1..(T - 1) /\ n = q * T + s /\ q * T \in Nat
  <2>1. q \in Nat /\ s \in 0..(T - 1) /\ n = q * T + s /\ q * T \in Nat
    BY <1>1, <1>a
  <2> QED
    BY <1>1, <1>a, <2>1
<1>3. n + T - 1 = (q + 1) * T + (s - 1) /\ s - 1 \in 0..(T - 1) /\ q + 1 \in Nat
  BY <1>1, <1>2
<1>4. ((q + 1) * T + (s - 1)) \div T = q + 1
  BY <1>1, <1>3, Cociente
<1> QED
  BY <1>3, <1>4, <1>a DEF Bloques, T

\* How many they need when they end at the end of one.
LEMMA BloquesExactos ==
    ASSUME NEW q \in Nat
    PROVE  Bloques(q * tamanioBloque) = q
<1> DEFINE T == tamanioBloque
<1>1. T \in Nat \ {0}
  BY SuperbloqueAssumption DEF tamanioBloque
<1> HIDE DEF T
<1>2. q * T + T - 1 = q * T + (T - 1) /\ T - 1 \in 0..(T - 1)
  BY <1>1
<1>3. (q * T + T - 1) \div T = q
  BY <1>1, <1>2, Cociente
<1> QED
  BY <1>3 DEF Bloques, T

\* FlattenSeq(s) is the last term of the sequences that its recursion defines.
Acumula(g, s, m) ==
    /\ Len(s) = m /\ g[1] = s[1]
    /\ \A i \in 2..m : g[i] = g[i - 1] \o s[i]
LEMMA Aplanar ==
    ASSUME NEW m \in Nat \ {0}, NEW s, NEW g, Acumula(g, s, m)
    PROVE  FlattenSeq(s) = g[m]
<1> USE DEF Acumula
<1> DEFINE Regla(f, i) == IF i = 1 THEN s[1] ELSE f[i - 1] \o s[i]
           Cumple(f) == f = [i \in 1..m |-> IF i = 1 THEN s[i]
                                            ELSE f[i - 1] \o s[i]]
           F == CHOOSE f : Cumple(f)
<1>1. FlattenSeq(s) = F[m]
  BY DEF FlattenSeq
<1>2. PICK h : h = [i \in 1..m |-> g[i]]
  OBVIOUS
<1>3. Cumple(h)
  <2>1. ASSUME NEW i \in 1..m
        PROVE  h[i] = IF i = 1 THEN s[i] ELSE h[i - 1] \o s[i]
    <3>1. CASE i = 1
      BY <1>2, <3>1
    <3>2. CASE i # 1
      <4>1. i \in 2..m /\ i - 1 \in 1..m
        BY <3>2
      <4>2. h[i] = g[i] /\ h[i - 1] = g[i - 1] /\ g[i] = g[i - 1] \o s[i]
        BY <1>2, <4>1
      <4> QED
        BY <3>2, <4>2
    <3> QED
      BY <3>1, <3>2
  <2> QED
    BY <1>2, <2>1
<1>4. Cumple(F)
  <2> HIDE DEF Cumple
  <2> QED
    BY <1>3
<1>5. \A i \in 1..m : F[i] = h[i]
  <2> DEFINE S == {i \in 1..m : F[i] # h[i]}
  <2>1. SUFFICES ASSUME S # {} PROVE FALSE
    OBVIOUS
  <2>a. S \in SUBSET Nat
    OBVIOUS
  <2>2. PICK i \in S : \A j \in S : i <= j
    BY <2>1, <2>a, HayPrimero
  <2>3. i \in 1..m /\ F[i] # h[i]
    BY <2>2
  <2>4. /\ F[i] = IF i = 1 THEN s[i] ELSE F[i - 1] \o s[i]
        /\ h[i] = IF i = 1 THEN s[i] ELSE h[i - 1] \o s[i]
    BY <1>3, <1>4, <2>3
  <2> HIDE DEF F
  <2>5. i # 1 /\ F[i - 1] # h[i - 1]
    BY <2>3, <2>4
  <2>6. i - 1 \in 1..m /\ i - 1 \in S /\ ~ (i <= i - 1)
    BY <2>3, <2>5
  <2> QED
    BY <2>2, <2>6
<1> HIDE DEF F
<1>6. F[m] = h[m] /\ h[m] = g[m]
  BY <1>2, <1>5
<1> QED
  BY <1>1, <1>6

\* A byte is a natural number.
LEMMA ByteTipo ==
    ASSUME Tipos, NEW c \in Fcb, NEW x \in Nat
    PROVE  Byte(c, x) \in Nat
<1>1. PICK T : T = tamanioBloque
  OBVIOUS
<1>2. T \in Nat \ {0}
  BY <1>1, SuperbloqueAssumption DEF tamanioBloque
<1>3. \A b \in Nat : b * T \in Nat
  BY <1>2
<1>4. c.directo \in Nat /\ \A k : Puntero(c.indirecto, k) \in Nat
  BY DEF Fcb, Tipos, Puntero
<1>5. PICK q, s : q = x \div T /\ s = x % T
  OBVIOUS
<1>6. s \in Nat
  BY <1>2, <1>5
<1>7. Byte(c, x) = IF x < T THEN c.directo * T + x
                   ELSE Puntero(c.indirecto, q - 1) * T + s
  BY <1>1, <1>5 DEF Byte
<1> QED
  BY <1>3, <1>4, <1>6, <1>7

\* Ranges of positions join.
LEMMA DesdeTipo ==
    ASSUME Tipos, NEW c \in Fcb, NEW x \in Nat, NEW n \in Nat
    PROVE  Desde(c, x, n) \in Seq(Nat) /\ Len(Desde(c, x, n)) = n
<1>1. \A i \in 1..n : Byte(c, x + i - 1) \in Nat
  BY ByteTipo
<1>2. Desde(c, x, n) \in [1..n -> Nat]
  BY <1>1 DEF Desde
<1> QED
  BY <1>2, IsASeq, LenProperties

SeUnen(c, x, n, k) ==
    Desde(c, x, n) \o Desde(c, x + n, k) = Desde(c, x, n + k)
LEMMA DesdeUne ==
    ASSUME Tipos, NEW c \in Fcb, NEW x \in Nat, NEW n \in Nat, NEW k \in Nat
    PROVE  SeUnen(c, x, n, k)
<1>1. /\ Desde(c, x, n) \in Seq(Nat) /\ Len(Desde(c, x, n)) = n
      /\ Desde(c, x + n, k) \in Seq(Nat) /\ Len(Desde(c, x + n, k)) = k
      /\ Desde(c, x, n + k) \in Seq(Nat) /\ Len(Desde(c, x, n + k)) = n + k
  <2>1. x + n \in Nat /\ n + k \in Nat
    OBVIOUS
  <2> QED
    BY <2>1, DesdeTipo
<1>2. PICK a, b, u : /\ a = Desde(c, x, n) /\ b = Desde(c, x + n, k)
                     /\ u = Desde(c, x, n + k)
  OBVIOUS
<1>3. /\ a \o b \in Seq(Nat) /\ Len(a \o b) = n + k
      /\ \A i \in 1..(n + k) :
            (a \o b)[i] = IF i <= n THEN a[i] ELSE b[i - n]
  BY <1>1, <1>2, ConcatProperties
<1>4. ASSUME NEW i \in 1..(n + k) PROVE (a \o b)[i] = u[i]
  <2>1. u[i] = Byte(c, x + i - 1)
    BY <1>2 DEF Desde
  <2>2. CASE i <= n
    BY <1>2, <1>3, <2>1, <2>2 DEF Desde
  <2>3. CASE ~ (i <= n)
    <3>1. i - n \in 1..k /\ x + n + (i - n) - 1 = x + i - 1
      BY <2>3
    <3>2. b[i - n] = Byte(c, x + n + (i - n) - 1)
      BY <1>2, <3>1 DEF Desde
    <3> QED
      BY <1>3, <2>1, <2>3, <3>1, <3>2
  <2> QED
    BY <2>2, <2>3
<1> QED
  BY <1>1, <1>2, <1>3, <1>4, SeqEqual DEF SeUnen

\* A run of the direct block, and one of the block of pointer q - 1.
LEMMA TramoDirecto ==
    ASSUME NEW c, NEW x \in Nat, NEW n \in Nat, x + n <= tamanioBloque,
           c.directo \in Nat
    PROVE  Tramo(c.directo, x, n) = Desde(c, x, n)
<1>1. PICK T, d : T = tamanioBloque /\ d = c.directo * T
  OBVIOUS
<1>2. T \in Nat \ {0} /\ d \in Nat
  BY <1>1, SuperbloqueAssumption DEF tamanioBloque
<1>3. ASSUME NEW i \in 1..n
      PROVE  Byte(c, x + i - 1) = c.directo * tamanioBloque + x + i - 1
  <2>1. PICK y : y = x + i - 1
    OBVIOUS
  <2>2. y \in Nat /\ y < T
    BY <1>1, <1>2, <2>1
  <2>3. Byte(c, y) = d + y
    BY <1>1, <2>2 DEF Byte
  <2> QED
    BY <1>1, <1>2, <2>1, <2>3
<1> QED
  BY <1>3 DEF Tramo, Desde

LEMMA TramoIndirecto ==
    ASSUME Tipos, NEW c, NEW q \in Nat \ {0}, NEW s \in Nat, NEW n \in Nat,
           s + n <= tamanioBloque
    PROVE  Tramo(Puntero(c.indirecto, q - 1), s, n)
              = Desde(c, q * tamanioBloque + s, n)
<1>1. PICK T, b : T = tamanioBloque /\ b = Puntero(c.indirecto, q - 1)
  OBVIOUS
<1>2. T \in Nat \ {0} /\ b \in Nat
  BY <1>1, SuperbloqueAssumption DEF tamanioBloque, Tipos, Puntero
<1>3. b * T \in Nat /\ q * T \in Nat /\ q * T >= T
  BY <1>2, Multiplos
<1>4. ASSUME NEW i \in 1..n
      PROVE  Byte(c, q * tamanioBloque + s + i - 1) = b * tamanioBloque + s + i - 1
  <2>1. PICK x, r : r = s + i - 1 /\ x = q * T + r
    OBVIOUS
  <2>2. r \in 0..(T - 1) /\ x \in Nat /\ ~ (x < T)
    BY <1>1, <1>2, <1>3, <2>1
  <2>3. x \div T = q /\ x % T = r
    BY <1>2, <2>1, <2>2, Cociente
  <2>4. Byte(c, x) = b * T + r
    BY <1>1, <2>2, <2>3 DEF Byte
  <2> QED
    BY <1>1, <1>2, <1>3, <2>1, <2>2, <2>4
<1> QED
  BY <1>1, <1>4 DEF Tramo, Desde
\* The number of bytes of the first i of the runs of Restantes.
Hasta(n, i) == IF i < Bloques(n) THEN i * tamanioBloque ELSE n

\* What accederAIndirectosRestantes touches from the block of pointer k on: n
\* bytes, when they end inside a block.
LEMMA RestantesHace ==
    ASSUME Tipos, NEW c \in Fcb, NEW k \in Nat, NEW n \in Nat,
           n % tamanioBloque # 0
    PROVE  Restantes(c, k, n) = Desde(c, (k + 1) * tamanioBloque, n)
<1> DEFINE largo(i) == IF n - (i - 1) * tamanioBloque > tamanioBloque
                       THEN tamanioBloque ELSE n % tamanioBloque
           runs == [i \in 1..Bloques(n) |->
                      Tramo(Puntero(c.indirecto, k + i - 1), 0, largo(i))]
<1>1. PICK T, q, r, m : /\ T = tamanioBloque /\ q = n \div T /\ r = n % T
                        /\ m = Bloques(n)
  OBVIOUS
<1>2. T \in Nat \ {0} /\ r # 0
  BY <1>1, SuperbloqueAssumption DEF tamanioBloque
<1>3. q \in Nat /\ r \in 1..(T - 1) /\ n = q * T + r /\ q * T \in Nat
  BY <1>1, <1>2
<1>4. m = q + 1 /\ m \in Nat \ {0}
  BY <1>1, <1>2, <1>3, BloquesDeResto
<1>5. ASSUME NEW i \in 1..m
      PROVE  /\ i - 1 \in Nat /\ (i - 1) * T \in Nat
             /\ Hasta(n, i) = (i - 1) * T + largo(i)
             /\ largo(i) \in Nat /\ largo(i) <= T
             /\ i > 1 => Hasta(n, i - 1) = (i - 1) * T
  <2>1. i - 1 \in Nat /\ (i - 1) * T \in Nat
    BY <1>2, <1>4, Multiplos
  <2>2. CASE i < m
    <3>1. i \in Nat /\ i * T = (i - 1) * T + 1 * T /\ i * T <= q * T
      <4>1. i \in Nat /\ i <= q /\ 1 \in Nat /\ i = (i - 1) + 1
        BY <1>3, <1>4, <2>2
      <4>2. ((i - 1) + 1) * T = (i - 1) * T + 1 * T /\ i * T <= q * T
        BY <1>2, <1>3, <2>1, <4>1, Multiplos
      <4> QED
        BY <4>1, <4>2
    <3>2. n - (i - 1) * T > T
      BY <1>2, <1>3, <2>1, <3>1
    <3>3. largo(i) = T
      BY <1>1, <3>2
    <3>4. Hasta(n, i) = i * T
      BY <1>1, <2>2 DEF Hasta
    <3>5. i > 1 => Hasta(n, i - 1) = (i - 1) * T
      BY <1>1, <1>4, <2>2 DEF Hasta
    <3> HIDE DEF largo
    <3> QED
      BY <1>2, <2>1, <3>1, <3>3, <3>4, <3>5
  <2>3. CASE i = m
    <3>1. i - 1 = q
      BY <1>3, <1>4, <2>3
    <3>2. ~ (n - (i - 1) * T > T)
      BY <1>2, <1>3, <3>1
    <3>3. largo(i) = r
      BY <1>1, <3>2
    <3>4. Hasta(n, i) = n
      BY <1>1, <1>4, <2>3 DEF Hasta
    <3>5. i > 1 => Hasta(n, i - 1) = (i - 1) * T
      BY <1>1, <1>4, <2>3 DEF Hasta
    <3> HIDE DEF largo
    <3> QED
      BY <1>2, <1>3, <2>1, <3>1, <3>3, <3>4, <3>5
  <2> QED
    BY <1>4, <2>2, <2>3
<1>6. PICK x : x = (k + 1) * T /\ x \in Nat
  BY <1>2
<1>7. ASSUME NEW i \in 1..m
      PROVE  runs[i] = Desde(c, x + (i - 1) * T, largo(i))
  <2>1. /\ k + i \in Nat \ {0} /\ (k + i) * T = x + (i - 1) * T
        /\ (k + i) - 1 = k + i - 1
    <3>1. k + 1 \in Nat /\ i - 1 \in Nat /\ (k + 1) + (i - 1) = k + i
      BY <1>4
    <3>2. ((k + 1) + (i - 1)) * T = (k + 1) * T + (i - 1) * T
      BY <1>2, <3>1, Multiplos
    <3> QED
      BY <1>4, <1>6, <3>1, <3>2
  <2>2. runs[i] = Tramo(Puntero(c.indirecto, (k + i) - 1), 0, largo(i))
    BY <1>1, <2>1
  <2>3. largo(i) \in Nat /\ 0 + largo(i) <= tamanioBloque
    BY <1>1, <1>2, <1>5
  <2> HIDE DEF runs, largo
  <2>4. Tramo(Puntero(c.indirecto, (k + i) - 1), 0, largo(i))
           = Desde(c, (k + i) * tamanioBloque + 0, largo(i))
    BY <2>1, <2>3, TramoIndirecto
  <2>5. (k + i) * tamanioBloque + 0 = x + (i - 1) * T
    BY <1>1, <1>5, <1>6, <2>1
  <2> QED
    BY <2>2, <2>4, <2>5
<1>8. PICK g : g = [i \in 1..m |-> Desde(c, x, Hasta(n, i))]
  OBVIOUS
<1>9. Restantes(c, k, n) = FlattenSeq(runs) /\ Len(runs) = m
  BY <1>1, <1>4 DEF Restantes
<1> HIDE DEF runs, largo
<1>10. g[1] = runs[1]
  <2>1. 1 \in 1..m /\ (1 - 1) * T = 0 /\ x + (1 - 1) * T = x
    BY <1>2, <1>4, <1>6
  <2>2. Hasta(n, 1) = (1 - 1) * T + largo(1) /\ largo(1) \in Nat
    BY <1>5, <2>1
  <2>3. Hasta(n, 1) = largo(1)
    BY <2>1, <2>2
  <2> QED
    BY <1>7, <1>8, <2>1, <2>3
<1>11. ASSUME NEW i \in 2..m PROVE g[i] = g[i - 1] \o runs[i]
  <2>1. i \in 1..m /\ i - 1 \in 1..m /\ i > 1
    BY <1>4
  <2>2. PICK d, l : d = (i - 1) * T /\ l = largo(i)
    OBVIOUS
  <2>3. /\ d \in Nat /\ l \in Nat
        /\ Hasta(n, i) = d + l /\ Hasta(n, i - 1) = d
    BY <1>5, <2>1, <2>2
  <2>4. g[i] = Desde(c, x, d + l) /\ g[i - 1] = Desde(c, x, d)
    BY <1>8, <2>1, <2>3
  <2>5. runs[i] = Desde(c, x + d, l)
    BY <1>7, <2>1, <2>2
  <2>6. SeUnen(c, x, d, l)
    BY <1>6, <2>3, DesdeUne
  <2> QED
    BY <2>4, <2>5, <2>6 DEF SeUnen
<1>12. FlattenSeq(runs) = g[m]
  <2>1. Acumula(g, runs, m)
    BY <1>9, <1>10, <1>11 DEF Acumula
  <2> QED
    BY <1>4, <2>1, Aplanar
<1>13. g[m] = Desde(c, x, n)
  <2>1. m \in 1..m /\ Hasta(n, m) = n
    BY <1>1, <1>4 DEF Hasta
  <2> QED
    BY <1>8, <2>1
<1> QED
  BY <1>1, <1>6, <1>9, <1>12, <1>13
\* The bytes an access should touch are a range of positions.
LEMMA BytesSonDesde ==
    ASSUME Tipos, NEW c \in Fcb, NEW p \in Nat, NEW n \in Nat,
           p + n <= c.tamanio
    PROVE  BytesDe(c, p, n) = Desde(c, p, n)
<1>1. PICK T, t, m : T = tamanioBloque /\ t = c.tamanio /\ m = Bloques(t)
  OBVIOUS
<1>2. T \in Nat \ {0} /\ t \in Nat /\ m \in Nat
  BY <1>1, SuperbloqueAssumption, BloquesTipo DEF tamanioBloque, Fcb
<1>3. ASSUME NEW x \in Nat, x < t
      PROVE  Datos(c)[x \div tamanioBloque + 1] * tamanioBloque
                + (x % tamanioBloque) = Byte(c, x)
  <2>1. PICK j, s : j = x \div T /\ s = x % T
    OBVIOUS
  <2>2. j \in Nat /\ s \in 0..(T - 1) /\ x = j * T + s /\ j * T \in Nat
    BY <1>2, <2>1
  <2>3. j + 1 <= m
    <3>1. PICK u, v : u = t + T - 1 /\ v = u % T
      OBVIOUS
    <3>2. u \in Nat /\ m = u \div T
      BY <1>1, <1>2, <3>1 DEF Bloques
    <3>3. m \in Nat /\ v \in 0..(T - 1) /\ u = m * T + v /\ m * T \in Nat
      BY <1>2, <3>1, <3>2
    <3>4. j * T < m * T
      BY <1>2, <1>3, <2>2, <3>1, <3>3
    <3>5. j < m
      BY <1>2, <2>2, <3>4, Multiplos
    <3> QED
      BY <1>2, <2>2, <3>5
  <2>4. Datos(c)[j + 1] = IF j = 0 THEN c.directo
                          ELSE Puntero(c.indirecto, j - 1)
    <3>1. j + 1 \in 1..m /\ (j + 1 = 1 <=> j = 0) /\ (j + 1) - 2 = j - 1
      BY <1>2, <2>2, <2>3
    <3> QED
      BY <1>1, <3>1 DEF Datos
  <2>5. CASE j = 0
    <3>1. x < T /\ s = x
      BY <1>2, <2>2, <2>5
    <3> QED
      BY <1>1, <2>1, <2>4, <2>5, <3>1 DEF Byte
  <2>6. CASE j # 0
    <3>1. j * T >= T
      BY <1>2, <2>2, <2>6, Multiplos
    <3>2. ~ (x < T)
      BY <1>2, <2>2, <3>1
    <3> QED
      BY <1>1, <2>1, <2>4, <2>6, <3>2 DEF Byte
  <2> QED
    BY <2>5, <2>6
<1>4. ASSUME NEW i \in 1..n
      PROVE  LET q == p + i - 1
             IN  Datos(c)[q \div tamanioBloque + 1] * tamanioBloque
                    + (q % tamanioBloque) = Byte(c, p + i - 1)
  <2>1. p + i - 1 \in Nat /\ p + i - 1 < t
    BY <1>1, <1>2
  <2> QED
    BY <1>3, <2>1
<1> QED
  BY <1>4 DEF BytesDe, Desde

\* Positions that differ in a block are at the same place of one.
LEMMA MismoResto ==
    ASSUME NEW T \in Nat \ {0}, NEW x \in Nat, NEW y \in Nat, x = y + T
    PROVE  x % T = y % T
<1>1. PICK q, s : q = y \div T /\ s = y % T
  OBVIOUS
<1>2. q \in Nat /\ s \in 0..(T - 1) /\ y = q * T + s /\ q * T \in Nat
  BY <1>1
<1>3. q + 1 \in Nat /\ (q + 1) * T = q * T + 1 * T
  BY <1>2, Multiplos
<1>4. x = (q + 1) * T + s
  BY <1>2, <1>3
<1>5. ((q + 1) * T + s) % T = s
  BY <1>2, <1>3, Cociente
<1> QED
  BY <1>1, <1>4, <1>5

\* An access that starts in the first block.
LEMMA AccesoDesdeElDirecto ==
    ASSUME Tipos, NEW c \in Fcb, NEW p \in Nat, NEW n \in Nat,
           p + n <= c.tamanio, p < tamanioBloque,
           (p + n) % tamanioBloque # 0
    PROVE  Acceso(c, p, n) = Desde(c, p, n)
<1>1. PICK T, fin : T = tamanioBloque /\ fin = p + n
  OBVIOUS
<1>2. /\ T \in Nat \ {0} /\ fin \in Nat /\ c.tamanio \in Nat
      /\ c.directo \in Nat /\ fin <= c.tamanio /\ p < T /\ fin % T # 0
  BY <1>1, SuperbloqueAssumption DEF tamanioBloque, Fcb
<1>3. fin # T
  <2>1. 1 * T = T /\ (1 * T + 0) % T = 0
    BY <1>2, Cociente
  <2> QED
    BY <1>2, <2>1
<1>4. CASE fin < T
  <2>1. Acceso(c, p, n) = Tramo(c.directo, p, n)
    BY <1>1, <1>2, <1>4 DEF Acceso
  <2> QED
    BY <1>1, <1>2, <1>4, <2>1, TramoDirecto
<1>5. CASE fin > T
  <2>1. PICK a, b : a = T - p /\ b = n - a
    OBVIOUS
  <2>2. /\ a \in Nat /\ b \in Nat /\ p + a = T /\ a + b = n /\ fin = b + T
    BY <1>1, <1>2, <1>5, <2>1
  <2>3. Acceso(c, p, n) = Tramo(c.directo, p, a) \o Restantes(c, 0, b)
    BY <1>1, <1>2, <1>5, <2>1 DEF Acceso
  <2>4. Tramo(c.directo, p, a) = Desde(c, p, a)
    BY <1>1, <1>2, <2>2, TramoDirecto
  <2>5. b % T # 0
    BY <1>2, <2>2, MismoResto
  <2>6. Restantes(c, 0, b) = Desde(c, (0 + 1) * tamanioBloque, b)
    BY <1>1, <2>2, <2>5, RestantesHace
  <2>7. (0 + 1) * tamanioBloque = p + a
    BY <1>1, <1>2, <2>2
  <2>8. SeUnen(c, p, a, b)
    BY <2>2, DesdeUne
  <2> QED
    BY <2>2, <2>3, <2>4, <2>6, <2>7, <2>8 DEF SeUnen
<1> QED
  BY <1>2, <1>3, <1>4, <1>5

\* One that starts at the start of another.
LEMMA AccesoDesdeUnIndirecto ==
    ASSUME Tipos, NEW c \in Fcb, NEW p \in Nat, NEW n \in Nat,
           p + n <= c.tamanio, p >= tamanioBloque,
           p % tamanioBloque = 0, (p + n) % tamanioBloque # 0
    PROVE  Acceso(c, p, n) = Desde(c, p, n)
<1>1. PICK T, fin, q : T = tamanioBloque /\ fin = p + n /\ q = p \div T
  OBVIOUS
<1>2. /\ T \in Nat \ {0} /\ fin \in Nat /\ c.tamanio \in Nat
      /\ fin <= c.tamanio /\ p >= T /\ p % T = 0
  BY <1>1, SuperbloqueAssumption DEF tamanioBloque, Fcb
<1>3. q \in Nat /\ p = q * T
  <2>1. PICK s : s = p % T
    OBVIOUS
  <2>2. q \in Nat /\ q * T \in Nat /\ p = q * T + s
    BY <1>1, <1>2, <2>1
  <2> QED
    BY <1>2, <2>1, <2>2
<1>4. q \in Nat \ {0}
  BY <1>2, <1>3
<1>5. PICK bloque : bloque = Puntero(c.indirecto, q - 1)
  OBVIOUS
<1>6. Bloques(p) = q
  BY <1>1, <1>3, BloquesExactos
<1>7. Acceso(c, p, n) = AccesoIndirecto(c, p, n)
  BY <1>1, <1>2 DEF Acceso
<1>8. AccesoIndirecto(c, p, n) =
          IF n > T THEN Tramo(bloque, 0, T) \o Restantes(c, q, n - T)
          ELSE Tramo(bloque, 0, n)
  <2>1. (q - 1) + 1 = q /\ T - 0 = T /\ 0 + n = n
    BY <1>2, <1>4
  <2> QED
    BY <1>1, <1>2, <1>5, <1>6, <2>1 DEF AccesoIndirecto
<1>9. q * tamanioBloque + 0 = p
  BY <1>1, <1>3
<1>10. CASE n > T
  <2>1. PICK b : b = n - T
    OBVIOUS
  <2>2. b \in Nat /\ T + b = n /\ n = b + T
    BY <1>2, <1>10, <2>1
  <2>3. Tramo(bloque, 0, T) = Desde(c, p, T)
    <3>1. 0 \in Nat /\ 0 + T <= tamanioBloque
      BY <1>1, <1>2
    <3>2. Tramo(bloque, 0, T) = Desde(c, q * tamanioBloque + 0, T)
      BY <1>2, <1>4, <1>5, <3>1, TramoIndirecto
    <3> QED
      BY <1>9, <3>2
  <2>4. (q + 1) * T = p + T
    BY <1>1, <1>2, <1>3, Multiplos
  <2>5. b % T # 0
    <3>1. PICK s, u : s = b % T /\ u = b \div T
      OBVIOUS
    <3>2. s \in 0..(T - 1) /\ u \in Nat /\ u * T \in Nat /\ b = u * T + s
      BY <1>2, <2>2, <3>1
    <3>3. (q + 1) + u \in Nat /\ ((q + 1) + u) * T = (q + 1) * T + u * T
      BY <1>2, <1>3, <3>2, Multiplos
    <3>4. fin = ((q + 1) + u) * T + s
      BY <1>1, <1>2, <2>2, <2>4, <3>2, <3>3
    <3>5. (((q + 1) + u) * T + s) % T = s
      BY <1>2, <3>2, <3>3, Cociente
    <3> QED
      BY <1>1, <3>1, <3>4, <3>5
  <2>6. Restantes(c, q, b) = Desde(c, (q + 1) * tamanioBloque, b)
    BY <1>1, <1>3, <2>2, <2>5, RestantesHace
  <2>7. SeUnen(c, p, T, b)
    BY <1>2, <2>2, DesdeUne
  <2>8. Acceso(c, p, n) = Tramo(bloque, 0, T) \o Restantes(c, q, b)
    BY <1>7, <1>8, <1>10, <2>1
  <2> QED
    BY <1>1, <2>2, <2>3, <2>4, <2>6, <2>7, <2>8 DEF SeUnen
<1>11. CASE ~ (n > T)
  <2>1. 0 \in Nat /\ 0 + n <= tamanioBloque
    BY <1>1, <1>2, <1>11
  <2>2. Tramo(bloque, 0, n) = Desde(c, q * tamanioBloque + 0, n)
    BY <1>4, <1>5, <2>1, TramoIndirecto
  <2> QED
    BY <1>7, <1>8, <1>9, <1>11, <2>2
<1> QED
  BY <1>10, <1>11

(* Whatever the size of a block and of a file, an access that starts in    *)
(* the first block or at the start of another, and ends inside one, reads  *)
(* or writes exactly the bytes asked for, in order (acceder_archivo and    *)
(* accederAIndirectosRestantes, operacionesFS.c).                          *)
THEOREM AccesoAlineadoCorrecto == Spec => []AccesoAlineado
<1>1. ASSUME Inv PROVE AccesoAlineado
  <2> SUFFICES ASSUME NEW f \in DOMAIN fcb, NEW a \in Accesos(fcb[f]),
                      \/ a[1] < tamanioBloque
                      \/ a[1] % tamanioBloque = 0,
                      (a[1] + a[2]) % tamanioBloque # 0
               PROVE  Acceso(fcb[f], a[1], a[2]) = BytesDe(fcb[f], a[1], a[2])
    BY DEF AccesoAlineado
  <2>1. Tipos
    BY <1>1 DEF Inv
  <2>2. PICK c, p, n : c = fcb[f] /\ p = a[1] /\ n = a[2]
    OBVIOUS
  <2>3. /\ c \in Fcb /\ p \in Nat /\ n \in Nat
        /\ p + n <= c.tamanio
        /\ p < tamanioBloque \/ p % tamanioBloque = 0
        /\ (p + n) % tamanioBloque # 0
    BY <2>1, <2>2, AccesosAssumption DEF Tipos, Accesos
  <2>4. tamanioBloque \in Nat
    BY SuperbloqueAssumption DEF tamanioBloque
  <2>5. Acceso(c, p, n) = Desde(c, p, n)
    BY <2>1, <2>3, <2>4, AccesoDesdeElDirecto, AccesoDesdeUnIndirecto
  <2>6. BytesDe(c, p, n) = Desde(c, p, n)
    BY <2>1, <2>3, BytesSonDesde
  <2> QED
    BY <2>2, <2>5, <2>6
<1> QED
  BY <1>1, SpecInv, PTL
=============================================================================
