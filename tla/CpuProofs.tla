------------------------------ MODULE CpuProofs ------------------------------
(***************************************************************************)
(* The exchange of contexts between the kernel and the CPU, for every set  *)
(* of processes, programs and tables of segments.                          *)
(*                                                                         *)
(* One context is under way at most: to the CPU, in it, or back.  It has   *)
(* no pid in the code, and the kernel takes it for that of the process it  *)
(* chose last, which is right as long as one context comes back for each   *)
(* that went out (Protocolo).  A file instruction that faults breaks it,   *)
(* since two come back: the second is read as that of the next process     *)
(* (Sobra), and only then is a context stored where it does not belong.    *)
(*                                                                         *)
(* Until then each process is where it would be alone (Solos): in its pcb, *)
(* or in what travels while the CPU thread waits for it.  For the programs *)
(* in which the processes do not meet (PorSeparado), one instruction of    *)
(* the CPU, or of the file thread, is one step of the reference (Paso).    *)
(***************************************************************************)
EXTENDS Cpu, FiniteSetTheorems, SequenceTheorems, WellFoundedInduction, TLAPS

DeFs == {"F_READ", "F_WRITE"}
\* p ended at a file instruction that faulted.
Fallo(p) == motivo[p] = "SEG_FAULT" /\ programa[p][pcb[p].pc].op \in DeFs

-----------------------------------------------------------------------------
(* What travels.                                                           *)

Avance(c) == c.pc \in Nat \ {0} /\ ValoresDe(c.registros)
EsContexto(c, p) ==
    /\ c = [pid |-> p, pc |-> c.pc, registros |-> c.registros]
    /\ Avance(c)
EsPcb(c) == c = [pc |-> c.pc, registros |-> c.registros] /\ Avance(c)
EsParcial(m, p) == m.pid = p /\ Avance(m)
EsDireccion(m) == m.direccion \in Celdas \cup {SinDireccion}

\* What the CPU answers about p.
Respuesta(x, p) ==
    /\ EsParcial(x[1], p)
    /\ \/ Len(x) = 1 /\ x[1].motivo \notin DeFs
       \/ Len(x) = 2 /\ x[1].motivo \in DeFs /\ EsDireccion(x[2])
       \/ /\ Len(x) = 3 /\ x[1].motivo = "SEG_FAULT"
          /\ programa[p][x[1].pc].op \in DeFs
          /\ EsParcial(x[2], p) /\ x[2].motivo \in DeFs
\* What it says of the instruction it stopped at.
Donde(p, i) == ObtenerDirFisica(i.dir, i.n, Tablas[p])
Fiel(x, p) ==
    LET i == programa[p][x[1].pc]
    IN  /\ x[1].pc \in DOMAIN programa[p]
        /\ x[1].motivo = "SEG_FAULT" => Falla(p, i)
        /\ x[1].motivo # "SEG_FAULT" => i.op = x[1].motivo
        /\ x[1].motivo \in DeFs =>
              ~ Falla(p, i) /\ x[2].direccion = Donde(p, i)
EnCamino(p) ==
    \/ /\ \E c \in Range(aCpu) : aCpu = <<c>> /\ EsContexto(c, p)
       /\ contexto = Nulo /\ aKernel = <<>>
    \/ /\ aCpu = <<>> /\ aKernel = <<>>
       /\ \A c \in {contexto} \ {Nulo} : EsContexto(c, p)
    \/ /\ aCpu = <<>> /\ contexto = Nulo
       /\ \E x \in {aKernel} : Respuesta(x, p)

Protocolo ==
    /\ hilo \in {"libre", "envia", "espera_fs"} =>
          aCpu = <<>> /\ contexto = Nulo /\ aKernel = <<>>
    /\ hilo = "espera" => \E p \in {actual} : EnCamino(p)
    /\ hilo = "espera_direccion" =>
          /\ aCpu = <<>> /\ contexto = Nulo
          /\ \E x \in {aKernel} : Len(x) = 1 /\ EsDireccion(x[1])
\* The second context of a file instruction of p that faulted.
Sobra(p) ==
    /\ Fallo(p)
    /\ hilo \in {"libre", "envia", "espera"}
    /\ \E x \in {aKernel} : /\ Len(x) > 0 /\ EsParcial(x[1], p)
                            /\ x[1].motivo \in DeFs

-----------------------------------------------------------------------------
(* Where each process is.                                                  *)

Listo(p) == \E i \in DOMAIN listos : listos[i] = p
UnLugar ==
    /\ \A i, j \in DOMAIN listos : listos[i] = listos[j] => i = j
    /\ hilo = "libre" <=> actual = Nulo
    /\ \A p \in Procesos :
          /\ p = actual => ~ Listo(p) /\ p # fs
          /\ p = fs => ~ Listo(p)
          /\ p = actual \/ p = fs \/ Listo(p) => motivo[p] = Nulo

Contextos ==
    \A c \in Range(aCpu) \cup ({contexto} \ {Nulo}) :
        \E p \in Procesos : EsContexto(c, p)
Tipos ==
    /\ programa \in Programas
    /\ DOMAIN pcb = Procesos
    /\ \A p \in Procesos : \E c \in {pcb[p]} : EsPcb(c)
    /\ motivo \in [Procesos -> {Nulo, "EXIT", "SEG_FAULT"}]
    /\ listos \in Seq(Procesos)
    /\ actual \in Procesos \cup {Nulo} /\ fs \in Procesos \cup {Nulo}
    /\ hilo \in {"libre", "envia", "espera", "espera_direccion", "espera_fs"}
    /\ direccion_fisica \in Celdas \cup {SinDireccion}
    /\ aCpu \in Seq(Range(aCpu)) /\ aKernel \in Seq(Range(aKernel))
    /\ DOMAIN espacio = Celdas /\ mezclado \in BOOLEAN

Inv ==
    /\ Tipos /\ Contextos
    /\ UnLugar
    /\ ~ mezclado => Protocolo \/ \E p \in Procesos : Sobra(p)
    /\ mezclado => \E p \in Procesos : Fallo(p)

-----------------------------------------------------------------------------
(* Sequences.                                                              *)

\* A sequence is one of its own elements.
LEMMA SecuenciaDe ==
    ASSUME NEW S, NEW s \in Seq(S)
    PROVE  s \in Seq(Range(s)) /\ Len(s) \in Nat /\ DOMAIN s = 1..Len(s)
<1>1. Len(s) \in Nat /\ DOMAIN s = 1..Len(s) /\ s \in [1..Len(s) -> S]
  BY LenProperties
<1>2. s \in [1..Len(s) -> Range(s)]
  BY <1>1 DEF Range
<1>3. s \in UNION {[1..n -> Range(s)] : n \in Nat}
  BY <1>1, <1>2
<1> QED
  BY <1>1, <1>3, SeqDef

\* Two sequences joined: their elements are those of both.
LEMMA Sumada ==
    ASSUME NEW s, s \in Seq(Range(s)), NEW t, t \in Seq(Range(t))
    PROVE  /\ s \o t \in Seq(Range(s \o t))
           /\ Len(s) \in Nat /\ Len(t) \in Nat
           /\ Len(s \o t) = Len(s) + Len(t)
           /\ DOMAIN (s \o t) = 1..(Len(s) + Len(t))
           /\ \A i \in 1..(Len(s) + Len(t)) :
                 (s \o t)[i] = IF i <= Len(s) THEN s[i] ELSE t[i - Len(s)]
<1> DEFINE S == Range(s) \cup Range(t)
<1>1. s \in Seq(S) /\ t \in Seq(S)
  BY SeqMonotonic
<1> HIDE DEF S
<1>2. /\ s \o t \in Seq(S) /\ Len(s \o t) = Len(s) + Len(t)
      /\ \A i \in 1..(Len(s) + Len(t)) :
            (s \o t)[i] = IF i <= Len(s) THEN s[i] ELSE t[i - Len(s)]
  BY <1>1, ConcatProperties
<1> QED
  BY <1>1, <1>2, SecuenciaDe

\* A sequence with one more at the end.
LEMMA Apilada ==
    ASSUME NEW s, s \in Seq(Range(s)), NEW x
    PROVE  /\ Append(s, x) \in Seq(Range(Append(s, x)))
           /\ Append(s, x) = s \o <<x>>
           /\ Len(s) \in Nat /\ Len(Append(s, x)) = Len(s) + 1
           /\ DOMAIN Append(s, x) = 1..(Len(s) + 1)
           /\ \A i \in 1..Len(s) : Append(s, x)[i] = s[i]
           /\ Append(s, x)[Len(s) + 1] = x
<1> DEFINE S == Range(s) \cup {x}
<1>1. s \in Seq(S) /\ x \in S
  BY SeqMonotonic
<1> HIDE DEF S
<1>2. /\ Append(s, x) \in Seq(S) /\ Len(Append(s, x)) = Len(s) + 1
      /\ Append(s, x) = s \o <<x>>
      /\ \A i \in 1..Len(s) : Append(s, x)[i] = s[i]
      /\ Append(s, x)[Len(s) + 1] = x
  BY <1>1, AppendIsConcat
<1> QED
  BY <1>1, <1>2, SecuenciaDe

\* A sequence without its first.
LEMMA Desapilada ==
    ASSUME NEW s, s \in Seq(Range(s)), s # <<>>
    PROVE  /\ Tail(s) \in Seq(Range(Tail(s))) /\ Head(s) = s[1]
           /\ Len(s) \in Nat \ {0} /\ Len(Tail(s)) = Len(s) - 1
           /\ DOMAIN s = 1..Len(s) /\ DOMAIN Tail(s) = 1..(Len(s) - 1)
           /\ \A i \in 1..(Len(s) - 1) : Tail(s)[i] = s[i + 1]
           /\ Len(s) = 1 => Tail(s) = <<>>
<1>1. /\ Tail(s) \in Seq(Range(s)) /\ Head(s) = s[1]
      /\ Len(s) \in Nat \ {0} /\ Len(Tail(s)) = Len(s) - 1
      /\ DOMAIN s = 1..Len(s)
      /\ \A i \in 1..(Len(s) - 1) : Tail(s)[i] = s[i + 1]
  OBVIOUS
<1>2. Len(s) = 1 => Tail(s) = <<>>
  <2>1. PICK S : S = Range(s)
    OBVIOUS
  <2>2. \A t \in Seq(S) : t # <<>> => Len(t) \in Nat \ {0}
    BY EmptySeq
  <2>3. Tail(s) \in Seq(S)
    BY <1>1, <2>1
  <2>4. PICK t : t = Tail(s)
    OBVIOUS
  <2>5. Len(t) = Len(s) - 1 /\ t \in Seq(S)
    BY <1>1, <2>3, <2>4
  <2> QED
    BY <2>2, <2>4, <2>5
<1> QED
  BY <1>1, <1>2, SecuenciaDe

-----------------------------------------------------------------------------
(* The MMU.                                                                *)

\* An address is translated to one of the segment it names, which holds the
\* cells asked for, or it is a fault.
LEMMA Traduce ==
    ASSUME NEW p \in Procesos, NEW dir \in Nat, NEW n \in Nat \ {0}
    PROVE  LET d == ObtenerDirFisica(dir, n, Tablas[p])
           IN  \/ d = SinDireccion
               \/ \E s \in Tablas[p] :
                     /\ s.idSegmento = dir \div TAM_MAX_SEGMENTO
                     /\ d \in Celdas /\ s.base <= d
                     /\ d + n <= s.base + s.tamanio
<1> DEFINE id == dir \div TAM_MAX_SEGMENTO
           des == dir % TAM_MAX_SEGMENTO
           validos == {s \in Encontrados(id, Tablas[p]) : Cabe(des, n, s)}
<1>1. des \in Nat
  BY TamanioAssumption
<1>2. CASE validos = {}
  BY <1>2 DEF ObtenerDirFisica
<1>3. CASE validos # {}
  <2> DEFINE s == CHOOSE s \in validos : TRUE
  <2>1. s \in validos
    BY <1>3
  <2>2. ObtenerDirFisica(dir, n, Tablas[p]) = s.base + des
    BY <1>3 DEF ObtenerDirFisica
  <2> HIDE DEF s
  <2>3. s \in Tablas[p] /\ s.idSegmento = id /\ des + n <= s.tamanio
    BY <2>1 DEF Encontrados, Cabe
  <2>4. /\ s.base \in Nat /\ s.tamanio \in Nat
        /\ s.base + s.tamanio <= TAM_MEMORIA
    BY <2>3, TablasAssumption
  <2> HIDE DEF des, id
  <2>5. /\ s.base + des \in Celdas /\ s.base <= s.base + des
        /\ s.base + des + n <= s.base + s.tamanio
    BY <1>1, <2>3, <2>4, TamanioAssumption DEF Celdas
  <2> QED
    BY <2>2, <2>3, <2>5 DEF id
<1> QED
  BY <1>2, <1>3

\* The MMU finds a fault where the reference does; where it finds none, the
\* transfer is of the segment that the address names.
LEMMA TraduceComoASolas ==
    ASSUME NEW p \in Procesos, NEW i, Accede(i), i.dir \in Nat, i.n \in Nat \ {0}
    PROVE  /\ Falla(p, i) => Donde(p, i) = SinDireccion
           /\ ~ Falla(p, i) =>
                 /\ Donde(p, i) # SinDireccion /\ Donde(p, i) \in Celdas
                 /\ \E s \in Tablas[p] :
                       /\ s.idSegmento = i.dir \div TAM_MAX_SEGMENTO
                       /\ Donde(p, i) = s.base + (i.dir % TAM_MAX_SEGMENTO)
                       /\ (i.dir % TAM_MAX_SEGMENTO) + i.n <= s.tamanio
<1>1. PICK id, des : /\ id = i.dir \div TAM_MAX_SEGMENTO
                     /\ des = i.dir % TAM_MAX_SEGMENTO
  OBVIOUS
<1>2. PICK n \in Nat \ {0} : n = i.n
  OBVIOUS
<1>3. des \in Nat
  BY <1>1, TamanioAssumption
<1> DEFINE validos == {s \in Tablas[p] : s.idSegmento = id /\ des + n <= s.tamanio}
<1>4. Donde(p, i) = IF validos = {} THEN SinDireccion
                    ELSE (CHOOSE s \in validos : TRUE).base + des
  <2> DEFINE W == {s \in Encontrados(i.dir \div TAM_MAX_SEGMENTO, Tablas[p]) :
                      Cabe(i.dir % TAM_MAX_SEGMENTO, i.n, s)}
  <2>1. Donde(p, i) = IF W = {} THEN SinDireccion
                      ELSE (CHOOSE s \in W : TRUE).base
                               + (i.dir % TAM_MAX_SEGMENTO)
    BY DEF Donde, ObtenerDirFisica
  <2>2. W = validos
    BY <1>1, <1>2 DEF Encontrados, Cabe
  <2>3. PICK V : V = W
    OBVIOUS
  <2> HIDE DEF W, validos
  <2> QED
    BY <1>1, <2>1, <2>2, <2>3
<1>5. \A s \in Tablas[p] : /\ s.base \in Nat /\ s.tamanio \in Nat
                           /\ s.base + s.tamanio <= TAM_MEMORIA
  BY TablasAssumption
<1>6. Rango(i) = {<<id, des + k>> : k \in 0..n - 1}
  BY <1>1, <1>2 DEF Rango, Logica
<1>7. CASE validos = {}
  <2>1. Donde(p, i) = SinDireccion
    BY <1>4, <1>7
  <2>2. <<id, des + (n - 1)>> \in Rango(i)
    BY <1>2, <1>6
  <2>3. <<id, des + (n - 1)>> \notin Propias(p)
    <3> SUFFICES ASSUME NEW s \in Tablas[p], NEW d \in 0..s.tamanio - 1,
                        <<id, des + (n - 1)>> = <<s.idSegmento, d>>
                 PROVE  FALSE
      BY DEF Propias
    <3>1. s.idSegmento = id /\ des + n <= s.tamanio
      BY <1>2, <1>3, <1>5
    <3> QED
      BY <1>7, <3>1
  <2>4. Falla(p, i)
    BY <2>2, <2>3 DEF Falla
  <2> QED
    BY <2>1, <2>4
<1>8. CASE validos # {}
  <2>1. PICK s \in validos : s = CHOOSE x \in validos : TRUE
    BY <1>8
  <2>2. Donde(p, i) = s.base + des
    BY <1>4, <1>8, <2>1
  <2>3. s \in Tablas[p] /\ s.idSegmento = id /\ des + n <= s.tamanio
    BY <2>1
  <2>4. s.base + des \in Celdas /\ s.base + des # SinDireccion
    <3>1. /\ s.base \in Nat /\ s.tamanio \in Nat
          /\ s.base + s.tamanio <= TAM_MEMORIA
      BY <1>5, <2>3
    <3> HIDE DEF validos
    <3>2. s.base + des \in Nat /\ s.base + des < TAM_MEMORIA
      BY <1>2, <1>3, <2>3, <3>1, TamanioAssumption
    <3> QED
      BY <3>2, TamanioAssumption DEF Celdas, SinDireccion
  <2>5. ~ Falla(p, i)
    <3> SUFFICES ASSUME NEW k \in 0..n - 1
                 PROVE  <<id, des + k>> \in Propias(p)
      BY <1>6 DEF Falla
    <3>1. des + k \in 0..s.tamanio - 1
      BY <1>2, <1>3, <1>5, <2>3
    <3> QED
      BY <2>3, <3>1 DEF Propias
  <2> QED
    BY <1>1, <1>2, <2>2, <2>3, <2>4, <2>5
<1> QED
  BY <1>7, <1>8

\* Whatever value is copied, the register keeps its width.
ConValor(regs, r, v) == [regs EXCEPT ![r] = SubSeq(v, 1, Bytes[r])]
LEMMA Anchos ==
    ASSUME NEW c, NEW p, EsContexto(c, p), NEW r \in Registros, NEW v
    PROVE  \E d \in {Siguiente(ConRegistro(c, r, v))} :
              /\ EsContexto(d, p) /\ d.pc = c.pc + 1
              /\ d.registros = ConValor(c.registros, r, v)
<1> DEFINE w == SubSeq(v, 1, Bytes[r])
           regs == [c.registros EXCEPT ![r] = w]
<1>1. Bytes[r] \in Nat \ {0}
  BY BytesAssumption DEF Registros
<1>2. Len(w) = Bytes[r]
  <2>1. \A i \in 1..Bytes[r] : v[i] \in {v[k] : k \in 1..Bytes[r]}
    OBVIOUS
  <2>2. 1 \in Int /\ Bytes[r] \in Int
    BY <1>1
  <2> HIDE DEF w
  <2>3. Len(SubSeq(v, 1, Bytes[r])) =
            IF 1 <= Bytes[r] THEN Bytes[r] - 1 + 1 ELSE 0
    BY <2>1, <2>2, SubSeqProperties
  <2> QED
    BY <1>1, <2>3 DEF w
<1>3. ValoresDe(regs)
  BY <1>2 DEF EsContexto, Avance, ValoresDe
<1>4. c = [pid |-> p, pc |-> c.pc, registros |-> c.registros]
      /\ c.pc \in Nat \ {0}
  BY DEF EsContexto, Avance
<1>5. Siguiente(ConRegistro(c, r, v)) =
          [pid |-> p, pc |-> c.pc + 1, registros |-> regs]
  <2> DEFINE a == c.pc
             b == c.registros
  <2>1. c = [pid |-> p, pc |-> a, registros |-> b]
    BY <1>4
  <2>2. ConRegistro(c, r, v) = [c EXCEPT !.registros[r] = w]
    BY DEF ConRegistro
  <2> HIDE DEF w, a, b
  <2>3. ConRegistro(c, r, v) =
            [pid |-> p, pc |-> a, registros |-> [b EXCEPT ![r] = w]]
    BY <2>1, <2>2
  <2>4. Siguiente(ConRegistro(c, r, v)) =
            [pid |-> p, pc |-> a + 1, registros |-> [b EXCEPT ![r] = w]]
    BY <2>3 DEF Siguiente
  <2> QED
    BY <2>4 DEF a, b
<1>6. PICK d : d = [pid |-> p, pc |-> c.pc + 1, registros |-> regs]
  OBVIOUS
<1>7. d.pid = p /\ d.pc = c.pc + 1 /\ d.registros = regs
  BY <1>6
<1> HIDE DEF regs
<1>8. EsContexto(d, p)
  BY <1>3, <1>4, <1>6, <1>7 DEF EsContexto, Avance
<1> QED
  BY <1>5, <1>6, <1>7, <1>8 DEF regs, ConValor

\* The program counter advances and no register changes.
LEMMA SoloAvanza ==
    ASSUME NEW c, NEW p, EsContexto(c, p)
    PROVE  \E d \in {Siguiente(c)} :
              EsContexto(d, p) /\ d.pc = c.pc + 1 /\ d.registros = c.registros
<1> DEFINE a == c.pc
           b == c.registros
<1>1. c = [pid |-> p, pc |-> a, registros |-> b] /\ a \in Nat \ {0}
  BY DEF EsContexto, Avance
<1>2. ValoresDe(b)
  BY DEF EsContexto, Avance
<1> HIDE DEF a, b
<1>3. Siguiente(c) = [pid |-> p, pc |-> a + 1, registros |-> b]
  BY <1>1 DEF Siguiente
<1>4. PICK d : d = [pid |-> p, pc |-> a + 1, registros |-> b]
  OBVIOUS
<1>5. EsContexto(d, p) /\ d.pc = a + 1 /\ d.registros = b
  BY <1>1, <1>2, <1>4 DEF EsContexto, Avance
<1> QED
  BY <1>3, <1>4, <1>5 DEF a, b

-----------------------------------------------------------------------------
(* The initial states.                                                     *)

\* The invariant holds when every pcb is as its process was created.
LEMMA InvInit == Init => Inv
<1> SUFFICES ASSUME Init
             PROVE  Inv
  OBVIOUS
<1>1. \A r \in Registros : Bytes[r] \in Nat
  BY BytesAssumption DEF Registros
<1>2. ASSUME NEW p \in Procesos
      PROVE  \E c \in {pcb[p]} : EsPcb(c)
  <2> DEFINE regs == [r \in Registros |-> [i \in 1..Bytes[r] |-> Cero]]
  <2>1. pcb[p] = [pc |-> 1, registros |-> regs]
    BY DEF Init
  <2>2. ValoresDe(regs)
    <3>1. \A r \in Registros : Len([i \in 1..Bytes[r] |-> Cero]) = Bytes[r]
      BY <1>1
    <3> QED
      BY <3>1 DEF ValoresDe
  <2> HIDE DEF regs
  <2>3. PICK c : c = [pc |-> 1, registros |-> regs]
    OBVIOUS
  <2>4. EsPcb(c)
    BY <2>2, <2>3 DEF EsPcb, Avance
  <2> QED
    BY <2>1, <2>3, <2>4
<1>3. listos \in Seq(Procesos) /\ \A i, j \in DOMAIN listos :
                                     listos[i] = listos[j] => i = j
  <2>1. Cardinality(Procesos) \in Nat
    BY ProcesosAssumption, FS_CardinalityType
  <2>2. /\ listos \in [1..Cardinality(Procesos) -> Procesos]
        /\ \A i, j \in 1..Cardinality(Procesos) :
              i # j => listos[i] # listos[j]
    BY DEF Init, SetToSeqs
  <2>3. listos \in UNION {[1..n -> Procesos] : n \in Nat}
    BY <2>1, <2>2
  <2>4. listos \in Seq(Procesos)
    BY <2>3, SeqDef
  <2> QED
    BY <2>2, <2>4
<1>4. Tipos
  <2>1. <<>> \in Seq(Range(<<>>))
    BY EmptySeq
  <2>2. DOMAIN pcb = Procesos /\ DOMAIN espacio = Celdas
    BY DEF Init
  <2>3. 0 \in Celdas
    BY TamanioAssumption DEF Celdas
  <2> QED
    BY <1>2, <1>3, <2>1, <2>2, <2>3 DEF Init, Tipos
<1>5. Contextos
  BY DEF Init, Contextos, Range
<1>6. UnLugar
  BY <1>3, ProcesosAssumption DEF Init, UnLugar
<1>7. Protocolo /\ ~ mezclado
  BY DEF Init, Protocolo
<1> QED
  BY <1>4, <1>5, <1>6, <1>7 DEF Inv

-----------------------------------------------------------------------------
(* The CPU.                                                                *)

\* It executes one instruction of p, or sends one answer about p.
LEMMA Ejecuta ==
    ASSUME Tipos, NEW p \in Procesos, NEW c, c = contexto, EsContexto(c, p),
           CpuEjecuta
    PROVE  \/ /\ UNCHANGED aKernel
              /\ \E d \in {contexto'} : EsContexto(d, p)
              /\ \/ InstruccionSet \/ MovIn
                 \/ MovOut /\ Traducida # SinDireccion
                           /\ contexto' = Siguiente(contexto)
           \/ /\ contexto' = Nulo /\ UNCHANGED espacio
              /\ \E x : /\ aKernel' = aKernel \o x
                        /\ x \in Seq(Range(x)) /\ Respuesta(x, p)
                        /\ Fiel(x, p) /\ x[1].pc = c.pc
                        /\ x[1].registros = c.registros
<1>1. /\ contexto.pid = p /\ Avance(c) /\ c.pc \in Nat \ {0}
      /\ Fetch = programa[p][c.pc] /\ Prog = programa[p]
  BY DEF EsContexto, Avance, Fetch, Prog
<1>d. c.pc \in DOMAIN programa[p]
  <2>1. programa[p] \in Seq(Range(programa[p]))
    BY ProgramasAssumption DEF Tipos
  <2> QED
    BY <1>1, <2>1 DEF CpuEjecuta
<1>2. Instruccion(Fetch)
  <2>1. /\ programa[p] \in Seq(Range(programa[p]))
        /\ \A k \in DOMAIN programa[p] : Instruccion(programa[p][k])
    BY ProgramasAssumption DEF Tipos
  <2>2. c.pc \in DOMAIN programa[p]
    BY <1>1, <2>1 DEF CpuEjecuta
  <2> QED
    BY <1>1, <2>1, <2>2
<1>f. ASSUME Fetch.op \in {"MOV_OUT", "F_READ", "F_WRITE"}
      PROVE  /\ Traducida = SinDireccion => Falla(p, Fetch)
             /\ Traducida # SinDireccion =>
                   ~ Falla(p, Fetch) /\ Traducida = Donde(p, Fetch)
  <2>1. Accede(Fetch) /\ Fetch.dir \in Nat /\ Fetch.n \in Nat \ {0}
    BY <1>2, <1>f DEF Accede, Instruccion
  <2>2. Traducida = Donde(p, Fetch)
    BY <1>1 DEF Traducida, Donde
  <2> QED
    BY <2>1, <2>2, TraduceComoASolas
\* What an answer says of the instruction.
<1>i. ASSUME NEW x, x[1].pc = c.pc
      PROVE  Fiel(x, p) <=>
                /\ x[1].motivo = "SEG_FAULT" => Falla(p, Fetch)
                /\ x[1].motivo # "SEG_FAULT" => Fetch.op = x[1].motivo
                /\ x[1].motivo \in DeFs =>
                      ~ Falla(p, Fetch) /\ x[2].direccion = Donde(p, Fetch)
  BY <1>1, <1>d, <1>i DEF Fiel
<1>3. ASSUME NEW m
      PROVE  /\ Append(aKernel, m) = aKernel \o <<m>>
             /\ <<m>> \in Seq(Range(<<m>>)) /\ Len(<<m>>) = 1 /\ <<m>>[1] = m
  <2>1. Append(aKernel, m) = aKernel \o <<m>>
    BY Apilada DEF Tipos
  <2>2. <<m>> \in Seq({m}) /\ Len(<<m>>) = 1 /\ <<m>>[1] = m
    OBVIOUS
  <2> QED
    BY <2>1, <2>2, SecuenciaDe
<1>4. ASSUME NEW motivo_, NEW m, m = Parcial(motivo_)
      PROVE  /\ EsParcial(m, p) /\ m.motivo = motivo_ /\ m.pc = c.pc
             /\ m.registros = c.registros
  BY <1>1, <1>4 DEF Parcial, EsParcial, Avance
<1>5. CASE InstruccionSet
  <2>1. Fetch.reg \in Registros
    BY <1>2, <1>5 DEF Instruccion, InstruccionSet, Registros
  <2>2. PICK v : v = Fetch.valor
    OBVIOUS
  <2>3. PICK r \in Registros : r = Fetch.reg
    BY <2>1
  <2>4. contexto' = Siguiente(ConRegistro(c, r, v)) /\ UNCHANGED aKernel
    BY <1>5, <2>2, <2>3 DEF InstruccionSet
  <2>5. \E d \in {Siguiente(ConRegistro(c, r, v))} : EsContexto(d, p)
    BY <2>3, Anchos
  <2> QED
    BY <1>5, <2>4, <2>5
<1>6. CASE MovIn
  <2>1. Fetch.reg \in Registros
    BY <1>2, <1>6 DEF Instruccion, MovIn, Registros
  <2>2. PICK v : v = Leer(Traducida, Fetch.n)
    OBVIOUS
  <2>3. PICK r \in Registros : r = Fetch.reg
    BY <2>1
  <2>4. contexto' = Siguiente(ConRegistro(c, r, v)) /\ UNCHANGED aKernel
    BY <1>6, <2>2, <2>3 DEF MovIn
  <2>5. \E d \in {Siguiente(ConRegistro(c, r, v))} : EsContexto(d, p)
    BY <2>3, Anchos
  <2> QED
    BY <1>6, <2>4, <2>5
<1>7. CASE MovOut
  <2>1. CASE Traducida = SinDireccion
    <3>1. PICK m : m = Parcial("SEG_FAULT")
      OBVIOUS
    <3>2. contexto' = Nulo /\ aKernel' = aKernel \o <<m>> /\ UNCHANGED espacio
      BY <1>3, <1>7, <2>1, <3>1 DEF MovOut, Devolver
    <3>3. Respuesta(<<m>>, p)
      BY <1>3, <1>4, <3>1 DEF Respuesta, DeFs
    <3>4. Falla(p, Fetch)
      BY <1>7, <1>f, <2>1 DEF MovOut
    <3>5. PICK x : x = <<m>>
      OBVIOUS
    <3>6. x[1] = m /\ m.motivo = "SEG_FAULT" /\ m.pc = c.pc
          /\ m.registros = c.registros
      BY <1>4, <3>1, <3>5
    <3>7. Fiel(x, p)
      BY <1>i, <3>4, <3>6 DEF DeFs
    <3> QED
      BY <1>3, <3>2, <3>3, <3>5, <3>6, <3>7
  <2>2. CASE Traducida # SinDireccion
    <3>1. contexto' = Siguiente(c) /\ contexto' = Siguiente(contexto)
          /\ UNCHANGED aKernel
      BY <1>7, <2>2 DEF MovOut
    <3> QED
      BY <1>7, <2>2, <3>1, SoloAvanza
  <2> QED
    BY <2>1, <2>2
<1>8. CASE DelKernel
  <2>1. PICK m : m = Parcial(Fetch.op)
    OBVIOUS
  <2>2. contexto' = Nulo /\ aKernel' = aKernel \o <<m>> /\ UNCHANGED espacio
    BY <1>3, <1>8, <2>1 DEF DelKernel, Devolver
  <2>3. Respuesta(<<m>>, p)
    <3>1. EsParcial(m, p) /\ m.motivo = Fetch.op
      BY <1>4, <2>1
    <3>2. m.motivo \notin DeFs
      BY <1>8, <3>1 DEF DelKernel, DeFs
    <3> QED
      BY <1>3, <3>1, <3>2 DEF Respuesta
  <2>4. PICK x : x = <<m>>
    OBVIOUS
  <2>5. x[1] = m /\ m.motivo = Fetch.op /\ m.pc = c.pc
        /\ m.registros = c.registros
    BY <1>4, <2>1, <2>4
  <2>6. Fiel(x, p)
    BY <1>8, <1>i, <2>5 DEF DelKernel, DeFs
  <2> QED
    BY <1>3, <2>2, <2>3, <2>4, <2>5, <2>6
<1>9. CASE DeArchivo
  <2>1. PICK f : f = Parcial("SEG_FAULT")
    OBVIOUS
  <2>2. PICK m : m = Parcial(Fetch.op)
    OBVIOUS
  <2>3. PICK d : d = [motivo |-> "direccion", direccion |-> Traducida]
    OBVIOUS
  <2>4. /\ EsParcial(f, p) /\ f.motivo = "SEG_FAULT" /\ f.pc = c.pc
        /\ f.registros = c.registros
        /\ EsParcial(m, p) /\ m.motivo = Fetch.op /\ m.pc = c.pc
        /\ m.registros = c.registros
        /\ d.direccion = Traducida
    BY <1>4, <2>1, <2>2, <2>3
  <2>5. Fetch.op \in DeFs
    BY <1>9 DEF DeArchivo, DeFs
  <2>6. CASE Traducida = SinDireccion
    <3>1. PICK x : x = <<f>> \o <<m, d>>
      OBVIOUS
    <3>2. x \in Seq(Range(x)) /\ Len(x) = 3 /\ x[1] = f /\ x[2] = m
      <4>1. /\ <<f>> \in Seq({f}) /\ Len(<<f>>) = 1
            /\ <<m, d>> \in Seq({m, d}) /\ Len(<<m, d>>) = 2
            /\ <<f>>[1] = f /\ <<m, d>>[1] = m
        OBVIOUS
      <4>2. <<f>> \in Seq(Range(<<f>>)) /\ <<m, d>> \in Seq(Range(<<m, d>>))
        BY <4>1, SecuenciaDe
      <4>3. PICK s, t : s = <<f>> /\ t = <<m, d>>
        OBVIOUS
      <4>4. /\ s \o t \in Seq(Range(s \o t)) /\ Len(s \o t) = Len(s) + Len(t)
            /\ \A i \in 1..(Len(s) + Len(t)) :
                  (s \o t)[i] = IF i <= Len(s) THEN s[i] ELSE t[i - Len(s)]
        BY <4>2, <4>3, Sumada
      <4>5. Len(s) = 1 /\ Len(t) = 2 /\ s[1] = f /\ t[1] = m /\ x = s \o t
        BY <3>1, <4>1, <4>3
      <4> QED
        BY <4>4, <4>5
    <3>3. Respuesta(x, p)
      BY <1>1, <2>4, <2>5, <3>2 DEF Respuesta
    <3>4. Fiel(x, p)
      <4>1. Falla(p, Fetch)
        BY <1>9, <1>f, <2>6 DEF DeArchivo
      <4> QED
        BY <1>i, <2>4, <3>2, <4>1 DEF DeFs
    <3>5. aKernel' = aKernel \o <<f>> \o <<m, d>>
      BY <1>9, <2>1, <2>2, <2>3, <2>6 DEF DeArchivo
    <3>6. aKernel \o <<f>> \o <<m, d>> = aKernel \o x
      <4> DEFINE S == Range(aKernel) \cup {f, m, d}
      <4>1. /\ aKernel \in Seq(S)
        BY SeqMonotonic DEF Tipos
      <4>2. <<f>> \in Seq(S) /\ <<m, d>> \in Seq(S)
        OBVIOUS
      <4> HIDE DEF S
      <4>3. (aKernel \o <<f>>) \o <<m, d>> = aKernel \o (<<f>> \o <<m, d>>)
        BY <4>1, <4>2, ConcatAssociative
      <4> QED
        BY <3>1, <4>3
    <3> QED
      BY <1>9, <2>4, <3>2, <3>3, <3>4, <3>5, <3>6, SecuenciaDe DEF DeArchivo
  <2>7. CASE Traducida # SinDireccion
    <3>1. PICK x : x = <<m, d>>
      OBVIOUS
    <3>2. x \in Seq({m, d}) /\ Len(x) = 2 /\ x[1] = m /\ x[2] = d
      BY <3>1
    <3>3. EsDireccion(d)
      <4>1. Fetch.dir \in Nat /\ Fetch.n \in Nat \ {0}
        BY <1>2, <2>5 DEF Instruccion, DeFs
      <4>2. Traducida \in Celdas
        BY <1>1, <2>7, <4>1, Traduce DEF Traducida
      <4> QED
        BY <2>4, <4>2 DEF EsDireccion
    <3>4. Respuesta(x, p)
      BY <2>4, <2>5, <3>2, <3>3 DEF Respuesta
    <3>5. aKernel' = aKernel \o <<>> \o <<m, d>>
      BY <1>9, <2>2, <2>3, <2>7 DEF DeArchivo
    <3>6. aKernel \o <<>> = aKernel
      BY DEF Tipos
    <3>7. Fiel(x, p)
      <4>1. ~ Falla(p, Fetch) /\ Traducida = Donde(p, Fetch)
        BY <1>9, <1>f, <2>7 DEF DeArchivo
      <4> QED
        BY <1>i, <2>4, <2>5, <3>2, <4>1 DEF DeFs
    <3> QED
      BY <1>9, <2>4, <3>1, <3>2, <3>4, <3>5, <3>6, <3>7, SecuenciaDe
         DEF DeArchivo
  <2> QED
    BY <2>6, <2>7
<1> QED
  BY <1>5, <1>6, <1>7, <1>8, <1>9 DEF CpuEjecuta

\* What no step of the CPU changes, and its new context and answers.
LEMMA CpuQuieta ==
    ASSUME Inv, ModuloCpu
    PROVE  /\ UNCHANGED <<programa, pcb, motivo, listos, actual, hilo,
                          direccion_fisica, fs, mezclado>>
           /\ DOMAIN espacio' = Celdas
           /\ UnLugar'
           /\ \A p \in Procesos : Fallo(p)' <=> Fallo(p)
<1>1. /\ UNCHANGED <<programa, pcb, motivo, listos, actual, hilo,
                     direccion_fisica, fs, mezclado>>
      /\ DOMAIN espacio' = Celdas
  BY DEF ModuloCpu, CpuRecibe, CpuSinInstrucciones, CpuEjecuta, kernel,
         InstruccionSet, MovIn, MovOut, DeArchivo, DelKernel, Escribir, Inv,
         Tipos
<1>2. \A p : Listo(p)' <=> Listo(p)
  BY <1>1 DEF Listo
<1>3. UnLugar'
  BY <1>1, <1>2 DEF Inv, UnLugar
<1> QED
  BY <1>1, <1>3 DEF Fallo

\* What is left to show of a step of the CPU: its context, the two
\* directions of the socket and the protocol.
LEMMA CpuQuietaBasta ==
    ASSUME Inv, ModuloCpu, ~ mezclado,
           aCpu' \in Seq(Range(aCpu')), aKernel' \in Seq(Range(aKernel')),
           Contextos',
           Protocolo => Protocolo',
           \A p \in Procesos : Sobra(p) => Sobra(p)'
    PROVE  Inv'
<1>1. /\ UNCHANGED <<programa, pcb, motivo, listos, actual, hilo,
                     direccion_fisica, fs, mezclado>>
      /\ DOMAIN espacio' = Celdas /\ UnLugar'
  BY CpuQuieta
<1>2. Tipos'
  BY <1>1 DEF Inv, Tipos
<1> QED
  BY <1>1, <1>2 DEF Inv

\* The context leaves the socket and is executed.
LEMMA PasoCpuRecibe ==
    ASSUME Inv, ~ mezclado, CpuRecibe
    PROVE  Inv'
<1>0. /\ UNCHANGED <<hilo, actual, aKernel>> /\ aCpu # <<>>
      /\ \A p \in Procesos : Fallo(p)' <=> Fallo(p)
  BY CpuQuieta DEF ModuloCpu, CpuRecibe
<1>1. /\ aCpu' = Tail(aCpu) /\ contexto' = aCpu[1]
      /\ aCpu' \in Seq(Range(aCpu')) /\ Len(aCpu) \in Nat \ {0}
      /\ DOMAIN aCpu = 1..Len(aCpu) /\ DOMAIN aCpu' = 1..(Len(aCpu) - 1)
      /\ \A i \in 1..(Len(aCpu) - 1) : aCpu'[i] = aCpu[i + 1]
      /\ Len(aCpu) = 1 => aCpu' = <<>>
  BY Desapilada DEF CpuRecibe, Inv, Tipos
<1>2. aCpu[1] \in Range(aCpu) /\ Range(aCpu') \subseteq Range(aCpu)
  <2>1. 1 \in DOMAIN aCpu
    BY <1>1
  <2>2. ASSUME NEW i \in DOMAIN aCpu'
        PROVE  aCpu'[i] \in Range(aCpu)
    <3>1. i + 1 \in DOMAIN aCpu /\ aCpu'[i] = aCpu[i + 1]
      BY <1>1
    <3> QED
      BY <3>1 DEF Range
  <2> QED
    BY <2>1, <2>2 DEF Range
<1>3. Contextos'
  BY <1>1, <1>2 DEF Inv, Contextos
<1>4. ASSUME Protocolo
      PROVE  Protocolo'
  <2>1. hilo = "espera"
    BY <1>0, <1>4 DEF Protocolo, Inv, Tipos
  <2>2. PICK c \in Range(aCpu) :
           aCpu = <<c>> /\ EsContexto(c, actual) /\ aKernel = <<>>
    BY <1>0, <1>4, <2>1 DEF Protocolo, EnCamino
  <2>3. Len(aCpu) = 1 /\ aCpu[1] = c
    BY <2>2
  <2>4. contexto' = c /\ aCpu' = <<>>
    BY <1>1, <2>3
  <2>5. PICK p : p = actual
    OBVIOUS
  <2>6. EnCamino(p)'
    BY <1>0, <2>2, <2>4, <2>5 DEF EnCamino
  <2> QED
    BY <1>0, <2>1, <2>5, <2>6 DEF Protocolo
<1>5. ASSUME NEW p \in Procesos, Sobra(p)
      PROVE  Sobra(p)'
  BY <1>0, <1>5 DEF Sobra
<1> QED
  BY <1>0, <1>1, <1>3, <1>4, <1>5, CpuQuietaBasta
     DEF ModuloCpu, Inv, Tipos

\* The program ran out: nothing is sent and the kernel waits on.
LEMMA PasoCpuSinInstrucciones ==
    ASSUME Inv, ~ mezclado, CpuSinInstrucciones
    PROVE  Inv'
<1>0. /\ UNCHANGED <<hilo, actual, aKernel, aCpu>>
      /\ contexto # Nulo /\ contexto' = Nulo
      /\ \A p \in Procesos : Fallo(p)' <=> Fallo(p)
  BY CpuQuieta DEF ModuloCpu, CpuSinInstrucciones
<1>3. Contextos'
  BY <1>0 DEF Inv, Contextos
<1>4. ASSUME Protocolo
      PROVE  Protocolo'
  <2>1. hilo = "espera"
    BY <1>0, <1>4 DEF Protocolo, Inv, Tipos
  <2>2. aCpu = <<>> /\ aKernel = <<>>
    BY <1>0, <1>4, <2>1 DEF Protocolo, EnCamino
  <2>5. PICK p : p = actual
    OBVIOUS
  <2>6. EnCamino(p)'
    BY <1>0, <2>2 DEF EnCamino
  <2> QED
    BY <1>0, <2>1, <2>5, <2>6 DEF Protocolo
<1>5. ASSUME NEW p \in Procesos, Sobra(p)
      PROVE  Sobra(p)'
  BY <1>0, <1>5 DEF Sobra
<1> QED
  BY <1>0, <1>3, <1>4, <1>5, CpuQuietaBasta DEF ModuloCpu, Inv, Tipos

\* An instruction keeps the context, or sends it back: twice when a file
\* instruction faults.
LEMMA PasoCpuEjecuta ==
    ASSUME Inv, ~ mezclado, CpuEjecuta
    PROVE  Inv'
<1>0. /\ UNCHANGED <<programa, hilo, actual, aCpu>> /\ contexto # Nulo
      /\ \A p \in Procesos : Fallo(p)' <=> Fallo(p)
      /\ Tipos
  BY CpuQuieta DEF ModuloCpu, CpuEjecuta, Inv
<1>1. PICK c : c = contexto
  OBVIOUS
<1>2. PICK p \in Procesos : EsContexto(c, p)
  BY <1>0, <1>1 DEF Inv, Contextos
<1>3. CASE UNCHANGED aKernel /\ \E d \in {contexto'} : EsContexto(d, p)
  <2>1. Contextos'
    BY <1>0, <1>3 DEF Inv, Contextos
  <2>2. ASSUME Protocolo
        PROVE  Protocolo'
    <3>1. hilo = "espera"
      BY <1>0, <2>2 DEF Protocolo, Tipos
    <3>2. PICK q : q = actual
      OBVIOUS
    <3>3. aCpu = <<>> /\ aKernel = <<>> /\ EsContexto(c, q)
      BY <1>0, <1>1, <2>2, <3>1, <3>2 DEF Protocolo, EnCamino
    <3>4. p = q
      BY <1>2, <3>3 DEF EsContexto
    <3>5. EnCamino(q)'
      BY <1>0, <1>3, <3>3, <3>4 DEF EnCamino
    <3> QED
      BY <1>0, <3>1, <3>2, <3>5 DEF Protocolo
  <2>3. ASSUME NEW q \in Procesos, Sobra(q)
        PROVE  Sobra(q)'
    BY <1>0, <1>3, <2>3 DEF Sobra
  <2> QED
    BY <1>0, <1>3, <2>1, <2>2, <2>3, CpuQuietaBasta DEF ModuloCpu, Inv, Tipos
<1>4. ASSUME contexto' = Nulo,
             NEW x, aKernel' = aKernel \o x, x \in Seq(Range(x)),
             Respuesta(x, p)
      PROVE  Inv'
  <2>1. Contextos'
    BY <1>0, <1>4 DEF Inv, Contextos
  <2>2. /\ aKernel' \in Seq(Range(aKernel'))
        /\ Len(aKernel) \in Nat /\ Len(x) \in Nat
        /\ Len(aKernel') = Len(aKernel) + Len(x)
        /\ \A i \in 1..Len(aKernel) : aKernel'[i] = aKernel[i]
    <3>1. PICK s : s = aKernel
      OBVIOUS
    <3>2. /\ s \o x \in Seq(Range(s \o x))
          /\ Len(s) \in Nat /\ Len(x) \in Nat
          /\ Len(s \o x) = Len(s) + Len(x)
          /\ \A i \in 1..(Len(s) + Len(x)) :
                (s \o x)[i] = IF i <= Len(s) THEN s[i] ELSE x[i - Len(s)]
      BY <1>0, <1>4, <3>1, Sumada DEF Tipos
    <3> QED
      BY <1>4, <3>1, <3>2
  <2>3. ASSUME Protocolo
        PROVE  Protocolo'
    <3>1. hilo = "espera"
      BY <1>0, <2>3 DEF Protocolo, Tipos
    <3>2. PICK q : q = actual
      OBVIOUS
    <3>3. aCpu = <<>> /\ aKernel = <<>> /\ EsContexto(c, q)
      BY <1>0, <1>1, <2>3, <3>1, <3>2 DEF Protocolo, EnCamino
    <3>4. p = q
      BY <1>2, <3>3 DEF EsContexto
    <3>5. aKernel' = x
      BY <1>4, <3>3
    <3>6. Respuesta(x, p)'
      BY <1>0, <1>4 DEF Respuesta
    <3>7. EnCamino(q)'
      BY <1>0, <1>4, <3>3, <3>4, <3>5, <3>6 DEF EnCamino
    <3> QED
      BY <1>0, <3>1, <3>2, <3>7 DEF Protocolo
  <2>4. ASSUME NEW q \in Procesos, Sobra(q)
        PROVE  Sobra(q)'
    BY <1>0, <2>2, <2>4 DEF Sobra
  <2> QED
    BY <1>0, <2>1, <2>2, <2>3, <2>4, CpuQuietaBasta DEF ModuloCpu, Inv, Tipos
<1> QED
  BY <1>0, <1>1, <1>2, <1>3, <1>4, Ejecuta

-----------------------------------------------------------------------------
(* The kernel.                                                             *)

\* A pcb that takes a program counter and registers is still a pcb.
LEMMA PcbCambia ==
    ASSUME Tipos, NEW p \in Procesos, NEW n \in Nat \ {0}, NEW regs,
           ValoresDe(regs),
           pcb' = [pcb EXCEPT ![p] = [pc |-> n, registros |-> regs]]
    PROVE  /\ DOMAIN pcb' = Procesos
           /\ \A q \in Procesos : \E c \in {pcb'[q]} : EsPcb(c)
           /\ pcb'[p].pc = n
           /\ \A q \in Procesos \ {p} : pcb'[q] = pcb[q]
<1>1. PICK c : c = [pc |-> n, registros |-> regs]
  OBVIOUS
<1>2. EsPcb(c)
  BY <1>1 DEF EsPcb, Avance
<1>3. /\ DOMAIN pcb' = Procesos /\ pcb'[p] = c
      /\ \A q \in Procesos \ {p} : pcb'[q] = pcb[q]
  BY <1>1 DEF Tipos
<1> QED
  BY <1>1, <1>2, <1>3 DEF Tipos

\* A pcb that advances is still a pcb.
LEMMA PcbAvanza ==
    ASSUME Tipos, NEW p \in Procesos, pcb' = Avanzado(pcb, p)
    PROVE  /\ DOMAIN pcb' = Procesos
           /\ \A q \in Procesos : \E c \in {pcb'[q]} : EsPcb(c)
           /\ \A q \in Procesos \ {p} : pcb'[q] = pcb[q]
<1>1. PICK c : c = pcb[p] /\ EsPcb(c)
  BY DEF Tipos
<1>2. PICK n, regs : c = [pc |-> n, registros |-> regs]
  BY <1>1 DEF EsPcb
<1>3. n \in Nat \ {0} /\ ValoresDe(regs)
  BY <1>1, <1>2 DEF EsPcb, Avance
<1>4. PICK k \in Nat \ {0} : k = n + 1
  BY <1>3
<1>5. [c EXCEPT !.pc = k] = [pc |-> k, registros |-> regs]
  BY <1>2
<1>6. pcb' = [pcb EXCEPT ![p] = [c EXCEPT !.pc = k]]
  <2>1. pcb[p].pc = n
    BY <1>1, <1>2
  <2> QED
    BY <1>1, <1>4, <2>1 DEF Avanzado, Tipos
<1>7. pcb' = [pcb EXCEPT ![p] = [pc |-> k, registros |-> regs]]
  BY <1>5, <1>6
<1> QED
  BY <1>3, <1>7, PcbCambia

\* The program counter and the registers that came back, and one more when
\* the kernel has done what the instruction asked for.
LEMMA PcbRecibe ==
    ASSUME Tipos, NEW p \in Procesos, p = actual, NEW m, Avance(m),
           \/ pcb' = Recibido(m)
           \/ pcb' = Avanzado(Recibido(m), actual)
    PROVE  /\ DOMAIN pcb' = Procesos
           /\ \A q \in Procesos : \E c \in {pcb'[q]} : EsPcb(c)
           /\ \A q \in Procesos \ {p} : pcb'[q] = pcb[q]
           /\ pcb' = Recibido(m) => pcb'[p].pc = m.pc
<1>1. PICK n, regs : n = m.pc /\ regs = m.registros
  OBVIOUS
<1>2. n \in Nat \ {0} /\ ValoresDe(regs)
  BY <1>1 DEF Avance
<1>3. Recibido(m) = [pcb EXCEPT ![p] = [pc |-> n, registros |-> regs]]
  BY <1>1 DEF Recibido
<1>4. CASE pcb' = Recibido(m)
  BY <1>1, <1>2, <1>3, <1>4, PcbCambia
<1>5. CASE pcb' = Avanzado(Recibido(m), actual) /\ pcb' # Recibido(m)
  <2>1. PICK k \in Nat \ {0} : k = n + 1
    BY <1>2
  <2>2. PICK r : r = [pc |-> n, registros |-> regs]
    OBVIOUS
  <2>3. [r EXCEPT !.pc = k] = [pc |-> k, registros |-> regs] /\ r.pc = n
    BY <2>2
  <2>4. PICK P : P = Recibido(m)
    OBVIOUS
  <2>5. P = [pcb EXCEPT ![p] = r] /\ p \in DOMAIN pcb
    BY <1>3, <2>2, <2>4 DEF Tipos
  <2>6. P[p] = r
    BY <2>5
  <2>7. pcb' = [P EXCEPT ![p] = [r EXCEPT !.pc = k]]
    BY <1>5, <2>1, <2>3, <2>4, <2>5, <2>6 DEF Avanzado
  <2>8. pcb' = [pcb EXCEPT ![p] = [r EXCEPT !.pc = k]]
    BY <2>5, <2>7
  <2>9. pcb' = [pcb EXCEPT ![p] = [pc |-> k, registros |-> regs]]
    BY <2>3, <2>8
  <2> QED
    BY <1>2, <1>5, <2>9, PcbCambia
<1> QED
  BY <1>4, <1>5

\* A process that is not ready is put in the list once.
LEMMA Encola ==
    ASSUME Tipos, UnLugar, NEW p \in Procesos, ~ Listo(p),
           listos' = Append(listos, p)
    PROVE  /\ listos' \in Seq(Procesos)
           /\ \A i, j \in DOMAIN listos' : listos'[i] = listos'[j] => i = j
           /\ \A q : Listo(q)' <=> Listo(q) \/ q = p
<1> DEFINE n == Len(listos)
<1>1. /\ listos' \in Seq(Procesos) /\ n \in Nat /\ DOMAIN listos = 1..n
      /\ DOMAIN listos' = 1..(n + 1) /\ listos'[n + 1] = p
      /\ \A i \in 1..n : listos'[i] = listos[i]
  BY DEF Tipos
<1> HIDE DEF n
<1>2. \A i \in 1..n : listos[i] # p
  BY <1>1 DEF Listo
<1>3. ASSUME NEW i \in DOMAIN listos', NEW j \in DOMAIN listos',
             listos'[i] = listos'[j]
      PROVE  i = j
  <2>1. \A k \in DOMAIN listos' : k \in 1..n \/ k = n + 1
    BY <1>1
  <2> QED
    BY <1>1, <1>2, <1>3, <2>1 DEF UnLugar
<1>4. \A q : Listo(q)' <=> \E i \in DOMAIN listos' : listos'[i] = q
  BY DEF Listo
<1>5. \A q : (\E i \in DOMAIN listos' : listos'[i] = q) <=> Listo(q) \/ q = p
  <2>1. \A k : k \in DOMAIN listos' <=> k \in 1..n \/ k = n + 1
    BY <1>1
  <2> QED
    BY <1>1, <2>1 DEF Listo
<1> QED
  BY <1>1, <1>3, <1>4, <1>5

\* The first of the list leaves it.
LEMMA Desencola ==
    ASSUME Tipos, UnLugar, listos # <<>>, listos' = Tail(listos)
    PROVE  /\ listos' \in Seq(Procesos)
           /\ Head(listos) = listos[1]
           /\ listos[1] \in Procesos /\ Listo(listos[1])
           /\ \A i, j \in DOMAIN listos' : listos'[i] = listos'[j] => i = j
           /\ \A q : Listo(q)' <=> Listo(q) /\ q # listos[1]
<1> DEFINE n == Len(listos)
<1>1. /\ listos' \in Seq(Procesos) /\ n \in Nat \ {0}
      /\ DOMAIN listos = 1..n /\ DOMAIN listos' = 1..(n - 1)
      /\ listos[1] \in Procesos /\ Head(listos) = listos[1]
      /\ \A i \in 1..(n - 1) : listos'[i] = listos[i + 1]
  BY DEF Tipos
<1> HIDE DEF n
<1>2. Listo(listos[1])
  BY <1>1 DEF Listo
<1>3. ASSUME NEW i \in DOMAIN listos', NEW j \in DOMAIN listos',
             listos'[i] = listos'[j]
      PROVE  i = j
  <2>1. /\ i + 1 \in DOMAIN listos /\ j + 1 \in DOMAIN listos
        /\ listos[i + 1] = listos[j + 1] /\ i \in Int /\ j \in Int
    BY <1>1, <1>3
  <2>2. i + 1 = j + 1
    BY <2>1 DEF UnLugar
  <2> QED
    BY <2>1, <2>2
<1>4. \A q : Listo(q)' <=> \E i \in DOMAIN listos' : listos'[i] = q
  BY DEF Listo
<1>5. ASSUME NEW i \in DOMAIN listos'
      PROVE  Listo(listos'[i]) /\ listos'[i] # listos[1]
  <2>1. i + 1 \in DOMAIN listos /\ i + 1 # 1 /\ 1 \in DOMAIN listos
        /\ listos'[i] = listos[i + 1]
    BY <1>1
  <2> QED
    BY <2>1 DEF UnLugar, Listo
<1>6. ASSUME NEW i \in DOMAIN listos, listos[i] # listos[1]
      PROVE  \E j \in DOMAIN listos' : listos'[j] = listos[i]
  <2>1. i - 1 \in DOMAIN listos' /\ listos'[i - 1] = listos[i]
    BY <1>1, <1>6
  <2> QED
    BY <2>1
<1> QED
  BY <1>1, <1>2, <1>3, <1>4, <1>5, <1>6 DEF Listo

\* What a step that sends and receives nothing has to show.
LEMMA PasoElige ==
    ASSUME Inv, ~ mezclado, KernelElige
    PROVE  Inv'
<1>0. Tipos /\ UnLugar /\ Contextos
  BY DEF Inv
<1>1. /\ listos' \in Seq(Procesos) /\ actual' = listos[1]
      /\ listos[1] \in Procesos /\ Listo(listos[1])
      /\ \A i, j \in DOMAIN listos' : listos'[i] = listos'[j] => i = j
      /\ \A q : Listo(q)' <=> Listo(q) /\ q # listos[1]
      /\ hilo = "libre" /\ hilo' = "envia"
      /\ UNCHANGED <<programa, pcb, motivo, direccion_fisica, fs, mezclado,
                     aCpu, aKernel, contexto, espacio>>
  BY <1>0, Desencola DEF KernelElige
<1>2. Tipos' /\ Contextos'
  BY <1>0, <1>1 DEF Tipos, Contextos
<1>3. UnLugar'
  BY <1>0, <1>1, ProcesosAssumption DEF UnLugar
<1>4. Protocolo => Protocolo'
  BY <1>1 DEF Protocolo
<1>5. \A p \in Procesos : Sobra(p) => Sobra(p)'
  BY <1>1 DEF Sobra, Fallo
<1> QED
  BY <1>1, <1>2, <1>3, <1>4, <1>5 DEF Inv

\* The context of pcb_en_ejecucion is the only one under way.
LEMMA PasoEnvia ==
    ASSUME Inv, ~ mezclado, KernelEnvia
    PROVE  Inv'
<1>0. Tipos /\ UnLugar /\ Contextos
  BY DEF Inv
<1>1. /\ hilo = "envia" /\ hilo' = "espera"
      /\ UNCHANGED <<programa, pcb, motivo, listos, actual, direccion_fisica,
                     fs, mezclado, aKernel, contexto, espacio>>
  BY DEF KernelEnvia
<1>2. PICK p \in Procesos : p = actual
  BY <1>0, <1>1 DEF UnLugar, Tipos
<1>3. PICK c : c = ContextoDe(p)
  OBVIOUS
<1>4. EsContexto(c, p)
  <2>1. PICK b : b = pcb[p] /\ EsPcb(b)
    BY <1>0 DEF Tipos
  <2>2. c = [pid |-> p, pc |-> b.pc, registros |-> b.registros]
    BY <1>3, <2>1 DEF ContextoDe
  <2>3. Avance(b)
    BY <2>1 DEF EsPcb
  <2> QED
    BY <2>2, <2>3 DEF EsContexto, Avance
<1>5. aCpu' = Append(aCpu, c)
  BY <1>2, <1>3 DEF KernelEnvia
<1>6. /\ aCpu' \in Seq(Range(aCpu')) /\ aCpu' = aCpu \o <<c>>
      /\ Len(aCpu) \in Nat /\ DOMAIN aCpu' = 1..(Len(aCpu) + 1)
      /\ DOMAIN aCpu = 1..Len(aCpu)
      /\ \A i \in 1..Len(aCpu) : aCpu'[i] = aCpu[i]
      /\ aCpu'[Len(aCpu) + 1] = c
  <2>1. PICK s : s = aCpu
    OBVIOUS
  <2>2. /\ Append(s, c) \in Seq(Range(Append(s, c)))
        /\ Append(s, c) = s \o <<c>>
        /\ Len(s) \in Nat
        /\ DOMAIN Append(s, c) = 1..(Len(s) + 1)
        /\ \A i \in 1..Len(s) : Append(s, c)[i] = s[i]
        /\ Append(s, c)[Len(s) + 1] = c
    BY <1>0, <2>1, Apilada DEF Tipos
  <2>3. DOMAIN aCpu = 1..Len(aCpu)
    BY <1>0 DEF Tipos
  <2> QED
    BY <1>5, <2>1, <2>2, <2>3
<1>7. \A x \in Range(aCpu') : x \in Range(aCpu) \/ x = c
  <2>1. \A k \in DOMAIN aCpu' : k \in DOMAIN aCpu \/ k = Len(aCpu) + 1
    BY <1>6
  <2> QED
    BY <1>6, <2>1 DEF Range
<1>8. Tipos' /\ Contextos'
  BY <1>0, <1>1, <1>4, <1>6, <1>7 DEF Tipos, Contextos
<1>9. UnLugar'
  <2>1. \A q : Listo(q)' <=> Listo(q)
    BY <1>1 DEF Listo
  <2> QED
    BY <1>0, <1>1, <2>1 DEF UnLugar
<1>10. ASSUME Protocolo
       PROVE  Protocolo'
  <2>1. aCpu = <<>> /\ contexto = Nulo /\ aKernel = <<>>
    BY <1>1, <1>10 DEF Protocolo
  <2>2. aCpu' = <<c>>
    BY <1>6, <2>1
  <2>3. c \in Range(aCpu')
    BY <1>6, <2>1 DEF Range
  <2>4. EnCamino(p)'
    BY <1>1, <1>4, <2>1, <2>2, <2>3 DEF EnCamino
  <2> QED
    BY <1>1, <1>2, <2>4 DEF Protocolo
<1>11. \A q \in Procesos : Sobra(q) => Sobra(q)'
  BY <1>1 DEF Sobra, Fallo
<1> QED
  BY <1>1, <1>8, <1>9, <1>10, <1>11 DEF Inv

\* The kernel receives a context: that of the process it waits for, or the
\* one that was left over.
LEMMA PasoRecibe ==
    ASSUME Inv, ~ mezclado, KernelRecibe
    PROVE  Inv'
<1>0. /\ Tipos /\ UnLugar /\ Contextos
      /\ Protocolo \/ \E q \in Procesos : Sobra(q)
  BY DEF Inv
<1>1. /\ hilo = "espera" /\ aKernel # <<>> /\ aKernel' = Tail(aKernel)
      /\ UNCHANGED <<programa, direccion_fisica, fs, aCpu, contexto, espacio>>
  BY DEF KernelRecibe
<1>2. PICK x : x = aKernel
  OBVIOUS
<1>3. PICK m : m = x[1]
  OBVIOUS
<1>4. PICK y : y = Tail(x)
  OBVIOUS
<1>5. /\ aKernel' = y /\ y \in Seq(Range(y)) /\ Head(x) = m
      /\ Len(x) \in Nat \ {0} /\ Len(y) = Len(x) - 1
      /\ \A i \in 1..(Len(x) - 1) : y[i] = x[i + 1]
      /\ Len(x) = 1 => y = <<>>
  <2>1. x \in Seq(Range(x)) /\ x # <<>>
    BY <1>0, <1>1, <1>2 DEF Tipos
  <2> QED
    BY <1>1, <1>2, <1>3, <1>4, <2>1, Desapilada
<1>6. /\ Continua(m) \/ Cede(m) \/ PideArchivo(m) \/ Termina(m)
      /\ mezclado' = (m.pid # actual)
  BY <1>2, <1>5 DEF KernelRecibe
<1>7. PICK p \in Procesos : p = actual
  BY <1>0, <1>1 DEF UnLugar, Tipos
<1>8. /\ ~ Listo(p) /\ p # fs /\ motivo[p] = Nulo
  BY <1>0, <1>7 DEF UnLugar
<1>9. Contextos'
  BY <1>0, <1>1 DEF Contextos
<1>10. Avance(m)
  <2>1. CASE Protocolo
    <3>1. Respuesta(x, p)
      BY <1>1, <1>2, <1>7, <2>1 DEF Protocolo, EnCamino
    <3> QED
      BY <1>3, <3>1 DEF Respuesta, EsParcial
  <2>2. CASE \E q \in Procesos : Sobra(q)
    BY <1>2, <1>3, <2>2 DEF Sobra, EsParcial
  <2> QED
    BY <1>0, <2>1, <2>2
<1>11. /\ DOMAIN pcb' = Procesos
       /\ \A q \in Procesos : \E c \in {pcb'[q]} : EsPcb(c)
       /\ \A q \in Procesos \ {p} : pcb'[q] = pcb[q]
       /\ pcb' = Recibido(m) => pcb'[p].pc = m.pc
  <2>1. pcb' = Recibido(m) \/ pcb' = Avanzado(Recibido(m), actual)
    BY <1>6 DEF Continua, Cede, PideArchivo, Termina
  <2> QED
    BY <1>0, <1>7, <1>10, <2>1, PcbRecibe
<1>12. /\ \A q \in Procesos \ {p} : motivo'[q] = motivo[q]
       /\ motivo' \in [Procesos -> {Nulo, "EXIT", "SEG_FAULT"}]
       /\ motivo' = motivo \/ (motivo'[p] = m.motivo /\ actual' = Nulo)
  BY <1>0, <1>6, <1>7 DEF Continua, Cede, PideArchivo, Termina, Tipos
<1>13. /\ listos' \in Seq(Procesos)
       /\ \A i, j \in DOMAIN listos' : listos'[i] = listos'[j] => i = j
       /\ \/ \A q : Listo(q)' <=> Listo(q)
          \/ /\ actual' = Nulo /\ motivo' = motivo
             /\ \A q : Listo(q)' <=> Listo(q) \/ q = p
  <2>1. CASE Cede(m)
    BY <1>0, <1>7, <1>8, <2>1, Encola DEF Cede
  <2>2. CASE UNCHANGED listos
    BY <1>0, <2>2 DEF Tipos, UnLugar, Listo
  <2> QED
    BY <1>6, <2>1, <2>2 DEF Continua, PideArchivo, Termina
<1>14. /\ actual' \in {actual, Nulo}
       /\ hilo' \in {"libre", "envia", "espera_direccion"}
       /\ hilo' = "libre" <=> actual' = Nulo
  BY <1>6, <1>7, ProcesosAssumption
     DEF Continua, Cede, PideArchivo, Termina
<1>15. Tipos'
  BY <1>0, <1>1, <1>5, <1>6, <1>11, <1>12, <1>13, <1>14 DEF Tipos
<1>16. UnLugar'
  <2>1. ASSUME NEW q \in Procesos
        PROVE  /\ q = actual' => ~ Listo(q)' /\ q # fs'
               /\ q = fs' => ~ Listo(q)'
               /\ q = actual' \/ q = fs' \/ Listo(q)' => motivo'[q] = Nulo
    <3>1. /\ q = actual => ~ Listo(q) /\ q # fs
          /\ q = fs => ~ Listo(q)
          /\ q = actual \/ q = fs \/ Listo(q) => motivo[q] = Nulo
      BY <1>0 DEF UnLugar
    <3>2. actual' # Nulo => actual' = p /\ motivo' = motivo
      BY <1>7, <1>12, <1>14
    <3> QED
      BY <1>1, <1>7, <1>8, <1>12, <1>13, <3>1, <3>2, ProcesosAssumption
  <2> QED
    BY <1>13, <1>14, <2>1 DEF UnLugar
<1>17. CASE Protocolo
  <2>1. aCpu = <<>> /\ contexto = Nulo /\ Respuesta(x, p)
    BY <1>1, <1>2, <1>7, <1>17 DEF Protocolo, EnCamino
  <2>2. ~ mezclado'
    BY <1>3, <1>6, <1>7, <2>1 DEF Respuesta, EsParcial
  <2>3. CASE Len(x) = 1 /\ m.motivo \notin DeFs
    <3>1. aKernel' = <<>>
      BY <1>5, <2>3
    <3>2. hilo' \in {"libre", "envia"}
      BY <1>6, <2>3 DEF Continua, Cede, PideArchivo, Termina, DeFs
    <3>3. Protocolo'
      BY <1>1, <2>1, <3>1, <3>2 DEF Protocolo
    <3> QED
      BY <1>9, <1>15, <1>16, <2>2, <3>3 DEF Inv
  <2>4. CASE Len(x) = 2 /\ m.motivo \in DeFs /\ EsDireccion(x[2])
    <3>1. Len(y) = 1 /\ y[1] = x[2]
      BY <1>5, <2>4
    <3>2. hilo' = "espera_direccion"
      BY <1>6, <2>4 DEF Continua, Cede, PideArchivo, Termina, DeFs
    <3>3. Protocolo'
      BY <1>1, <1>5, <2>1, <2>4, <3>1, <3>2 DEF Protocolo
    <3> QED
      BY <1>9, <1>15, <1>16, <2>2, <3>3 DEF Inv
  <2>5. CASE /\ Len(x) = 3 /\ m.motivo = "SEG_FAULT"
             /\ programa[p][m.pc].op \in DeFs
             /\ EsParcial(x[2], p) /\ x[2].motivo \in DeFs
    <3>1. Len(y) > 0 /\ y[1] = x[2]
      BY <1>5, <2>5
    <3>2. /\ hilo' = "libre" /\ motivo' = [motivo EXCEPT ![p] = "SEG_FAULT"]
          /\ pcb' = Recibido(m)
      BY <1>6, <1>7, <2>5 DEF Continua, Cede, PideArchivo, Termina
    <3>3. motivo'[p] = "SEG_FAULT"
      BY <1>0, <3>2 DEF Tipos
    <3>4. Fallo(p)'
      BY <1>1, <1>11, <2>5, <3>2, <3>3 DEF Fallo
    <3>5. Sobra(p)'
      BY <1>5, <2>5, <3>1, <3>2, <3>4 DEF Sobra
    <3> QED
      BY <1>9, <1>15, <1>16, <2>2, <3>5 DEF Inv
  <2> QED
    BY <1>3, <2>1, <2>3, <2>4, <2>5 DEF Respuesta
<1>18. ASSUME NEW q \in Procesos, Sobra(q)
       PROVE  Inv'
  <2>1. Fallo(q) /\ q # p
    BY <1>8, <1>18, ProcesosAssumption DEF Sobra, Fallo
  <2>2. m.pid = q
    BY <1>2, <1>3, <1>18 DEF Sobra, EsParcial
  <2>3. mezclado'
    BY <1>6, <1>7, <2>1, <2>2
  <2>4. Fallo(q)'
    BY <1>1, <1>11, <1>12, <2>1 DEF Fallo
  <2> QED
    BY <1>9, <1>15, <1>16, <2>3, <2>4 DEF Inv
<1> QED
  BY <1>0, <1>17, <1>18

\* After the context of F_READ or F_WRITE comes its address.
LEMMA PasoRecibeDireccion ==
    ASSUME Inv, ~ mezclado, KernelRecibeDireccion
    PROVE  Inv'
<1>0. Tipos /\ UnLugar /\ Contextos
  BY DEF Inv
<1>1. /\ hilo = "espera_direccion" /\ hilo' = "espera_fs"
      /\ aKernel # <<>> /\ aKernel' = Tail(aKernel)
      /\ direccion_fisica' = Head(aKernel).direccion
      /\ UNCHANGED <<programa, pcb, motivo, listos, actual, fs, mezclado,
                     aCpu, contexto, espacio>>
  BY DEF KernelRecibeDireccion
<1>2. Protocolo
  BY <1>1 DEF Inv, Sobra
<1>3. PICK x : x = aKernel /\ Len(x) = 1 /\ EsDireccion(x[1])
  BY <1>1, <1>2 DEF Protocolo
<1>4. /\ aKernel' = <<>> /\ Head(x) = x[1]
      /\ aKernel' \in Seq(Range(aKernel'))
  <2>1. x \in Seq(Range(x)) /\ x # <<>>
    BY <1>0, <1>1, <1>3 DEF Tipos
  <2> QED
    BY <1>1, <1>3, <2>1, Desapilada
<1>5. direccion_fisica' \in Celdas \cup {SinDireccion}
  BY <1>1, <1>3, <1>4 DEF EsDireccion
<1>6. Tipos' /\ Contextos'
  BY <1>0, <1>1, <1>4, <1>5 DEF Tipos, Contextos
<1>7. UnLugar'
  <2>1. \A q : Listo(q)' <=> Listo(q)
    BY <1>1 DEF Listo
  <2> QED
    BY <1>0, <1>1, <2>1 DEF UnLugar
<1>8. Protocolo'
  BY <1>1, <1>2, <1>4 DEF Protocolo
<1> QED
  BY <1>1, <1>6, <1>7, <1>8 DEF Inv

\* The file thread takes the process from the CPU thread.
LEMMA PasoFsToma ==
    ASSUME Inv, ~ mezclado, FsToma
    PROVE  Inv'
<1>0. Tipos /\ UnLugar /\ Contextos
  BY DEF Inv
<1>1. /\ hilo = "espera_fs" /\ hilo' = "libre" /\ fs = Nulo /\ fs' = actual
      /\ actual' = Nulo
      /\ UNCHANGED <<programa, pcb, motivo, listos, direccion_fisica,
                     mezclado, aCpu, aKernel, contexto, espacio>>
  BY DEF FsToma
<1>2. Tipos' /\ Contextos'
  BY <1>0, <1>1 DEF Tipos, Contextos
<1>3. UnLugar'
  <2>1. \A q : Listo(q)' <=> Listo(q)
    BY <1>1 DEF Listo
  <2> QED
    BY <1>0, <1>1, <2>1, ProcesosAssumption DEF UnLugar
<1>4. Protocolo'
  BY <1>1 DEF Inv, Sobra, Protocolo
<1> QED
  BY <1>1, <1>2, <1>3, <1>4 DEF Inv

\* The operation ends and its process is ready again, past it.
LEMMA PasoFsTermina ==
    ASSUME Inv, ~ mezclado, FsTermina
    PROVE  Inv'
<1>0. Tipos /\ UnLugar /\ Contextos
  BY DEF Inv
<1>1. /\ fs # Nulo /\ fs' = Nulo
      /\ pcb' = Avanzado(pcb, fs) /\ listos' = Append(listos, fs)
      /\ UNCHANGED <<programa, motivo, actual, hilo, direccion_fisica,
                     mezclado, aCpu, aKernel, contexto>>
      /\ DOMAIN espacio' = Celdas
  BY <1>0 DEF FsTermina, Escribir, Tipos
<1>2. PICK p \in Procesos : p = fs
  BY <1>0, <1>1 DEF Tipos
<1>3. ~ Listo(p) /\ p # actual /\ motivo[p] = Nulo
  BY <1>0, <1>2 DEF UnLugar
<1>4. /\ listos' \in Seq(Procesos)
      /\ \A i, j \in DOMAIN listos' : listos'[i] = listos'[j] => i = j
      /\ \A q : Listo(q)' <=> Listo(q) \/ q = p
  BY <1>0, <1>1, <1>2, <1>3, Encola
<1>5. /\ DOMAIN pcb' = Procesos
      /\ \A q \in Procesos : \E c \in {pcb'[q]} : EsPcb(c)
      /\ \A q \in Procesos \ {p} : pcb'[q] = pcb[q]
  BY <1>0, <1>1, <1>2, PcbAvanza
<1>6. Tipos' /\ Contextos'
  BY <1>0, <1>1, <1>4, <1>5 DEF Tipos, Contextos
<1>7. UnLugar'
  BY <1>0, <1>1, <1>2, <1>3, <1>4, ProcesosAssumption DEF UnLugar
<1>8. Protocolo => Protocolo'
  <2>1. \A q : EnCamino(q)' <=> EnCamino(q)
    BY <1>1 DEF EnCamino, Respuesta
  <2> QED
    BY <1>1, <2>1 DEF Protocolo
<1>9. ASSUME NEW q \in Procesos, Sobra(q)
      PROVE  Sobra(q)'
  <2>1. q # p
    BY <1>3, <1>9, ProcesosAssumption DEF Sobra, Fallo
  <2>2. Fallo(q)'
    BY <1>1, <1>5, <1>9, <2>1 DEF Sobra, Fallo
  <2> QED
    BY <1>1, <1>9, <2>2 DEF Sobra
<1> QED
  BY <1>1, <1>6, <1>7, <1>8, <1>9 DEF Inv

-----------------------------------------------------------------------------
\* Every step keeps the invariant.
LEMMA InvNext == Inv /\ [Next]_vars => Inv'
<1> SUFFICES ASSUME Inv, [Next]_vars
             PROVE  Inv'
  OBVIOUS
<1>1. ASSUME Next
      PROVE  Inv'
  <2>1. ~ mezclado
    BY <1>1 DEF Next
  <2> QED
    BY <1>1, <2>1, PasoCpuRecibe, PasoCpuSinInstrucciones, PasoCpuEjecuta,
       PasoElige, PasoEnvia, PasoRecibe, PasoRecibeDireccion, PasoFsToma,
       PasoFsTermina
       DEF Next, ModuloCpu, HiloCpu, HiloFs
<1>2. CASE UNCHANGED vars
  <2>1. Tipos' /\ Contextos'
    BY <1>2 DEF Inv, Tipos, Contextos, vars, kernel
  <2>2. UnLugar'
    BY <1>2 DEF Inv, UnLugar, Listo, vars, kernel
  <2>3. \A q : (EnCamino(q)' <=> EnCamino(q)) /\ (Fallo(q)' <=> Fallo(q))
    BY <1>2 DEF EnCamino, Respuesta, Fallo, vars, kernel
  <2>4. Protocolo' <=> Protocolo
    BY <1>2, <2>3 DEF Protocolo, vars, kernel
  <2>5. \A q : Sobra(q)' <=> Sobra(q)
    BY <1>2, <2>3 DEF Sobra, vars, kernel
  <2> QED
    BY <1>2, <2>1, <2>2, <2>3, <2>4, <2>5 DEF Inv, vars, kernel
<1> QED
  BY <1>1, <1>2

\* In every state the socket holds the contexts of the protocol, and the
\* first that is stored in another pcb stops it.
THEOREM SpecInv == Spec => []Inv
  BY InvInit, InvNext, PTL DEF Spec

\* Every variable keeps its type; a register, whatever it receives, keeps its
\* width (instruccion_set and MOV_IN copy the bytes of the register).
THEOREM TipoCorrecto == Spec => []TypeOK
<1>1. Inv => TypeOK
  <2> SUFFICES ASSUME Inv
               PROVE  TypeOK
    OBVIOUS
  <2>1. Tipos /\ Contextos
    BY DEF Inv
  <2>2. \A p \in Procesos :
           pcb[p].pc \in Nat \ {0} /\ ValoresDe(pcb[p].registros)
    BY <2>1 DEF Tipos, EsPcb, Avance
  <2>3. \A k \in DOMAIN aCpu : ValoresDe(aCpu[k].registros)
    BY <2>1 DEF Contextos, EsContexto, Avance, Range
  <2>4. contexto # Nulo => ValoresDe(contexto.registros)
    BY <2>1 DEF Contextos, EsContexto, Avance
  <2> QED
    BY <2>1, <2>2, <2>3, <2>4 DEF Tipos, TypeOK
<1> QED
  BY <1>1, SpecInv, PTL

\* A context is stored in the pcb it belongs to, until a file instruction has
\* faulted: only that sends two contexts for one.
THEOREM ContextoEnSuPcb == Spec => []ContextoPropio
<1>1. Inv => ContextoPropio
  BY DEF Inv, ContextoPropio, Fallo, DeFs
<1> QED
  BY <1>1, SpecInv, PTL

\* The cells that the CPU writes are of a segment of the process it executes.
EscribeEnLoSuyo ==
    CpuEjecuta => \A d \in Celdas : espacio'[d] # espacio[d] =>
        \E s \in Tablas[contexto.pid] : s.base <= d /\ d < s.base + s.tamanio
\* MOV_OUT writes as many cells as the MMU was asked for, so that no process
\* touches the memory of another, whatever its program does.
THEOREM MemoriaAjenaIntacta == Spec => [][EscribeEnLoSuyo]_vars
<1>1. ASSUME Inv
      PROVE  EscribeEnLoSuyo
  <2> SUFFICES ASSUME CpuEjecuta, NEW d \in Celdas, espacio'[d] # espacio[d]
               PROVE  \E s \in Tablas[contexto.pid] :
                         s.base <= d /\ d < s.base + s.tamanio
    BY DEF EscribeEnLoSuyo
  <2>1. Tipos /\ Contextos /\ contexto # Nulo
    BY <1>1 DEF Inv, CpuEjecuta
  <2>0. PICK p \in Procesos : EsContexto(contexto, p)
    BY <2>1 DEF Contextos
  <2>2. PICK c : c = contexto /\ EsContexto(c, p)
    BY <2>0
  <2>3. /\ contexto.pid = p /\ c.pc \in Nat \ {0}
        /\ Fetch = programa[p][c.pc] /\ Prog = programa[p]
        /\ ValoresDe(c.registros)
    BY <2>2 DEF EsContexto, Avance, Fetch, Prog
  <2>4. /\ Fetch.op = "MOV_OUT" /\ Traducida # SinDireccion
        /\ Escribir(Traducida, ValorDe(Fetch.reg))
    BY DEF CpuEjecuta, InstruccionSet, MovIn, MovOut, DeArchivo, DelKernel
  <2>5. Instruccion(Fetch)
    <3>1. /\ programa[p] \in Seq(Range(programa[p]))
          /\ \A k \in DOMAIN programa[p] : Instruccion(programa[p][k])
      BY <2>1, ProgramasAssumption DEF Tipos
    <3>2. c.pc \in DOMAIN programa[p]
      BY <2>2, <2>3, <3>1 DEF CpuEjecuta
    <3> QED
      BY <2>3, <3>1, <3>2
  <2>6. /\ Fetch.dir \in Nat /\ Fetch.n \in Nat \ {0}
        /\ Fetch.reg \in Registros /\ Fetch.n = Bytes[Fetch.reg]
    BY <2>4, <2>5 DEF Instruccion, Registros
  <2>7. PICK n, t : (n = Fetch.n) /\ (t = Traducida)
    OBVIOUS
  <2>8. Len(ValorDe(Fetch.reg)) = n
    BY <2>2, <2>3, <2>6, <2>7 DEF ValorDe, ValoresDe
  <2>9. PICK s \in Tablas[p] :
           t \in Celdas /\ s.base <= t /\ t + n <= s.base + s.tamanio
    BY <2>3, <2>4, <2>6, <2>7, Traduce DEF Traducida
  <2>10. d \in t..(t + n - 1)
    BY <2>4, <2>7, <2>8 DEF Escribir
  <2>11. s.base \in Nat /\ s.tamanio \in Nat /\ n \in Nat
    BY <2>6, <2>7, <2>9, TablasAssumption
  <2>12. s.base <= d /\ d < s.base + s.tamanio
    BY <2>9, <2>10, <2>11 DEF Celdas
  <2> QED
    BY <2>3, <2>9, <2>12
<1>2. Inv /\ [Next]_vars => [EscribeEnLoSuyo]_vars
  BY <1>1
<1> QED
  BY <1>2, SpecInv, PTL DEF Spec
-----------------------------------------------------------------------------
(* A process by itself.  Its state after n instructions is defined by      *)
(* recursion on n.  That the recursion has a solution, and only one, is    *)
(* proved by induction, here on a set of numbers instead of a predicate.   *)

\* A set of naturals with 0 and the successor of each of its elements has all.
LEMMA Induccion ==
    ASSUME NEW S, 0 \in S, \A n \in Nat : n \in S => n + 1 \in S
    PROVE  \A n \in Nat : n \in S
<1> DEFINE T == {n \in Nat : n \notin S}
<1>1. SUFFICES ASSUME T # {}
               PROVE  FALSE
  OBVIOUS
<1>2. PICK R : R = {s \in Nat \X Nat : s[1] < s[2]}
  OBVIOUS
<1>3. IsWellFoundedOn(R, Nat)
  BY <1>2, NatLessThanWellFounded DEF OpToRel
<1>4. PICK x \in T : \A y \in T : ~ (<<y, x>> \in R)
  BY <1>1, <1>3, WFMin
<1>5. x # 0 /\ x \in Nat
  BY <1>4
<1>6. x - 1 \in Nat /\ <<x - 1, x>> \in R /\ (x - 1) + 1 = x
  BY <1>2, <1>5
<1>7. x - 1 \in S
  BY <1>4, <1>6
<1> QED
  BY <1>4, <1>6, <1>7

\* The reference executes one instruction more.
Inicial(p) ==
    [falla |-> FALSE, mem |-> [c \in Propias(p) |-> Cero],
     regs |-> [r \in Registros |-> [j \in 1..Bytes[r] |-> Cero]]]
LEMMA TrasRecursivo ==
    ASSUME NEW p, NEW prog
    PROVE  /\ Tras(p, prog, 0) = Inicial(p)
           /\ \A n \in Nat :
                 Tras(p, prog, n + 1) = Paso(p, Tras(p, prog, n), prog[n + 1])
<1> DEFINE Sigue(e, k) == Paso(p, e, prog[k])
           Regla(f, k) == IF k = 0 THEN Inicial(p) ELSE Sigue(f[k - 1], k)
           Cumple(n, f) == f = [k \in 0..n |-> Regla(f, k)]
           F(n) == CHOOSE f : Cumple(n, f)
<1>1. \A n : Tras(p, prog, n) = F(n)[n]
  BY DEF Tras, Inicial
<1> HIDE DEF Sigue
<1>2. \A n \in Nat : \E f : Cumple(n, f)
  <2> DEFINE S == {n \in Nat : \E f : Cumple(n, f)}
  <2>1. 0 \in S
    <3>1. Cumple(0, [k \in 0..0 |-> Inicial(p)])
      OBVIOUS
    <3> HIDE DEF Cumple
    <3> QED
      BY <3>1
  <2>2. ASSUME NEW n \in Nat, n \in S
        PROVE  n + 1 \in S
    <3>1. PICK f : Cumple(n, f)
      BY <2>2
    <3> DEFINE g == [k \in 0..(n + 1) |-> IF k <= n THEN f[k]
                                          ELSE Sigue(f[n], n + 1)]
    <3>2. ASSUME NEW k \in 0..(n + 1)
          PROVE  g[k] = Regla(g, k)
      <4>1. CASE k = 0
        BY <3>1, <4>1
      <4>2. CASE k # 0 /\ k <= n
        <5>1. k - 1 \in 0..n /\ k \in 0..n /\ k - 1 \in 0..(n + 1) /\ k - 1 <= n
          BY <4>2
        <5>2. g[k] = f[k] /\ g[k - 1] = f[k - 1]
          BY <4>2, <5>1
        <5>3. f[k] = Sigue(f[k - 1], k)
          BY <3>1, <4>2, <5>1
        <5> HIDE DEF g
        <5> QED
          BY <4>2, <5>2, <5>3
      <4>3. CASE k = n + 1
        <5>1. n \in 0..(n + 1) /\ n <= n /\ ~ (n + 1 <= n) /\ (n + 1) - 1 = n
              /\ n + 1 # 0 /\ n + 1 \in 0..(n + 1)
          OBVIOUS
        <5>2. g[n] = f[n] /\ g[n + 1] = Sigue(f[n], n + 1)
          BY <5>1
        <5> HIDE DEF g
        <5> QED
          BY <4>3, <5>1, <5>2
      <4> QED
        BY <4>1, <4>2, <4>3
    <3>3. g = [k \in 0..(n + 1) |-> Regla(g, k)]
      <4> HIDE DEF Regla
      <4> QED
        BY <3>2
    <3>4. Cumple(n + 1, g)
      BY <3>3
    <3> HIDE DEF Cumple, g
    <3> QED
      BY <3>4
  <2> HIDE DEF S
  <2>3. \A n \in Nat : n \in S
    BY <2>1, <2>2, Induccion
  <2> QED
    BY <2>3 DEF S
<1>3. \A n \in Nat : Cumple(n, F(n))
  <2> HIDE DEF Cumple
  <2> QED
    BY <1>2
<1>4. ASSUME NEW n \in Nat, NEW f, Cumple(n, f), NEW g, Cumple(n, g)
      PROVE  f = g
  <2> DEFINE S == {k \in Nat : k <= n => f[k] = g[k]}
  <2>1. 0 \in S
    BY <1>4
  <2>2. ASSUME NEW k \in Nat, k \in S
        PROVE  k + 1 \in S
    <3>1. CASE k + 1 <= n
      <4>1. k + 1 \in 0..n /\ k <= n /\ (k + 1) - 1 = k /\ k + 1 # 0
        BY <3>1
      <4>2. f[k + 1] = Sigue(f[k], k + 1) /\ g[k + 1] = Sigue(g[k], k + 1)
        BY <1>4, <4>1
      <4>3. f[k] = g[k]
        BY <2>2, <4>1
      <4> QED
        BY <4>2, <4>3
    <3> QED
      BY <3>1
  <2>3. \A k \in 0..n : f[k] = g[k]
    <3> HIDE DEF S
    <3>1. \A k \in Nat : k \in S
      BY <2>1, <2>2, Induccion
    <3> QED
      BY <3>1 DEF S
  <2>4. f = [k \in 0..n |-> f[k]] /\ g = [k \in 0..n |-> g[k]]
    BY <1>4
  <2> QED
    BY <2>3, <2>4
<1>5. Tras(p, prog, 0) = Inicial(p)
  <2>1. Cumple(0, F(0))
    BY <1>3
  <2> HIDE DEF F
  <2>2. F(0)[0] = Inicial(p)
    BY <2>1
  <2> QED
    BY <1>1, <2>2
<1>6. ASSUME NEW n \in Nat
      PROVE  Tras(p, prog, n + 1) = Sigue(Tras(p, prog, n), n + 1)
  <2>1. PICK f : f = F(n + 1)
    OBVIOUS
  <2>2. Cumple(n + 1, f)
    BY <1>3, <2>1
  <2> DEFINE h == [k \in 0..n |-> f[k]]
  <2>3. ASSUME NEW k \in 0..n
        PROVE  h[k] = Regla(h, k)
    <3>1. CASE k = 0
      BY <2>2, <3>1
    <3>2. CASE k # 0
      <4>1. k - 1 \in 0..n /\ k \in 0..(n + 1)
        BY <3>2
      <4>2. f[k] = Sigue(f[k - 1], k)
        BY <2>2, <3>2, <4>1
      <4>3. h[k] = f[k] /\ h[k - 1] = f[k - 1]
        BY <4>1
      <4> HIDE DEF h
      <4> QED
        BY <3>2, <4>2, <4>3
    <3> QED
      BY <3>1, <3>2
  <2>4. Cumple(n, h)
    <3> HIDE DEF Regla
    <3> QED
      BY <2>3
  <2>5. h = F(n)
    <3>1. Cumple(n, F(n))
      BY <1>3
    <3> HIDE DEF Cumple, F, h
    <3> QED
      BY <1>4, <2>4, <3>1
  <2>6. h[n] = f[n]
    OBVIOUS
  <2>7. f[n + 1] = Sigue(f[n], n + 1)
    <3>1. n + 1 \in 0..(n + 1) /\ n + 1 # 0 /\ (n + 1) - 1 = n
      OBVIOUS
    <3> QED
      BY <2>2, <3>1
  <2> HIDE DEF F, h
  <2> QED
    BY <1>1, <2>1, <2>5, <2>6, <2>7
<1> QED
  BY <1>5, <1>6 DEF Sigue

\* The reference keeps its three parts, and a fault is never forgotten.
Partes(p, e) ==
    \E f, m, r : /\ e = [falla |-> f, mem |-> m, regs |-> r]
                 /\ f \in BOOLEAN
                 /\ m = [c \in Propias(p) |-> m[c]]
                 /\ r = [x \in Registros |-> r[x]]
LEMMA PasoPartes ==
    ASSUME NEW p, NEW e, NEW i, Partes(p, e)
    PROVE  /\ Partes(p, Paso(p, e, i))
           /\ e.falla \/ Falla(p, i) => Paso(p, e, i).falla
<1>0. PICK f, m, r :
              /\ e = [falla |-> f, mem |-> m, regs |-> r]
              /\ f \in BOOLEAN
              /\ m = [c \in Propias(p) |-> m[c]]
              /\ r = [x \in Registros |-> r[x]]
  BY DEF Partes
<1>f. e.falla = f
  BY <1>0
<1>p. ASSUME NEW g \in BOOLEAN, NEW m2, NEW r2,
             Paso(p, e, i) = [falla |-> g, mem |-> m2, regs |-> r2],
             m2 = [c \in Propias(p) |-> m2[c]],
             r2 = [x \in Registros |-> r2[x]],
             f \/ Falla(p, i) => g
      PROVE  /\ Partes(p, Paso(p, e, i))
             /\ e.falla \/ Falla(p, i) => Paso(p, e, i).falla
  <2>1. PICK P : P = Paso(p, e, i)
    OBVIOUS
  <2>2. P = [falla |-> g, mem |-> m2, regs |-> r2]
    BY <1>p, <2>1
  <2>3. Partes(p, P)
    BY <1>p, <2>2, Zenon DEF Partes
  <2> QED
    BY <1>f, <1>p, <2>1, <2>2, <2>3
<1>1. CASE Falla(p, i)
  <2>1. Paso(p, e, i) = [falla |-> TRUE, mem |-> m, regs |-> r]
    BY <1>0, <1>1 DEF Paso
  <2> QED
    BY <1>0, <1>1, <1>p, <2>1
<1>2. CASE ~ Falla(p, i) /\ i.op = "SET"
  <2>1. PICK v : v = [k \in 1..Bytes[i.reg] |-> i.valor[k]]
    OBVIOUS
  <2>2. PICK r2 : r2 = [r EXCEPT ![i.reg] = v]
    OBVIOUS
  <2>3. Paso(p, e, i) = [e EXCEPT !.regs[i.reg] = v]
    BY <1>2, <2>1 DEF Paso
  <2>4. Paso(p, e, i) = [falla |-> f, mem |-> m, regs |-> r2]
    BY <1>0, <2>2, <2>3
  <2>5. r2 = [x \in Registros |-> r2[x]]
    BY <1>0, <2>2
  <2> QED
    BY <1>0, <1>2, <1>p, <2>4, <2>5
<1>3. CASE ~ Falla(p, i) /\ i.op = "MOV_IN"
  <2>1. PICK v : v = [k \in 1..i.n |-> e.mem[Logica(i.dir, k - 1)]]
    OBVIOUS
  <2>2. PICK r2 : r2 = [r EXCEPT ![i.reg] = v]
    OBVIOUS
  <2>3. Paso(p, e, i) = [e EXCEPT !.regs[i.reg] = v]
    BY <1>3, <2>1 DEF Paso
  <2>4. Paso(p, e, i) = [falla |-> f, mem |-> m, regs |-> r2]
    BY <1>0, <2>2, <2>3
  <2>5. r2 = [x \in Registros |-> r2[x]]
    BY <1>0, <2>2
  <2> QED
    BY <1>0, <1>3, <1>p, <2>4, <2>5
<1>4. CASE ~ Falla(p, i) /\ i.op \in {"MOV_OUT", "F_READ"}
  <2>1. PICK m2 : m2 = [c \in Propias(p) |->
                      IF c \notin Rango(i) THEN e.mem[c]
                      ELSE IF i.op = "F_READ" THEN DelArchivo
                      ELSE e.regs[i.reg][Desde(i, c)]]
    OBVIOUS
  <2>2. Paso(p, e, i) = [e EXCEPT !.mem = m2]
    BY <1>4, <2>1 DEF Paso
  <2>3. Paso(p, e, i) = [falla |-> f, mem |-> m2, regs |-> r]
    BY <1>0, <2>2
  <2>4. m2 = [c \in Propias(p) |-> m2[c]]
    BY <2>1
  <2> QED
    BY <1>0, <1>4, <1>p, <2>3, <2>4
<1>5. CASE /\ ~ Falla(p, i)
           /\ i.op \notin {"SET", "MOV_IN", "MOV_OUT", "F_READ"}
  <2>1. Paso(p, e, i) = e
    BY <1>5 DEF Paso
  <2> QED
    BY <1>0, <1>5, <1>p, <2>1
<1> QED
  BY <1>1, <1>2, <1>3, <1>4, <1>5
\* After any number of instructions too.
LEMMA TrasPartes ==
    ASSUME NEW p, NEW prog, NEW n \in Nat
    PROVE  Partes(p, Tras(p, prog, n))
<1> DEFINE S == {k \in Nat : Partes(p, Tras(p, prog, k))}
<1>1. 0 \in S
  <2>1. PICK m, r : /\ m = [c \in Propias(p) |-> Cero]
                    /\ r = [x \in Registros |-> [j \in 1..Bytes[x] |-> Cero]]
    OBVIOUS
  <2>2. Tras(p, prog, 0) = [falla |-> FALSE, mem |-> m, regs |-> r]
    BY <2>1, TrasRecursivo DEF Inicial
  <2>3. m = [c \in Propias(p) |-> m[c]] /\ r = [x \in Registros |-> r[x]]
    BY <2>1
  <2> QED
    BY <2>2, <2>3 DEF Partes
<1>2. ASSUME NEW k \in Nat, k \in S
      PROVE  k + 1 \in S
  <2>1. PICK e : e = Tras(p, prog, k)
    OBVIOUS
  <2>2. PICK i : i = prog[k + 1]
    OBVIOUS
  <2>3. Tras(p, prog, k + 1) = Paso(p, e, i)
    BY <2>1, <2>2, TrasRecursivo
  <2> QED
    BY <1>2, <2>1, <2>3, PasoPartes
<1> HIDE DEF S
<1>3. n \in S
  BY <1>1, <1>2, Induccion
<1> QED
  BY <1>3 DEF S

\* A process at program counter n with these registers and its segments in E
\* is where the reference is, or the reference has stopped at a fault.
Concuerda(p, prog, E, n, regs) ==
    LET e == Tras(p, prog, n - 1)
    IN  \/ e.falla
        \/ /\ regs = e.regs
           /\ \A s \in Tablas[p] : \A d \in 0..s.tamanio - 1 :
                 E[s.base + d] = e.mem[<<s.idSegmento, d>>]
\* E and G have the same in the segments of p.
MismosSegmentos(p, E, G) ==
    \A s \in Tablas[p] : \A d \in 0..s.tamanio - 1 :
        G[s.base + d] = E[s.base + d]

\* A process does not notice what happens outside its segments.
LEMMA OtraMemoria ==
    ASSUME NEW p, NEW prog, NEW E, NEW G, NEW n, NEW regs,
           Concuerda(p, prog, E, n, regs), MismosSegmentos(p, E, G)
    PROVE  Concuerda(p, prog, G, n, regs)
  BY DEF Concuerda, MismosSegmentos

-----------------------------------------------------------------------------
(* An instruction of p, by itself and as the CPU and the file system do it.*)

\* The first n cells of a value.
LEMMA Copiadas ==
    ASSUME NEW v, NEW n \in Nat \ {0}
    PROVE  SubSeq(v, 1, n) = [k \in 1..n |-> v[k]]
<1> DEFINE S == {v[k] : k \in 1..n}
<1>1. \A k \in 1..n : v[k] \in S
  OBVIOUS
<1> HIDE DEF S
<1>2. /\ SubSeq(v, 1, n) \in Seq(S) /\ Len(SubSeq(v, 1, n)) = n
      /\ \A k \in 1..n : SubSeq(v, 1, n)[k] = v[k]
  BY <1>1, SubSeqProperties
<1>3. PICK w : w = SubSeq(v, 1, n)
  OBVIOUS
<1>4. w \in [1..n -> S] /\ \A k \in 1..n : w[k] = v[k]
  BY <1>2, <1>3, LenProperties
<1> QED
  BY <1>3, <1>4

\* The reference, one instruction later.
LEMMA UnaMas ==
    ASSUME NEW p, NEW prog, NEW n \in Nat \ {0}
    PROVE  /\ Partes(p, Tras(p, prog, n - 1))
           /\ Tras(p, prog, (n + 1) - 1) = Paso(p, Tras(p, prog, n - 1), prog[n])
<1>1. n - 1 \in Nat /\ (n - 1) + 1 = n /\ (n + 1) - 1 = n
  OBVIOUS
<1>2. PICK k \in Nat : k = n - 1
  BY <1>1
<1>3. Tras(p, prog, k + 1) = Paso(p, Tras(p, prog, k), prog[k + 1])
  BY TrasRecursivo
<1>4. Partes(p, Tras(p, prog, k))
  BY TrasPartes
<1> QED
  BY <1>1, <1>2, <1>3, <1>4

\* Nothing is claimed after a fault.
LEMMA TrasFalla ==
    ASSUME NEW p, NEW prog, NEW n \in Nat \ {0}, NEW E, NEW regs,
           Tras(p, prog, n - 1).falla \/ Falla(p, prog[n])
    PROVE  Concuerda(p, prog, E, n + 1, regs)
<1>1. Paso(p, Tras(p, prog, n - 1), prog[n]).falla
  BY UnaMas, PasoPartes
<1> QED
  BY <1>1, UnaMas DEF Concuerda

\* An instruction that changes neither registers nor memory.
LEMMA SinEfecto ==
    ASSUME NEW p, NEW prog, NEW n \in Nat \ {0}, NEW E, NEW regs,
           Concuerda(p, prog, E, n, regs),
           prog[n].op \notin {"SET", "MOV_IN", "MOV_OUT", "F_READ"}
    PROVE  Concuerda(p, prog, E, n + 1, regs)
<1>1. CASE Falla(p, prog[n])
  BY <1>1, TrasFalla
<1>2. CASE ~ Falla(p, prog[n])
  <2>1. Paso(p, Tras(p, prog, n - 1), prog[n]) = Tras(p, prog, n - 1)
    BY <1>2 DEF Paso
  <2>2. Tras(p, prog, (n + 1) - 1) = Tras(p, prog, n - 1)
    BY <2>1, UnaMas
  <2> QED
    BY <2>2 DEF Concuerda
<1> QED
  BY <1>1, <1>2

\* A register takes a value.
LEMMA CambiaRegistro ==
    ASSUME NEW p, NEW prog, NEW n \in Nat \ {0}, NEW E, NEW regs,
           Concuerda(p, prog, E, n, regs),
           NEW r, NEW v,
           LET e == Tras(p, prog, n - 1)
           IN  ~ e.falla => Paso(p, e, prog[n]) = [e EXCEPT !.regs[r] = v]
    PROVE  Concuerda(p, prog, E, n + 1, [regs EXCEPT ![r] = v])
<1>1. PICK e : e = Tras(p, prog, n - 1)
  OBVIOUS
<1>2. CASE e.falla
  BY <1>1, <1>2, TrasFalla
<1>3. CASE ~ e.falla
  <2>p. Partes(p, e)
    BY <1>1, UnaMas
  <2>1. PICK f, m, rr : e = [falla |-> f, mem |-> m, regs |-> rr]
    BY <2>p DEF Partes
  <2>2. Tras(p, prog, (n + 1) - 1) = [e EXCEPT !.regs[r] = v]
    BY <1>1, <1>3, UnaMas
  <2>3. Tras(p, prog, (n + 1) - 1) =
            [falla |-> f, mem |-> m, regs |-> [rr EXCEPT ![r] = v]]
    BY <2>1, <2>2
  <2>4. /\ regs = rr
        /\ \A s \in Tablas[p] : \A d \in 0..s.tamanio - 1 :
              E[s.base + d] = m[<<s.idSegmento, d>>]
    BY <1>1, <1>3, <2>1 DEF Concuerda
  <2>5. PICK e2 : /\ e2 = Tras(p, prog, (n + 1) - 1)
                  /\ e2.regs = [rr EXCEPT ![r] = v] /\ e2.mem = m
    BY <2>3
  <2> QED
    BY <2>4, <2>5 DEF Concuerda
<1> QED
  BY <1>2, <1>3

\* SET copies the value to the register, as wide as it is.
LEMMA HaceSet ==
    ASSUME NEW p \in Procesos, NEW prog, NEW n \in Nat \ {0}, NEW E, NEW regs,
           Concuerda(p, prog, E, n, regs), NEW i, i = prog[n],
           i.op = "SET", i.reg \in Registros
    PROVE  Concuerda(p, prog, E, n + 1, ConValor(regs, i.reg, i.valor))
<1>1. ~ Falla(p, i)
  BY DEF Falla, Accede
<1>2. Bytes[i.reg] \in Nat \ {0}
  BY BytesAssumption DEF Registros
<1>3. PICK v : v = SubSeq(i.valor, 1, Bytes[i.reg])
  OBVIOUS
<1>4. v = [k \in 1..Bytes[i.reg] |-> i.valor[k]]
  BY <1>2, <1>3, Copiadas
<1>5. \A e : Paso(p, e, i) = [e EXCEPT !.regs[i.reg] = v]
  BY <1>1, <1>4 DEF Paso
<1> QED
  BY <1>3, <1>5, CambiaRegistro DEF ConValor

\* MOV_IN reads the cells of the segment that the address names.
LEMMA HaceMovIn ==
    ASSUME NEW p \in Procesos, NEW prog, NEW n \in Nat \ {0}, NEW E, NEW regs,
           Concuerda(p, prog, E, n, regs), NEW i, i = prog[n],
           i.op = "MOV_IN", Instruccion(i), NEW v,
           v = [k \in 1..i.n |-> IF Donde(p, i) = SinDireccion THEN Basura
                                 ELSE E[Donde(p, i) + k - 1]]
    PROVE  Concuerda(p, prog, E, n + 1, ConValor(regs, i.reg, v))
<1>1. CASE Falla(p, i) \/ Tras(p, prog, n - 1).falla
  BY <1>1, TrasFalla
<1>2. CASE ~ Falla(p, i) /\ ~ Tras(p, prog, n - 1).falla
  <2>1. /\ i.dir \in Nat /\ i.n \in Nat \ {0} /\ i.n = Bytes[i.reg]
        /\ Accede(i)
    BY DEF Instruccion, Accede
  <2>2. PICK des : des = i.dir % TAM_MAX_SEGMENTO /\ des \in Nat
    BY <2>1, TamanioAssumption
  <2>3. PICK e : e = Tras(p, prog, n - 1)
    OBVIOUS
  <2>4. PICK s \in Tablas[p] :
           /\ s.idSegmento = i.dir \div TAM_MAX_SEGMENTO
           /\ Donde(p, i) = s.base + des /\ des + i.n <= s.tamanio
           /\ Donde(p, i) # SinDireccion
    BY <1>2, <2>1, <2>2, TraduceComoASolas
  <2>5. s.base \in Nat /\ s.tamanio \in Nat
    BY TablasAssumption
  <2>6. ASSUME NEW k \in 1..i.n
        PROVE  v[k] = e.mem[Logica(i.dir, k - 1)]
    <3>1. des + (k - 1) \in 0..s.tamanio - 1
      BY <2>1, <2>2, <2>4, <2>5
    <3>2. E[s.base + (des + (k - 1))] = e.mem[<<s.idSegmento, des + (k - 1)>>]
      BY <1>2, <2>3, <3>1 DEF Concuerda
    <3>3. v[k] = E[Donde(p, i) + k - 1]
      BY <2>4
    <3>4. Donde(p, i) + k - 1 = s.base + (des + (k - 1))
      BY <2>1, <2>2, <2>4, <2>5
    <3> QED
      BY <2>2, <2>4, <3>2, <3>3, <3>4 DEF Logica
  <2>7. PICK w : w = SubSeq(v, 1, Bytes[i.reg])
    OBVIOUS
  <2>8. w = [k \in 1..i.n |-> v[k]]
    BY <2>1, <2>7, Copiadas
  <2>9. w = [k \in 1..i.n |-> e.mem[Logica(i.dir, k - 1)]]
    BY <2>6, <2>8
  <2>10. Paso(p, e, i) = [e EXCEPT !.regs[i.reg] = w]
    BY <1>2, <2>9 DEF Paso
  <2> QED
    BY <2>3, <2>7, <2>10, CambiaRegistro DEF ConValor
<1> QED
  BY <1>1, <1>2

\* MOV_OUT and F_READ, at the address of the MMU: the segments of p are those
\* of the reference, and those that another process has do not change.
LEMMA EscribeComoASolas ==
    ASSUME NEW p \in Procesos, NEW prog, NEW n \in Nat \ {0}, NEW E, NEW regs,
           Concuerda(p, prog, E, n, regs), NEW i, i = prog[n],
           i.op \in {"MOV_OUT", "F_READ"}, Instruccion(i), ~ Falla(p, i),
           NEW v, NEW G,
           i.op = "MOV_OUT" => v = regs[i.reg],
           i.op = "F_READ" => v = [k \in 1..i.n |-> DelArchivo],
           G = [c \in Celdas |->
                   IF c \in Donde(p, i)..(Donde(p, i) + i.n - 1)
                   THEN v[c - Donde(p, i) + 1] ELSE E[c]],
           \A q \in Procesos \ {p} : \A s \in Tablas[p] :
               s.idSegmento = i.dir \div TAM_MAX_SEGMENTO => s \notin Tablas[q]
    PROVE  /\ Concuerda(p, prog, G, n + 1, regs)
           /\ \A q \in Procesos \ {p} : MismosSegmentos(q, E, G)
<1>1. i.dir \in Nat /\ i.n \in Nat \ {0} /\ Accede(i)
  BY DEF Instruccion, Accede
<1>2. PICK des : des = i.dir % TAM_MAX_SEGMENTO /\ des \in Nat
  BY <1>1, TamanioAssumption
<1>3. PICK id : id = i.dir \div TAM_MAX_SEGMENTO
  OBVIOUS
<1>4. PICK l \in Nat \ {0} : l = i.n
  BY <1>1
<1>5. PICK s \in Tablas[p] :
         /\ s.idSegmento = id
         /\ Donde(p, i) = s.base + des /\ des + l <= s.tamanio
  BY <1>1, <1>2, <1>3, <1>4, TraduceComoASolas
<1>6. G = [c \in Celdas |-> IF c \in (s.base + des)..(s.base + des + l - 1)
                            THEN v[c - (s.base + des) + 1] ELSE E[c]]
  BY <1>4, <1>5
<1>7. ASSUME NEW q \in Procesos, NEW t \in Tablas[q], NEW x \in 0..t.tamanio - 1
      PROVE  G[t.base + x] =
                 IF s = t /\ des <= x /\ x < des + l THEN v[x - des + 1]
                 ELSE E[t.base + x]
  <2>1. /\ s.base \in Nat /\ s.tamanio \in Nat
        /\ t.base \in Nat /\ t.tamanio \in Nat
        /\ t.base + t.tamanio <= TAM_MEMORIA
        /\ \/ s = t
           \/ s.base + s.tamanio <= t.base \/ t.base + t.tamanio <= s.base
    BY TablasAssumption
  <2>2. t.base + x \in Celdas
    BY <2>1, TamanioAssumption DEF Celdas
  <2>3. t.base + x \in (s.base + des)..(s.base + des + l - 1) <=>
           s = t /\ des <= x /\ x < des + l
    <3>1. x \in Nat /\ x < t.tamanio
      BY <2>1
    <3>2. CASE s = t
      BY <1>2, <2>1, <3>1, <3>2
    <3>3. CASE s # t
      <4>1. t.base + x < s.base + des \/ s.base + des + l <= t.base + x
        <5>1. des + l <= s.tamanio /\ des \in Nat
          BY <1>2, <1>5
        <5>2. ASSUME s.base + s.tamanio <= t.base
              PROVE  s.base + des + l <= t.base + x
          BY <2>1, <3>1, <5>1, <5>2
        <5>3. ASSUME t.base + t.tamanio <= s.base
              PROVE  t.base + x < s.base + des
          BY <2>1, <3>1, <5>1, <5>3
        <5> QED
          BY <2>1, <3>3, <5>2, <5>3
      <4> QED
        BY <1>2, <2>1, <3>1, <3>3, <4>1
    <3> QED
      BY <3>2, <3>3
  <2>4. s = t => (t.base + x) - (s.base + des) + 1 = x - des + 1
    BY <1>2, <2>1
  <2> QED
    BY <1>6, <2>2, <2>3, <2>4
<1>8. ASSUME NEW q \in Procesos \ {p}
      PROVE  MismosSegmentos(q, E, G)
  BY <1>3, <1>5, <1>7 DEF MismosSegmentos
<1>9. PICK e : e = Tras(p, prog, n - 1)
  OBVIOUS
<1>10. CASE e.falla
  BY <1>8, <1>9, <1>10, TrasFalla
<1>11. CASE ~ e.falla
  <2>1. PICK m : m = [c \in Propias(p) |->
                      IF c \notin Rango(i) THEN e.mem[c]
                      ELSE IF i.op = "F_READ" THEN DelArchivo
                      ELSE e.regs[i.reg][Desde(i, c)]]
    OBVIOUS
  <2>2. Paso(p, e, i) = [e EXCEPT !.mem = m]
    BY <2>1 DEF Paso
  <2>p. Partes(p, e)
    BY <1>9, UnaMas
  <2>3. PICK f, mm, rr : e = [falla |-> f, mem |-> mm, regs |-> rr]
    BY <2>p DEF Partes
  <2>4. PICK e2 : /\ e2 = Tras(p, prog, (n + 1) - 1)
                  /\ e2.mem = m /\ e2.regs = e.regs
    <3>1. Tras(p, prog, (n + 1) - 1) = [falla |-> f, mem |-> m, regs |-> rr]
      BY <1>9, <2>2, <2>3, UnaMas
    <3> QED
      BY <2>3, <3>1
  <2>5. /\ regs = e.regs
        /\ \A t \in Tablas[p] : \A x \in 0..t.tamanio - 1 :
              E[t.base + x] = e.mem[<<t.idSegmento, x>>]
    BY <1>9, <1>11 DEF Concuerda
  <2>6. ASSUME NEW t \in Tablas[p], NEW x \in 0..t.tamanio - 1
        PROVE  G[t.base + x] = m[<<t.idSegmento, x>>]
    <3>c. PICK c : c = <<t.idSegmento, x>>
      OBVIOUS
    <3>1. c = <<t.idSegmento, x>> /\ c[2] = x
      BY <3>c
    <3>2. c \in Propias(p)
      BY <3>1 DEF Propias
    <3>3. x \in Nat
      BY TablasAssumption
    <3>4. Rango(i) = {<<id, des + k>> : k \in 0..l - 1}
      BY <1>2, <1>3, <1>4 DEF Rango, Logica
    <3>5. CASE t = s /\ des <= x /\ x < des + l
      <4>1. x - des \in 0..l - 1 /\ des + (x - des) = x
        BY <1>2, <3>3, <3>5
      <4>2. c \in Rango(i)
        BY <1>5, <3>1, <3>4, <3>5, <4>1
      <4>3. m[c] = IF i.op = "F_READ" THEN DelArchivo
                   ELSE e.regs[i.reg][x - des + 1]
        BY <1>2, <2>1, <3>1, <3>2, <4>2 DEF Desde
      <4>4. x - des + 1 \in 1..l
        BY <4>1
      <4>5. v[x - des + 1] = m[c]
        BY <1>4, <2>5, <4>3, <4>4
      <4> QED
        BY <1>7, <3>1, <3>5, <4>5
    <3>6. CASE ~ (t = s /\ des <= x /\ x < des + l)
      <4>1. c \notin Rango(i)
        <5> SUFFICES ASSUME NEW k \in 0..l - 1, c = <<id, des + k>>
                     PROVE  FALSE
          BY <3>4
        <5>1. t.idSegmento = s.idSegmento /\ x = des + k
          BY <1>5, <3>1
        <5>2. t = s
          BY <5>1, TablasAssumption
        <5> QED
          BY <1>2, <1>4, <3>6, <5>1, <5>2
      <4>2. m[c] = e.mem[c]
        BY <2>1, <3>2, <4>1
      <4> QED
        BY <1>7, <2>5, <3>1, <3>6, <4>2
    <3> QED
      BY <3>5, <3>6
  <2>7. Concuerda(p, prog, G, n + 1, regs)
    BY <2>4, <2>5, <2>6 DEF Concuerda
  <2> QED
    BY <1>8, <2>7
<1> QED
  BY <1>10, <1>11
-----------------------------------------------------------------------------
(* What happens to the processes, each with the others.                    *)

\* A memory that stays as it was.
LEMMA MismaMemoria == \A p, E : MismosSegmentos(p, E, E)
  BY DEF MismosSegmentos

\* Processes that write write in segments of their own.
LEMMA Separados ==
    ASSUME Tipos, PorSeparado, NEW p \in Procesos, NEW k \in DOMAIN programa[p],
           NEW i, i = programa[p][k], i.op \in {"MOV_OUT", "F_READ"}
    PROVE  \A q \in Procesos \ {p} : \A s \in Tablas[p] :
               s.idSegmento = i.dir \div TAM_MAX_SEGMENTO => s \notin Tablas[q]
  BY DEF Tipos, PorSeparado

\* The CPU executes an instruction of p as p would alone, and the segments of
\* the others stay as they were.
LEMMA EjecutaComoASolas ==
    ASSUME Tipos, PorSeparado, NEW p \in Procesos, NEW c, c = contexto,
           EsContexto(c, p), CpuEjecuta,
           Concuerda(p, programa[p], espacio, c.pc, c.registros)
    PROVE  /\ \A q \in Procesos \ {p} : MismosSegmentos(q, espacio, espacio')
           /\ \A d \in {contexto'} \ {Nulo} :
                 Concuerda(p, programa[p], espacio', d.pc, d.registros)
<1>1. PICK n \in Nat \ {0} : n = c.pc
  BY DEF EsContexto, Avance
<1>2. PICK prog : prog = programa[p]
  OBVIOUS
<1>3. /\ contexto.pid = p /\ contexto = c /\ Prog = prog
      /\ Concuerda(p, prog, espacio, n, c.registros)
  BY <1>1, <1>2 DEF EsContexto, Prog
<1>4. PICK i : i = prog[n]
  OBVIOUS
<1>5. Fetch = i
  BY <1>1, <1>3, <1>4 DEF Fetch
<1>6. n \in DOMAIN prog /\ Instruccion(i)
  <2>1. /\ prog \in Seq(Range(prog))
        /\ \A k \in DOMAIN prog : Instruccion(prog[k])
    BY <1>2, ProgramasAssumption DEF Tipos
  <2>2. n <= Len(prog)
    BY <1>1, <1>3 DEF CpuEjecuta
  <2> QED
    BY <1>4, <2>1, <2>2
<1>7. Traducida = Donde(p, i)
  BY <1>3, <1>5 DEF Traducida, Donde
<1>8. CASE InstruccionSet
  <2>1. i.op = "SET" /\ espacio' = espacio
    BY <1>5, <1>8 DEF InstruccionSet
  <2>2. i.reg \in Registros
    BY <1>6, <2>1 DEF Instruccion, Registros
  <2>v. PICK v : v = i.valor
    OBVIOUS
  <2>3. PICK r \in Registros : r = i.reg
    BY <2>2
  <2>4. contexto' = Siguiente(ConRegistro(c, r, v))
    BY <1>3, <1>5, <1>8, <2>3, <2>v DEF InstruccionSet
  <2>5. PICK d : d = contexto' /\ d.pc = n + 1
                 /\ d.registros = ConValor(c.registros, r, v)
    BY <1>1, <2>3, <2>4, Anchos
  <2>6. Concuerda(p, prog, espacio, n + 1, ConValor(c.registros, r, v))
    BY <1>3, <1>4, <2>1, <2>2, <2>3, <2>v, HaceSet
  <2> QED
    BY <1>2, <2>1, <2>5, <2>6, MismaMemoria
<1>9. CASE MovIn
  <2>1. i.op = "MOV_IN" /\ espacio' = espacio
    BY <1>5, <1>9 DEF MovIn
  <2>2. i.reg \in Registros
    BY <1>6, <2>1 DEF Instruccion, Registros
  <2>v. PICK v : v = Leer(Traducida, i.n)
    OBVIOUS
  <2>3. PICK r \in Registros : r = i.reg
    BY <2>2
  <2>4. contexto' = Siguiente(ConRegistro(c, r, v))
    BY <1>3, <1>5, <1>9, <2>3, <2>v DEF MovIn
  <2>5. PICK d : d = contexto' /\ d.pc = n + 1
                 /\ d.registros = ConValor(c.registros, r, v)
    BY <1>1, <2>3, <2>4, Anchos
  <2>6. PICK E : E = espacio
    OBVIOUS
  <2>7. v = [k \in 1..i.n |-> IF Donde(p, i) = SinDireccion THEN Basura
                              ELSE E[Donde(p, i) + k - 1]]
    BY <1>7, <2>6, <2>v DEF Leer
  <2>8. Concuerda(p, prog, E, n + 1, ConValor(c.registros, i.reg, v))
    BY <1>3, <1>4, <1>6, <2>1, <2>6, <2>7, HaceMovIn
  <2> QED
    BY <1>2, <2>1, <2>3, <2>5, <2>6, <2>8, MismaMemoria
<1>10. CASE MovOut /\ Traducida # SinDireccion /\ contexto' = Siguiente(contexto)
  <2>1. i.op = "MOV_OUT" /\ Escribir(Traducida, ValorDe(i.reg))
    BY <1>5, <1>10 DEF MovOut
  <2>2. i.dir \in Nat /\ i.n \in Nat \ {0} /\ Accede(i)
        /\ i.reg \in Registros /\ i.n = Bytes[i.reg]
    BY <1>6, <2>1 DEF Instruccion, Accede, Registros
  <2>3. ~ Falla(p, i)
    BY <1>7, <1>10, <2>2, TraduceComoASolas
  <2>4. PICK v : v = c.registros[i.reg]
    OBVIOUS
  <2>5. Len(v) = i.n
    BY <2>2, <2>4 DEF EsContexto, Avance, ValoresDe
  <2>6. PICK E, G : E = espacio /\ G = espacio'
    OBVIOUS
  <2>7. G = [x \in Celdas |->
                IF x \in Donde(p, i)..(Donde(p, i) + i.n - 1)
                THEN v[x - Donde(p, i) + 1] ELSE E[x]]
    BY <1>3, <1>7, <2>1, <2>4, <2>5, <2>6 DEF Escribir, ValorDe
  <2>8. \A q \in Procesos \ {p} : \A s \in Tablas[p] :
           s.idSegmento = i.dir \div TAM_MAX_SEGMENTO => s \notin Tablas[q]
    BY <1>2, <1>4, <1>6, <2>1, Separados
  <2>9. /\ Concuerda(p, prog, G, n + 1, c.registros)
        /\ \A q \in Procesos \ {p} : MismosSegmentos(q, E, G)
    BY <1>3, <1>4, <1>6, <2>1, <2>3, <2>4, <2>6, <2>7, <2>8, EscribeComoASolas
  <2>10. PICK d : d = contexto' /\ d.pc = n + 1 /\ d.registros = c.registros
    BY <1>1, <1>3, <1>10, SoloAvanza
  <2> QED
    BY <1>2, <2>6, <2>9, <2>10
<1>11. CASE contexto' = Nulo /\ UNCHANGED espacio
  BY <1>11, MismaMemoria
<1> QED
  BY <1>8, <1>9, <1>10, <1>11, Ejecuta
\* Where each process is, against the reference: in its pcb, unless the CPU
\* thread waits for its context; then in what travels.
Solo(p) == Concuerda(p, programa[p], espacio, pcb[p].pc, pcb[p].registros)
SoloViaja(p) ==
    /\ \A c \in Range(aCpu) \cup ({contexto} \ {Nulo}) :
          Concuerda(p, programa[p], espacio, c.pc, c.registros)
    /\ \A x \in {aKernel} \ {<<>>} :
          Fiel(x, p) /\ Concuerda(p, programa[p], espacio, x[1].pc, x[1].registros)
Acabado(p) ==
    LET i == programa[p][pcb[p].pc]
    IN  /\ motivo[p] = "EXIT" => i.op = "EXIT"
        /\ motivo[p] = "SEG_FAULT" => Falla(p, i)
\* p waits for its operation on a file, at its address.
EnArchivo(p, d) ==
    LET i == programa[p][pcb[p].pc]
    IN  /\ pcb[p].pc \in DOMAIN programa[p] /\ i.op \in DeFs
        /\ ~ Falla(p, i) /\ d = Donde(p, i)
Solos ==
    /\ \A p \in Procesos : Acabado(p)
    /\ \A p \in Procesos : p # actual \/ hilo # "espera" => Solo(p)
    /\ hilo = "espera" => \E p \in {actual} : SoloViaja(p)
    /\ hilo = "espera_direccion" =>
          \E p \in {actual} : \E x \in {aKernel} : EnArchivo(p, x[1].direccion)
    /\ hilo = "espera_fs" => \E p \in {actual} : EnArchivo(p, direccion_fisica)
    /\ \A p \in {fs} \ {Nulo} : EnArchivo(p, direccion_fisica)
    /\ hilo # "espera" => aCpu = <<>> /\ contexto = Nulo
\* Whose context the kernel reads next.
Propio == hilo = "espera" => aKernel = <<>> \/ aKernel[1].pid = actual
InvSolo == Inv /\ (~ mezclado /\ Propio => Solos)
\* The kernel waits for the context of pcb_en_ejecucion.
LEMMA EnviadoAlActual ==
    ASSUME Inv, ~ mezclado, Propio, hilo = "espera"
    PROVE  \E p \in Procesos : p = actual /\ EnCamino(p) /\ motivo[p] = Nulo
<1>1. PICK p \in Procesos : p = actual /\ motivo[p] = Nulo
  BY DEF Inv, UnLugar, Tipos
<1>2. CASE Protocolo
  BY <1>1, <1>2 DEF Protocolo
<1>3. ASSUME NEW q \in Procesos, Sobra(q)
      PROVE  FALSE
  <2>1. aKernel[1].pid = q /\ Len(aKernel) > 0 /\ motivo[q] = "SEG_FAULT"
    BY <1>3 DEF Sobra, EsParcial, Fallo
  <2>2. aKernel # <<>>
    BY <2>1
  <2>3. q = p
    BY <1>1, <2>1, <2>2 DEF Propio
  <2> QED
    BY <1>1, <2>1, <2>3, ProcesosAssumption
<1> QED
  BY <1>1, <1>2, <1>3 DEF Inv

\* What an unchanged pcb, or socket, says of p.
LEMMA SigueSolo ==
    ASSUME NEW p, Solo(p), programa' = programa, pcb'[p] = pcb[p],
           MismosSegmentos(p, espacio, espacio')
    PROVE  Solo(p)'
  BY OtraMemoria DEF Solo
LEMMA SigueViajando ==
    ASSUME NEW p, SoloViaja(p), UNCHANGED <<programa, aCpu, contexto, aKernel>>,
           MismosSegmentos(p, espacio, espacio')
    PROVE  SoloViaja(p)'
<1>1. PICK E, G : E = espacio /\ G = espacio'
  OBVIOUS
<1>2. \A n, regs : Concuerda(p, programa[p], E, n, regs) =>
                      Concuerda(p, programa[p], G, n, regs)
  BY <1>1, OtraMemoria
<1>3. \A x : Fiel(x, p)' <=> Fiel(x, p)
  BY DEF Fiel
<1> QED
  BY <1>1, <1>2, <1>3 DEF SoloViaja

\* A step of the CPU: what is left to show is the context that travels.
LEMMA SolosCpu ==
    ASSUME Inv, ~ mezclado, Propio, Solos, ModuloCpu,
           NEW p \in Procesos, p = actual,
           \A q \in Procesos \ {p} : MismosSegmentos(q, espacio, espacio'),
           SoloViaja(p)'
    PROVE  Solos'
<1>1. UNCHANGED <<programa, pcb, motivo, listos, actual, hilo,
                  direccion_fisica, fs, mezclado>>
  BY CpuQuieta
<1>2. hilo = "espera"
  BY DEF Solos, ModuloCpu, CpuRecibe, CpuSinInstrucciones, CpuEjecuta
<1>3. ASSUME NEW q \in Procesos, q # p
      PROVE  Solo(q)'
  BY <1>1, <1>3, SigueSolo DEF Solos
<1>4. \A q : Acabado(q)' <=> Acabado(q)
  BY <1>1 DEF Acabado
<1>5. \A q, d : EnArchivo(q, d)' <=> EnArchivo(q, d)
  BY <1>1 DEF EnArchivo
<1>6. \A q \in {fs} \ {Nulo} : EnArchivo(q, direccion_fisica)'
  BY <1>1, <1>5 DEF Solos, EnArchivo
<1> QED
  BY <1>1, <1>2, <1>3, <1>4, <1>6 DEF Solos

\* The context that the CPU takes is the one that was sent.
LEMMA SolosCpuRecibe ==
    ASSUME Inv, ~ mezclado, Propio, Solos, CpuRecibe
    PROVE  Solos'
<1>1. hilo = "espera"
  BY DEF Solos, CpuRecibe
<1>2. PICK p \in Procesos : p = actual /\ EnCamino(p)
  BY <1>1, EnviadoAlActual
<1>3. PICK c \in Range(aCpu) : aCpu = <<c>> /\ aKernel = <<>>
  BY <1>2 DEF EnCamino, CpuRecibe
<1>4. /\ contexto' = c /\ aCpu' = <<>>
      /\ UNCHANGED <<programa, espacio, aKernel>>
  BY <1>3 DEF CpuRecibe
<1>5. Concuerda(p, programa[p], espacio, c.pc, c.registros)
  BY <1>1, <1>2 DEF Solos, SoloViaja
<1>6. \A d : d \notin Range(aCpu')
  BY <1>4 DEF Range
<1>7. SoloViaja(p)'
  BY <1>3, <1>4, <1>5, <1>6 DEF SoloViaja
<1> QED
  BY <1>2, <1>4, <1>7, SolosCpu, MismaMemoria DEF ModuloCpu

\* A program that ran out leaves no context.
LEMMA SolosCpuSinInstrucciones ==
    ASSUME Inv, ~ mezclado, Propio, Solos, CpuSinInstrucciones
    PROVE  Solos'
<1>1. hilo = "espera"
  BY DEF Solos, CpuSinInstrucciones
<1>2. PICK p \in Procesos : p = actual /\ SoloViaja(p)
  BY <1>1, EnviadoAlActual DEF Solos
<1>3. contexto' = Nulo /\ UNCHANGED <<programa, espacio, aCpu, aKernel>>
  BY DEF CpuSinInstrucciones
<1>4. \A x : Fiel(x, p)' <=> Fiel(x, p)
  BY <1>3 DEF Fiel
<1>5. SoloViaja(p)'
  BY <1>2, <1>3, <1>4 DEF SoloViaja
<1> QED
  BY <1>2, <1>3, <1>5, SolosCpu, MismaMemoria DEF ModuloCpu

\* One instruction of the CPU is one step of the reference.
LEMMA SolosCpuEjecuta ==
    ASSUME Inv, ~ mezclado, Propio, Solos, CpuEjecuta, PorSeparado
    PROVE  Solos'
<1>1. hilo = "espera" /\ contexto # Nulo
      /\ UNCHANGED <<programa, aCpu>> /\ Tipos
  BY DEF Solos, CpuEjecuta, Inv
<1>2. PICK p \in Procesos : p = actual /\ EnCamino(p) /\ SoloViaja(p)
  BY <1>1, EnviadoAlActual DEF Solos
<1>3. PICK c : c = contexto /\ EsContexto(c, p) /\ aCpu = <<>> /\ aKernel = <<>>
  BY <1>1, <1>2 DEF EnCamino
<1>4. Concuerda(p, programa[p], espacio, c.pc, c.registros)
  BY <1>1, <1>2, <1>3 DEF SoloViaja
<1>5. /\ \A q \in Procesos \ {p} : MismosSegmentos(q, espacio, espacio')
      /\ \A d \in {contexto'} \ {Nulo} :
            Concuerda(p, programa[p], espacio', d.pc, d.registros)
  BY <1>1, <1>3, <1>4, EjecutaComoASolas
<1>6. \A d : d \notin Range(aCpu')
  BY <1>1, <1>3 DEF Range
<1>7. CASE UNCHANGED aKernel
  <2>1. SoloViaja(p)'
    BY <1>1, <1>3, <1>5, <1>6, <1>7 DEF SoloViaja
  <2> QED
    BY <1>2, <1>5, <2>1, SolosCpu DEF ModuloCpu
<1>8. ASSUME UNCHANGED espacio, contexto' = Nulo,
             NEW x, aKernel' = aKernel \o x, x \in Seq(Range(x)), Fiel(x, p),
             x[1].pc = c.pc, x[1].registros = c.registros
      PROVE  Solos'
  <2>1. aKernel' = x
    BY <1>3, <1>8
  <2>2. Fiel(x, p)'
    BY <1>1, <1>8 DEF Fiel
  <2>3. SoloViaja(p)'
    BY <1>1, <1>4, <1>6, <1>8, <2>1, <2>2 DEF SoloViaja
  <2> QED
    BY <1>2, <1>5, <2>3, SolosCpu DEF ModuloCpu
<1> QED
  BY <1>1, <1>3, <1>7, <1>8, Ejecuta

\* A process is chosen, and its context sent.
LEMMA SolosElige ==
    ASSUME Inv, ~ mezclado, Solos, KernelElige
    PROVE  Solos'
<1>1. /\ hilo = "libre" /\ hilo' = "envia"
      /\ UNCHANGED <<programa, pcb, motivo, direccion_fisica, fs, mezclado,
                     aCpu, aKernel, contexto, espacio>>
  BY DEF KernelElige
<1>2. \A q : /\ Acabado(q)' <=> Acabado(q)
             /\ Solo(q)' <=> Solo(q)
             /\ EnArchivo(q, direccion_fisica)' <=> EnArchivo(q, direccion_fisica)
  BY <1>1 DEF Acabado, Solo, EnArchivo
<1> QED
  BY <1>1, <1>2 DEF Solos

\* The context sent is that of the pcb, and is alone on the way.
LEMMA SolosEnvia ==
    ASSUME Inv, Inv', ~ mezclado, Solos, KernelEnvia, Propio'
    PROVE  Solos'
<1>1. /\ hilo = "envia" /\ hilo' = "espera" /\ aCpu = <<>> /\ contexto = Nulo
      /\ aCpu' = Append(aCpu, ContextoDe(actual))
      /\ UNCHANGED <<programa, pcb, motivo, listos, actual, direccion_fisica,
                     fs, mezclado, aKernel, contexto, espacio>>
  BY DEF KernelEnvia, Solos
<1>2. PICK p \in Procesos : p = actual /\ motivo[p] = Nulo
  BY <1>1 DEF Inv, UnLugar, Tipos
<1>3. PICK c : c = ContextoDe(p)
  OBVIOUS
<1>4. aCpu' = <<c>>
  BY <1>1, <1>2, <1>3
<1>5. Concuerda(p, programa[p], espacio, c.pc, c.registros)
  <2>1. Solo(p)
    BY <1>1 DEF Solos
  <2>2. c.pc = pcb[p].pc /\ c.registros = pcb[p].registros
    BY <1>3 DEF ContextoDe
  <2> QED
    BY <2>1, <2>2 DEF Solo
<1>6. aKernel = <<>>
  <2>1. CASE Protocolo
    BY <1>1, <2>1 DEF Protocolo
  <2>2. ASSUME NEW q \in Procesos, Sobra(q), aKernel # <<>>
        PROVE  FALSE
    <3>1. aKernel[1].pid = q /\ motivo[q] = "SEG_FAULT"
      BY <2>2 DEF Sobra, EsParcial, Fallo
    <3>2. aKernel[1].pid = p
      BY <1>1, <1>2, <2>2 DEF Propio
    <3> QED
      BY <1>2, <3>1, <3>2, ProcesosAssumption
  <2> QED
    BY <2>1, <2>2 DEF Inv
<1>7. \A d \in Range(aCpu') : d = c
  BY <1>4 DEF Range
<1>8. SoloViaja(p)'
  BY <1>1, <1>5, <1>6, <1>7 DEF SoloViaja
<1>9. \A q : /\ Acabado(q)' <=> Acabado(q)
             /\ Solo(q)' <=> Solo(q)
             /\ EnArchivo(q, direccion_fisica)' <=> EnArchivo(q, direccion_fisica)
  BY <1>1 DEF Acabado, Solo, EnArchivo
<1> QED
  BY <1>1, <1>2, <1>8, <1>9 DEF Solos
\* A pcb one instruction later.
LEMMA Avanza ==
    ASSUME NEW P, NEW p \in DOMAIN P, NEW n, NEW regs,
           P[p] = [pc |-> n, registros |-> regs]
    PROVE  \E b \in {Avanzado(P, p)[p]} : b.pc = n + 1 /\ b.registros = regs
<1>1. PICK r : r = [pc |-> n, registros |-> regs]
  OBVIOUS
<1>2. PICK k : k = n + 1
  OBVIOUS
<1>3. Avanzado(P, p)[p] = [r EXCEPT !.pc = @ + 1]
  BY <1>1 DEF Avanzado
<1>4. [r EXCEPT !.pc = @ + 1] = [pc |-> k, registros |-> regs]
  BY <1>1, <1>2
<1>5. PICK b : b = [pc |-> k, registros |-> regs]
  OBVIOUS
<1>6. b.pc = k /\ b.registros = regs
  BY <1>5
<1> QED
  BY <1>2, <1>3, <1>4, <1>5, <1>6

\* Past the instruction that WAIT or YIELD is, or at it.
LEMMA RecibeComoASolas ==
    ASSUME Tipos, NEW p \in Procesos, p = actual, NEW m, Avance(m),
           UNCHANGED <<programa, espacio>>,
           Concuerda(p, programa[p], espacio, m.pc, m.registros),
           \/ pcb' = Recibido(m)
           \/ /\ pcb' = Avanzado(Recibido(m), actual)
              /\ programa[p][m.pc].op \in {"WAIT", "YIELD"}
    PROVE  /\ Solo(p)'
           /\ pcb' = Recibido(m) => pcb'[p].pc = m.pc
<1>1. PICK n \in Nat \ {0} : n = m.pc
  BY DEF Avance
<1>2. PICK regs : regs = m.registros
  OBVIOUS
<1>3. PICK P : P = Recibido(m)
  OBVIOUS
<1>4. P[p] = [pc |-> n, registros |-> regs] /\ p \in DOMAIN P
  BY <1>1, <1>2, <1>3 DEF Recibido, Tipos
<1>5. PICK prog : prog = programa[p]
  OBVIOUS
<1>6. Concuerda(p, prog, espacio, n, regs)
  BY <1>1, <1>2, <1>5
<1>7. CASE pcb' = P
  <2>1. pcb'[p].pc = n /\ pcb'[p].registros = regs
    BY <1>4, <1>7
  <2> QED
    BY <1>1, <1>5, <1>6, <2>1 DEF Solo
<1>8. CASE pcb' = Avanzado(P, p) /\ pcb' # P
           /\ prog[n].op \in {"WAIT", "YIELD"}
  <2>1. pcb'[p].pc = n + 1 /\ pcb'[p].registros = regs
    BY <1>4, <1>8, Avanza
  <2>2. prog[n].op \notin {"SET", "MOV_IN", "MOV_OUT", "F_READ"}
    BY <1>8
  <2>3. Concuerda(p, prog, espacio, n + 1, regs)
    BY <1>6, <2>2, SinEfecto
  <2> QED
    BY <1>3, <1>5, <1>8, <2>1, <2>3 DEF Solo
<1> QED
  BY <1>1, <1>3, <1>5, <1>7, <1>8

\* The context that comes back is stored, with what it says of the process.
LEMMA SolosRecibe ==
    ASSUME Inv, Inv', ~ mezclado, Propio, Solos, KernelRecibe
    PROVE  Solos'
<1>1. /\ hilo = "espera" /\ aKernel # <<>> /\ aKernel' = Tail(aKernel)
      /\ UNCHANGED <<programa, direccion_fisica, fs, aCpu, contexto, espacio>>
      /\ Tipos /\ UnLugar
  BY DEF KernelRecibe, Inv
<1>2. PICK p \in Procesos : /\ p = actual /\ EnCamino(p) /\ motivo[p] = Nulo
                            /\ SoloViaja(p)
  BY <1>1, EnviadoAlActual DEF Solos
<1>3. PICK x : x = aKernel
  OBVIOUS
<1>4. PICK m : m = x[1]
  OBVIOUS
<1>5. /\ aCpu = <<>> /\ contexto = Nulo /\ Respuesta(x, p) /\ Fiel(x, p)
      /\ Concuerda(p, programa[p], espacio, m.pc, m.registros)
  BY <1>1, <1>2, <1>3, <1>4 DEF EnCamino, SoloViaja
<1>6. /\ Head(x) = m /\ x \in Seq(Range(x)) /\ x # <<>>
      /\ Len(x) \in Nat \ {0} /\ Tail(x) = aKernel'
      /\ \A i \in 1..(Len(x) - 1) : Tail(x)[i] = x[i + 1]
  <2>1. x \in Seq(Range(x)) /\ x # <<>>
    BY <1>1, <1>3 DEF Tipos
  <2> QED
    BY <1>1, <1>3, <1>4, <2>1, Desapilada
<1>7. Continua(m) \/ Cede(m) \/ PideArchivo(m) \/ Termina(m)
  BY <1>3, <1>6 DEF KernelRecibe
<1>8. Avance(m)
  BY <1>4, <1>5 DEF Respuesta, EsParcial
<1>9. PICK i : i = programa[p][m.pc]
  OBVIOUS
<1>10. /\ m.pc \in DOMAIN programa[p]
       /\ m.motivo = "SEG_FAULT" => Falla(p, i)
       /\ m.motivo # "SEG_FAULT" => i.op = m.motivo
       /\ m.motivo \in DeFs => ~ Falla(p, i) /\ x[2].direccion = Donde(p, i)
  BY <1>4, <1>5, <1>9 DEF Fiel
<1>11. Solo(p)' /\ (pcb' = Recibido(m) => pcb'[p].pc = m.pc)
  <2>1. \/ pcb' = Recibido(m)
        \/ /\ pcb' = Avanzado(Recibido(m), actual)
           /\ programa[p][m.pc].op \in {"WAIT", "YIELD"}
    BY <1>7, <1>9, <1>10 DEF Continua, Cede, PideArchivo, Termina
  <2> QED
    BY <1>1, <1>2, <1>5, <1>8, <2>1, RecibeComoASolas
<1>12. \A q \in Procesos \ {p} : pcb'[q] = pcb[q] /\ motivo'[q] = motivo[q]
  <2>1. pcb' = Recibido(m) \/ pcb' = Avanzado(Recibido(m), actual)
    BY <1>7 DEF Continua, Cede, PideArchivo, Termina
  <2>2. \A q \in Procesos \ {p} : pcb'[q] = pcb[q]
    BY <1>1, <1>2, <1>8, <2>1, PcbRecibe
  <2>3. motivo' = motivo \/ motivo' = [motivo EXCEPT ![p] = m.motivo]
    BY <1>2, <1>7 DEF Continua, Cede, PideArchivo, Termina
  <2> QED
    BY <1>1, <2>2, <2>3 DEF Tipos
<1>13. ASSUME NEW q \in Procesos, q # p
       PROVE  Solo(q)' /\ Acabado(q)'
  <2>1. Solo(q) /\ Acabado(q)
    BY <1>2, <1>13 DEF Solos
  <2>2. Solo(q)'
    BY <1>1, <1>12, <1>13, <2>1, SigueSolo, MismaMemoria
  <2> QED
    BY <1>1, <1>12, <1>13, <2>1, <2>2 DEF Acabado
<1>14. Acabado(p)'
  <2>1. CASE Termina(m)
    <3>1. pcb'[p].pc = m.pc
      BY <1>11, <2>1 DEF Termina
    <3>2. motivo'[p] = m.motivo
      BY <1>1, <1>2, <2>1 DEF Termina, Tipos
    <3> QED
      BY <1>1, <1>9, <1>10, <3>1, <3>2 DEF Acabado
  <2>2. CASE motivo' = motivo
    BY <1>2, <2>2, ProcesosAssumption DEF Acabado
  <2> QED
    BY <1>7, <2>1, <2>2 DEF Continua, Cede, PideArchivo
<1>15. ASSUME NEW q \in {fs} \ {Nulo}
       PROVE  EnArchivo(q, direccion_fisica)'
  <2>1. q \in Procesos /\ q # p /\ EnArchivo(q, direccion_fisica)
    BY <1>1, <1>2 DEF Tipos, UnLugar, Solos
  <2> QED
    BY <1>1, <1>12, <2>1 DEF EnArchivo
<1>16. /\ hilo' \in {"libre", "envia", "espera_direccion"}
       /\ hilo' = "espera_direccion" => PideArchivo(m)
  BY <1>7 DEF Continua, Cede, PideArchivo, Termina
<1>17. ASSUME PideArchivo(m)
       PROVE  actual' = p /\ \E y \in {aKernel'} : EnArchivo(p, y[1].direccion)'
  <2>1. m.motivo \in DeFs /\ actual' = p /\ pcb' = Recibido(m)
    BY <1>2, <1>17 DEF PideArchivo, DeFs
  <2>2. Len(x) = 2
    BY <1>4, <1>5, <2>1 DEF Respuesta, DeFs
  <2>t. 1 \in 1..(Len(x) - 1)
    BY <2>2
  <2>y. Tail(x)[1] = x[1 + 1]
    BY <1>6, <2>t
  <2>s. PICK y : y = Tail(x)
    OBVIOUS
  <2>3. y = Tail(x) /\ y[1] = x[2]
    <3>1. 1 + 1 = 2
      OBVIOUS
    <3> QED
      BY <2>s, <2>y, <3>1
  <2>4. PICK d : d = y[1].direccion
    OBVIOUS
  <2>5. d = Donde(p, i) /\ ~ Falla(p, i) /\ i.op \in DeFs
    BY <1>10, <2>1, <2>3, <2>4 DEF DeFs
  <2>6. pcb'[p].pc = m.pc
    BY <1>11, <2>1
  <2>7. EnArchivo(p, d)'
    BY <1>1, <1>9, <1>10, <2>5, <2>6 DEF EnArchivo
  <2> QED
    BY <1>6, <2>1, <2>3, <2>4, <2>7 DEF EnArchivo
<1> QED
  BY <1>1, <1>5, <1>11, <1>13, <1>14, <1>15, <1>16, <1>17 DEF Solos

\* The address is the one of the instruction that the process waits at; no
\* other process has the file thread's.
LEMMA SolosRecibeDireccion ==
    ASSUME Inv, ~ mezclado, Solos, KernelRecibeDireccion, PorSeparado
    PROVE  Solos'
<1>1. /\ hilo = "espera_direccion" /\ hilo' = "espera_fs"
      /\ aKernel # <<>> /\ direccion_fisica' = Head(aKernel).direccion
      /\ UNCHANGED <<programa, pcb, motivo, listos, actual, fs, mezclado,
                     aCpu, contexto, espacio>>
      /\ Tipos /\ UnLugar
  BY DEF KernelRecibeDireccion, Inv
<1>2. PICK p \in Procesos : p = actual
  BY <1>1 DEF UnLugar, Tipos
<1>3. PICK x : x = aKernel
  OBVIOUS
<1>4. PICK d : d = x[1].direccion /\ EnArchivo(p, d)
  BY <1>1, <1>2, <1>3 DEF Solos
<1>5. direccion_fisica' = d
  <2>1. Head(x) = x[1]
    BY <1>1, <1>3, Desapilada DEF Tipos
  <2> QED
    BY <1>1, <1>3, <1>4, <2>1
<1>6. fs = Nulo
  <2> SUFFICES ASSUME fs # Nulo
               PROVE  FALSE
    OBVIOUS
  <2>1. PICK q \in Procesos : q = fs /\ q # p
    BY <1>1, <1>2 DEF Tipos, UnLugar
  <2>2. EnArchivo(q, direccion_fisica)
    BY <2>1 DEF Solos
  <2>3. PICK j, k : j = pcb[p].pc /\ k = pcb[q].pc
    OBVIOUS
  <2>4. /\ j \in DOMAIN programa[p] /\ programa[p][j].op \in DeFs
        /\ k \in DOMAIN programa[q] /\ programa[q][k].op \in DeFs
    BY <1>4, <2>2, <2>3 DEF EnArchivo
  <2> QED
    BY <1>1, <2>1, <2>4 DEF PorSeparado, Tipos, DeFs
<1>7. \A q : /\ Acabado(q)' <=> Acabado(q)
             /\ Solo(q)' <=> Solo(q)
             /\ EnArchivo(q, d)' <=> EnArchivo(q, d)
  BY <1>1 DEF Acabado, Solo, EnArchivo
<1>8. \A q \in {actual'} : EnArchivo(q, direccion_fisica)'
  BY <1>1, <1>2, <1>4, <1>5, <1>7 DEF EnArchivo
<1>9. \A q \in Procesos : Solo(q)'
  BY <1>1, <1>7 DEF Solos
<1> QED
  BY <1>1, <1>6, <1>7, <1>8, <1>9 DEF Solos

\* The file thread takes the process with its address.
LEMMA SolosFsToma ==
    ASSUME Inv, ~ mezclado, Solos, FsToma
    PROVE  Solos'
<1>1. /\ hilo = "espera_fs" /\ hilo' = "libre" /\ fs = Nulo /\ fs' = actual
      /\ actual' = Nulo
      /\ UNCHANGED <<programa, pcb, motivo, listos, direccion_fisica,
                     mezclado, aCpu, aKernel, contexto, espacio>>
  BY DEF FsToma
<1>2. \A q : /\ Acabado(q)' <=> Acabado(q)
             /\ Solo(q)' <=> Solo(q)
             /\ EnArchivo(q, direccion_fisica)' <=> EnArchivo(q, direccion_fisica)
  BY <1>1 DEF Acabado, Solo, EnArchivo
<1> QED
  BY <1>1, <1>2 DEF Solos

\* The operation writes in the segment of its instruction; the process is
\* then past it.
LEMMA SolosFsTermina ==
    ASSUME Inv, ~ mezclado, Propio, Solos, FsTermina, PorSeparado
    PROVE  Solos'
<1>1. /\ fs # Nulo /\ fs' = Nulo /\ pcb' = Avanzado(pcb, fs)
      /\ UNCHANGED <<programa, motivo, actual, hilo, direccion_fisica,
                     mezclado, aCpu, aKernel, contexto>>
      /\ Tipos /\ UnLugar
  BY DEF FsTermina, Inv
<1>2. PICK p \in Procesos : p = fs /\ p # actual /\ motivo[p] = Nulo
  BY <1>1 DEF Tipos, UnLugar
<1>3. PICK b : b = pcb[p] /\ EsPcb(b)
  BY <1>1 DEF Tipos
<1>4. PICK n, regs : b = [pc |-> n, registros |-> regs]
  BY <1>3 DEF EsPcb
<1>5. /\ n = pcb[p].pc /\ regs = pcb[p].registros /\ n \in Nat \ {0}
  BY <1>3, <1>4 DEF EsPcb, Avance
<1>6. pcb'[p].pc = n + 1 /\ pcb'[p].registros = regs
  <2>1. PICK P : P = pcb
    OBVIOUS
  <2>2. P[p] = [pc |-> n, registros |-> regs] /\ p \in DOMAIN P
    BY <1>1, <1>3, <1>4, <2>1 DEF Tipos
  <2>3. \E d \in {Avanzado(P, p)[p]} : d.pc = n + 1 /\ d.registros = regs
    BY <2>2, Avanza
  <2> QED
    BY <1>1, <1>2, <2>1, <2>3
<1>7. \A q \in Procesos \ {p} : pcb'[q] = pcb[q]
  BY <1>1, <1>2, PcbAvanza
<1>8. PICK prog : prog = programa[p]
  OBVIOUS
<1>9. PICK i : i = prog[n]
  OBVIOUS
<1>10. PICK E, G : E = espacio /\ G = espacio'
  OBVIOUS
<1>11. Concuerda(p, prog, E, n, regs)
  BY <1>2, <1>5, <1>8, <1>10 DEF Solos, Solo
<1>12. /\ n \in DOMAIN prog /\ i.op \in DeFs /\ ~ Falla(p, i)
       /\ direccion_fisica = Donde(p, i)
  <2>1. EnArchivo(p, direccion_fisica)
    BY <1>1, <1>2 DEF Solos
  <2> QED
    BY <1>5, <1>8, <1>9, <2>1 DEF EnArchivo
<1>13. Instruccion(i)
  BY <1>1, <1>8, <1>9, <1>12, ProgramasAssumption DEF Tipos
<1>14. /\ Concuerda(p, prog, G, n + 1, regs)
       /\ \A q \in Procesos \ {p} : MismosSegmentos(q, E, G)
  <2>1. CASE i.op = "F_WRITE"
    <3>1. G = E
      BY <1>2, <1>5, <1>8, <1>9, <1>10, <2>1 DEF FsTermina
    <3>2. i.op \notin {"SET", "MOV_IN", "MOV_OUT", "F_READ"}
      BY <2>1
    <3> QED
      <4>1. Concuerda(p, prog, E, n + 1, regs)
        BY <1>5, <1>9, <1>11, <3>2, SinEfecto
      <4> QED
        BY <3>1, <4>1, MismaMemoria
  <2>2. CASE i.op = "F_READ"
    <3>1. i.n \in Nat \ {0}
      BY <1>13, <2>2 DEF Instruccion
    <3>2. PICK v : v = [k \in 1..i.n |-> DelArchivo]
      OBVIOUS
    <3>3. Len(v) = i.n
      BY <3>1, <3>2
    <3>4. Escribir(direccion_fisica, v)
      BY <1>2, <1>5, <1>8, <1>9, <2>2, <3>2 DEF FsTermina
    <3>5. G = [c \in Celdas |-> IF c \in Donde(p, i)..(Donde(p, i) + i.n - 1)
                                THEN v[c - Donde(p, i) + 1] ELSE E[c]]
      BY <1>10, <1>12, <3>3, <3>4 DEF Escribir
    <3>6. \A q \in Procesos \ {p} : \A s \in Tablas[p] :
             s.idSegmento = i.dir \div TAM_MAX_SEGMENTO => s \notin Tablas[q]
      BY <1>1, <1>8, <1>9, <1>12, <2>2, Separados
    <3> QED
      <4>1. /\ i.op \in {"MOV_OUT", "F_READ"} /\ ~ Falla(p, i)
            /\ i.op = "MOV_OUT" => v = regs[i.reg]
            /\ i.op = "F_READ" => v = [k \in 1..i.n |-> DelArchivo]
        BY <1>12, <2>2, <3>2
      <4> QED
        BY <1>5, <1>9, <1>11, <1>13, <3>5, <3>6, <4>1, EscribeComoASolas
  <2> QED
    BY <1>12, <2>1, <2>2 DEF DeFs
<1>15. Solo(p)'
  BY <1>1, <1>6, <1>8, <1>10, <1>14 DEF Solo
<1>16. ASSUME NEW q \in Procesos, q # p
       PROVE  /\ Solo(q) => Solo(q)'
              /\ SoloViaja(q) => SoloViaja(q)'
  BY <1>1, <1>7, <1>10, <1>14, <1>16, SigueSolo, SigueViajando
<1>17. ASSUME NEW q \in Procesos
       PROVE  Acabado(q)'
  <2>1. CASE q = p
    BY <1>1, <1>2, <2>1, ProcesosAssumption DEF Acabado
  <2>2. CASE q # p
    BY <1>1, <1>7, <2>2 DEF Solos, Acabado
  <2> QED
    BY <2>1, <2>2
<1>18. ASSUME NEW q \in Procesos, q # p
       PROVE  \A d : EnArchivo(q, d)' <=> EnArchivo(q, d)
  BY <1>1, <1>7, <1>18 DEF EnArchivo
<1>19. ASSUME hilo \in {"espera", "espera_direccion", "espera_fs"}
       PROVE  \E q \in Procesos : q = actual /\ q # p
  BY <1>1, <1>2, <1>19 DEF Tipos, UnLugar
<1>20. hilo = "espera" => \E q \in {actual'} : SoloViaja(q)'
  BY <1>1, <1>16, <1>19 DEF Solos
<1>21. hilo = "espera_direccion" =>
          \E q \in {actual'} : \E x \in {aKernel'} : EnArchivo(q, x[1].direccion)'
  <2> SUFFICES ASSUME hilo = "espera_direccion"
               PROVE  \E q \in {actual'} : \E x \in {aKernel'} :
                         EnArchivo(q, x[1].direccion)'
    OBVIOUS
  <2>1. PICK q \in Procesos : q = actual /\ q # p
    BY <1>19
  <2>2. PICK x, d : x = aKernel /\ d = x[1].direccion /\ EnArchivo(q, d)
    BY <2>1 DEF Solos
  <2>3. EnArchivo(q, d)'
    BY <1>18, <2>1, <2>2
  <2> QED
    BY <1>1, <2>1, <2>2, <2>3 DEF EnArchivo
<1>22. hilo = "espera_fs" =>
          \E q \in {actual'} : EnArchivo(q, direccion_fisica)'
  <2> SUFFICES ASSUME hilo = "espera_fs"
               PROVE  \E q \in {actual'} : EnArchivo(q, direccion_fisica)'
    OBVIOUS
  <2>1. PICK q \in Procesos : q = actual /\ q # p
    BY <1>19
  <2>2. PICK d : d = direccion_fisica /\ EnArchivo(q, d)
    BY <2>1 DEF Solos
  <2>3. EnArchivo(q, d)'
    BY <1>18, <2>1, <2>2
  <2> QED
    BY <1>1, <2>1, <2>2, <2>3 DEF EnArchivo
<1>23. \A q \in Procesos : q # actual' \/ hilo' # "espera" => Solo(q)'
  BY <1>1, <1>15, <1>16 DEF Solos
<1> QED
  BY <1>1, <1>17, <1>20, <1>21, <1>22, <1>23 DEF Solos
\* A step that does not end in a mixture started without one.
LEMMA PropioAntes ==
    ASSUME Inv, ~ mezclado, Next, ~ mezclado', Propio'
    PROVE  Propio
<1> SUFFICES ASSUME hilo = "espera", aKernel # <<>>
             PROVE  aKernel[1].pid = actual
  BY DEF Propio
<1>1. Tipos
  BY DEF Inv
<1>2. CASE KernelRecibe
  <2>1. Head(aKernel).pid = actual
    BY <1>2 DEF KernelRecibe
  <2>2. PICK x : x = aKernel
    OBVIOUS
  <2>3. Head(x) = x[1]
    BY <1>1, <2>2, Desapilada DEF Tipos
  <2> QED
    BY <2>1, <2>2, <2>3
<1>3. ASSUME UNCHANGED <<hilo, actual>>, aKernel' # <<>>, aKernel'[1] = aKernel[1]
      PROVE  aKernel[1].pid = actual
  BY <1>3 DEF Propio
<1>4. CASE CpuEjecuta
  <2>1. PICK p \in Procesos : EsContexto(contexto, p)
    BY <1>4 DEF Inv, Contextos, CpuEjecuta
  <2>2. PICK c : c = contexto /\ EsContexto(c, p)
    BY <2>1
  <2>3. UNCHANGED <<hilo, actual>>
    BY <1>4 DEF CpuEjecuta, kernel
  <2>4. CASE UNCHANGED aKernel
    BY <1>3, <2>3, <2>4
  <2>5. ASSUME NEW x, aKernel' = aKernel \o x, x \in Seq(Range(x))
        PROVE  aKernel[1].pid = actual
    <3>1. PICK s : s = aKernel
      OBVIOUS
    <3>2. PICK t : t = s \o x
      OBVIOUS
    <3>3. s \in Seq(Range(s)) /\ Len(s) \in Nat \ {0}
      BY <1>1, <3>1 DEF Tipos
    <3>4. /\ Len(t) = Len(s) + Len(x) /\ Len(x) \in Nat
          /\ \A i \in 1..(Len(s) + Len(x)) :
                t[i] = IF i <= Len(s) THEN s[i] ELSE x[i - Len(s)]
      BY <2>5, <3>2, <3>3, Sumada
    <3>5. t[1] = s[1] /\ Len(t) # 0
      BY <3>3, <3>4
    <3>6. t # <<>>
      BY <3>5
    <3> QED
      BY <1>3, <2>3, <2>5, <3>1, <3>2, <3>5, <3>6
  <2> QED
    BY <1>1, <1>4, <2>2, <2>4, <2>5, Ejecuta
<1>5. CASE UNCHANGED <<hilo, actual, aKernel>>
  BY <1>3, <1>5
<1> QED
  BY <1>2, <1>4, <1>5
     DEF Next, ModuloCpu, HiloCpu, HiloFs, CpuRecibe, CpuSinInstrucciones,
         KernelElige, KernelEnvia, KernelRecibeDireccion, FsToma, FsTermina,
         kernel

\* At first every process is where the reference starts.
LEMMA SolosInit == Init => InvSolo
<1> SUFFICES ASSUME Init
             PROVE  InvSolo
  OBVIOUS
<1>1. Inv
  BY InvInit
<1>2. ASSUME NEW p \in Procesos
      PROVE  Solo(p) /\ Acabado(p)
  <2>1. PICK e : e = Inicial(p)
    OBVIOUS
  <2>2. PICK m, r : /\ m = [c \in Propias(p) |-> Cero]
                    /\ r = [x \in Registros |-> [j \in 1..Bytes[x] |-> Cero]]
    OBVIOUS
  <2>3. e.falla = FALSE /\ e.mem = m /\ e.regs = r
    <3>1. e = [falla |-> FALSE, mem |-> m, regs |-> r]
      BY <2>1, <2>2 DEF Inicial
    <3> QED
      BY <3>1
  <2>4. pcb[p].pc = 1 /\ pcb[p].registros = r
    <3>1. pcb[p] = [pc |-> 1, registros |-> r]
      BY <2>2 DEF Init
    <3> QED
      BY <3>1
  <2>5. Tras(p, programa[p], 1 - 1) = e
    BY <2>1, TrasRecursivo
  <2>6. ASSUME NEW s \in Tablas[p], NEW d \in 0..s.tamanio - 1
        PROVE  espacio[s.base + d] = m[<<s.idSegmento, d>>]
    <3>1. /\ s.base \in Nat /\ s.tamanio \in Nat
          /\ s.base + s.tamanio <= TAM_MEMORIA
      BY TablasAssumption
    <3>2. s.base + d \in Celdas
      BY <3>1, TamanioAssumption DEF Celdas
    <3>3. <<s.idSegmento, d>> \in Propias(p)
      BY DEF Propias
    <3> QED
      BY <2>2, <3>2, <3>3 DEF Init
  <2>7. Concuerda(p, programa[p], espacio, 1, r)
    BY <2>3, <2>5, <2>6 DEF Concuerda
  <2> QED
    BY <2>4, <2>7, ProcesosAssumption DEF Solo, Acabado, Init
<1> QED
  BY <1>1, <1>2 DEF Init, InvSolo, Solos

\* Every step keeps each process where the reference is.
LEMMA SolosNext ==
    ASSUME PorSeparado, InvSolo, [Next]_vars
    PROVE  InvSolo'
<1>1. Inv /\ Inv'
  BY InvNext DEF InvSolo
<1>2. ASSUME Next, ~ mezclado', Propio'
      PROVE  Solos'
  <2>1. ~ mezclado
    BY <1>2 DEF Next
  <2>2. Propio /\ Solos
    BY <1>1, <1>2, <2>1, PropioAntes DEF InvSolo
  <2> QED
    BY <1>1, <1>2, <2>1, <2>2, SolosCpuRecibe, SolosCpuSinInstrucciones,
       SolosCpuEjecuta, SolosElige, SolosEnvia, SolosRecibe,
       SolosRecibeDireccion, SolosFsToma, SolosFsTermina
       DEF Next, ModuloCpu, HiloCpu, HiloFs
<1>3. ASSUME UNCHANGED vars, ~ mezclado', Propio'
      PROVE  Solos'
  <2>1. UNCHANGED <<programa, pcb, motivo, listos, actual, hilo,
                    direccion_fisica, fs, mezclado, aCpu, aKernel, contexto,
                    espacio>>
    BY <1>3 DEF vars, kernel
  <2>2. Solos
    BY <1>3, <2>1 DEF InvSolo, Propio
  <2>3. \A q : /\ Acabado(q)' <=> Acabado(q)
               /\ Solo(q)' <=> Solo(q)
    BY <2>1 DEF Acabado, Solo
  <2>4. \A q, d : EnArchivo(q, d)' <=> EnArchivo(q, d)
    BY <2>1 DEF EnArchivo
  <2>5. \A q : SoloViaja(q) => SoloViaja(q)'
    BY <2>1, SigueViajando, MismaMemoria
  <2>6. hilo = "espera_direccion" =>
          \E q \in {actual'} : \E x \in {aKernel'} : EnArchivo(q, x[1].direccion)'
    BY <2>1, <2>2 DEF Solos, EnArchivo
  <2>7. /\ hilo = "espera_fs" => \E q \in {actual'} : EnArchivo(q, direccion_fisica)'
        /\ \A q \in {fs} \ {Nulo} : EnArchivo(q, direccion_fisica)'
    BY <2>1, <2>2 DEF Solos, EnArchivo
  <2>8. hilo = "espera" => \E q \in {actual'} : SoloViaja(q)'
    BY <2>1, <2>2, <2>5 DEF Solos
  <2> QED
    BY <2>1, <2>2, <2>3, <2>6, <2>7, <2>8 DEF Solos
<1> QED
  BY <1>1, <1>2, <1>3 DEF InvSolo

\* Whoever runs between two of its instructions, a process has the registers
\* and the segments that its program gives it alone, and ends as it would.
THEOREM ComoASolasSiempre == ASSUME PorSeparado PROVE Spec => []ComoASolas
<1>1. ASSUME InvSolo
      PROVE  ComoASolas
  <2> SUFFICES ASSUME ~ mezclado, hilo = "libre", NEW p \in Procesos \ {fs},
                      ~ ASolas(p).falla
               PROVE  LET e == ASolas(p)
                          i == programa[p][pcb[p].pc]
                      IN  /\ pcb[p].registros = e.regs
                          /\ \A s \in Tablas[p] : \A d \in 0..s.tamanio - 1 :
                                espacio[s.base + d] = e.mem[<<s.idSegmento, d>>]
                          /\ motivo[p] = "EXIT" => i.op = "EXIT"
                          /\ motivo[p] = "SEG_FAULT" => Falla(p, i)
    BY DEF ComoASolas
  <2>1. Solo(p) /\ Acabado(p)
    BY <1>1 DEF InvSolo, Solos, Propio
  <2> QED
    BY <2>1 DEF Solo, Acabado, Concuerda, ASolas
<1>2. InvSolo /\ [Next]_vars => InvSolo'
  BY SolosNext
<1> QED
  BY <1>1, <1>2, SolosInit, PTL DEF Spec
=============================================================================
