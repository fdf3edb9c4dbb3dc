---------------------------- MODULE MemoriaProofs ----------------------------
(***************************************************************************)
(* For every size of the memory and every choice of the allocation         *)
(* algorithm: the segments never overlap, at any step of a compaction      *)
(* either, the list of holes is always the gaps between them, and the      *)
(* reply to a request for a segment is right of the free addresses.        *)
(*                                                                         *)
(* Creating a segment relies on the holes being exact (a hole that was     *)
(* stale would be given out twice), so the two properties are proved       *)
(* together; a compaction relies on what is behind the frontier being      *)
(* packed from 0 and everything else being ahead of it.                    *)
(***************************************************************************)
EXTENDS Memoria, FiniteSetTheorems, WellFoundedInduction, TLAPS

\* Two segments at one base could not be told apart by their addresses.
ConTamanio == \A s \in segmentos : s.tamanio > 0
\* As HuecosAlDia, and also while the memory waits for the kernel's leave: the
\* compaction may start from any state it is refused in.
HuecosExactos ==
    fase # "compacta" =>
        {h \in huecos : h.tamanio > 0} = HuecosEntre(segmentos)
\* The segments a compaction visited are packed from 0 to the frontier.
Compactados == segmentos \ pendientes
Contiguos ==
    fase = "compacta" =>
        /\ SegmentoCero \in Compactados
        /\ \A s \in Compactados :
              /\ Fin(s) <= frontera
              /\ Fin(s) = frontera \/ \E r \in Compactados : r.base = Fin(s)
        /\ \E s \in Compactados : Fin(s) = frontera
        /\ \A s \in pendientes : frontera <= s.base

\* The inductive invariant.
Inv ==
    /\ TypeOK
    /\ ConTamanio
    /\ SegmentoCero \in segmentos
    /\ SegmentosDisjuntos
    /\ HuecosExactos
    /\ fase # "compacta" => pendientes = {}
    /\ Contiguos

-----------------------------------------------------------------------------
\* What the type of a segment says, as facts of arithmetic.
LEMMA SegmentoTipo ==
    ASSUME NEW s \in Segmento
    PROVE  /\ s.base \in Nat /\ s.tamanio \in Nat /\ Fin(s) = s.base + s.tamanio
           /\ Fin(s) \in Nat
  BY DEF Segmento, Fin

\* What membership in HuecosEntre says, as facts of arithmetic.
LEMMA HuecoTipo ==
    ASSUME NEW S \in SUBSET Segmento, NEW h \in HuecosEntre(S)
    PROVE  /\ h.base \in Nat /\ h.tamanio \in Nat \ {0}
           /\ Fin(h) = h.base + h.tamanio /\ h.base < Fin(h)
           /\ h = [base |-> h.base, tamanio |-> h.tamanio]
           /\ h \in Hueco
           /\ h.base = 0 \/ \E s \in S : h.base = Fin(s)
           /\ Fin(h) = TAM_MEMORIA \/ \E s \in S : Fin(h) = s.base
           /\ \A s \in S : Fin(s) <= h.base \/ Fin(h) <= s.base
<1>1. h \in [base : {0} \cup {Fin(s) : s \in S}, tamanio : 1..TAM_MEMORIA]
  BY DEF HuecosEntre
<1>2. /\ Fin(h) \in {TAM_MEMORIA} \cup {s.base : s \in S}
      /\ \A s \in S : Fin(s) <= h.base \/ Fin(h) <= s.base
  BY DEF HuecosEntre
<1>3. \A s \in S : Fin(s) \in Nat
  BY SegmentoTipo
<1>4. /\ h.base \in Nat /\ h.tamanio \in Nat \ {0}
      /\ h = [base |-> h.base, tamanio |-> h.tamanio]
      /\ h.base = 0 \/ \E s \in S : h.base = Fin(s)
  BY <1>1, <1>3, TamaniosAssumption
<1>5. h \in Hueco
  BY <1>4 DEF Hueco
<1>6. Fin(h) = h.base + h.tamanio
  BY DEF Fin
<1> QED
  BY <1>2, <1>4, <1>5, <1>6

\* A stretch between two ends, with no segment in it, is a hole.
LEMMA EsHueco ==
    ASSUME NEW S \in SUBSET Segmento, NEW a \in Nat, NEW n \in Nat \ {0},
           a = 0 \/ \E s \in S : a = Fin(s),
           a + n = TAM_MEMORIA \/ \E s \in S : a + n = s.base,
           a + n <= TAM_MEMORIA,
           \A s \in S : Fin(s) <= a \/ a + n <= s.base
    PROVE  [base |-> a, tamanio |-> n] \in HuecosEntre(S)
<1> DEFINE h == [base |-> a, tamanio |-> n]
<1>1. n \in 1..TAM_MEMORIA
  BY TamaniosAssumption
<1>2. a \in {0} \cup {Fin(s) : s \in S}
  OBVIOUS
<1>3. h \in [base : {0} \cup {Fin(s) : s \in S}, tamanio : 1..TAM_MEMORIA]
  BY <1>1, <1>2
<1>4. Fin(h) = a + n /\ h.base = a
  BY DEF Fin
<1>5. Fin(h) \in {TAM_MEMORIA} \cup {s.base : s \in S}
  BY <1>4
<1> QED
  BY <1>3, <1>4, <1>5 DEF HuecosEntre

Dentro(S) == \A s \in S : Fin(s) <= TAM_MEMORIA
Positivos(S) == \A s \in S : s.tamanio > 0

\* Two holes share no address.
LEMMA HuecosDisjuntos ==
    ASSUME NEW S \in SUBSET Segmento, Dentro(S), Positivos(S),
           NEW h \in HuecosEntre(S), NEW k \in HuecosEntre(S), h # k
    PROVE  Fin(h) <= k.base \/ Fin(k) <= h.base
<1>t. /\ \A s \in S : /\ s.base \in Nat /\ Fin(s) \in Nat
                      /\ s.base < Fin(s) /\ Fin(s) <= TAM_MEMORIA
  BY SegmentoTipo DEF Dentro, Positivos
<1>0. TAM_MEMORIA \in Nat
  BY TamaniosAssumption
<1>m. \A x, y \in HuecosEntre(S) :
         x.base < y.base => Fin(x) <= y.base
  <2> SUFFICES ASSUME NEW x \in HuecosEntre(S), NEW y \in HuecosEntre(S),
                      x.base < y.base
               PROVE  Fin(x) <= y.base
    OBVIOUS
  <2>1. /\ x.base \in Nat /\ y.base \in Nat /\ Fin(x) \in Nat
        /\ \A s \in S : Fin(s) <= x.base \/ Fin(x) <= s.base
        /\ y.base = 0 \/ \E s \in S : y.base = Fin(s)
    BY HuecoTipo
  <2>2. PICK s \in S : y.base = Fin(s)
    BY <2>1
  <2> QED
    BY <2>1, <2>2, <1>t
<1>f. \A x, y \in HuecosEntre(S) :
         x.base = y.base => Fin(x) <= Fin(y)
  <2> SUFFICES ASSUME NEW x \in HuecosEntre(S), NEW y \in HuecosEntre(S),
                      x.base = y.base, Fin(y) < Fin(x)
               PROVE  FALSE
    BY HuecoTipo
  <2>1. /\ x.base \in Nat /\ y.base < Fin(y) /\ Fin(x) \in Nat /\ Fin(y) \in Nat
        /\ \A s \in S : Fin(s) <= x.base \/ Fin(x) <= s.base
    BY HuecoTipo
  <2>2. Fin(x) <= TAM_MEMORIA
    BY HuecoTipo, <1>t, <1>0
  <2>3. Fin(y) = TAM_MEMORIA \/ \E s \in S : Fin(y) = s.base
    BY HuecoTipo
  <2>4. PICK s \in S : Fin(y) = s.base
    BY <2>1, <2>2, <2>3, <1>0
  <2> QED
    BY <2>1, <2>4, <1>t
<1>1. /\ h.base \in Nat /\ k.base \in Nat /\ Fin(h) \in Nat /\ Fin(k) \in Nat
      /\ Fin(h) = h.base + h.tamanio /\ Fin(k) = k.base + k.tamanio
      /\ h.tamanio \in Nat /\ k.tamanio \in Nat
      /\ h = [base |-> h.base, tamanio |-> h.tamanio]
      /\ k = [base |-> k.base, tamanio |-> k.tamanio]
  BY HuecoTipo
<1>2. CASE h.base = k.base
  <2>1. Fin(h) <= Fin(k) /\ Fin(k) <= Fin(h)
    BY <1>2, <1>f
  <2>2. h.tamanio = k.tamanio
    BY <2>1, <1>1, <1>2
  <2>3. h = k
    BY <2>2, <1>1, <1>2
  <2> QED
    BY <2>3
<1>3. CASE h.base # k.base
  BY <1>3, <1>1, <1>m
<1> QED
  BY <1>2, <1>3

\* Placing a segment at the base of a hole leaves the other holes, and what the
\* segment did not take of that one.
LEMMA HuecosTrasCrear ==
    ASSUME NEW S \in SUBSET Segmento, Dentro(S), Positivos(S),
           NEW h \in HuecosEntre(S),
           NEW r \in Segmento, r.base = h.base,
           r.tamanio > 0, r.tamanio <= h.tamanio
    PROVE  HuecosEntre(S \cup {r}) =
              (HuecosEntre(S) \ {h}) \cup Resto(h, r.tamanio)
<1> DEFINE T == S \cup {r}
           q == [base |-> h.base + r.tamanio,
                 tamanio |-> h.tamanio - r.tamanio]
<1>s. \A s \in S : /\ s.base \in Nat /\ Fin(s) \in Nat
                   /\ s.base < Fin(s) /\ Fin(s) <= TAM_MEMORIA
  BY SegmentoTipo DEF Dentro, Positivos
<1>m. TAM_MEMORIA \in Nat
  BY TamaniosAssumption
<1>h. /\ h.base \in Nat /\ h.tamanio \in Nat \ {0} /\ Fin(h) \in Nat
      /\ Fin(h) = h.base + h.tamanio /\ h.base < Fin(h)
      /\ h.base = 0 \/ \E s \in S : h.base = Fin(s)
      /\ Fin(h) = TAM_MEMORIA \/ \E s \in S : Fin(h) = s.base
      /\ \A s \in S : Fin(s) <= h.base \/ Fin(h) <= s.base
  BY HuecoTipo
<1>hm. Fin(h) <= TAM_MEMORIA
  BY <1>h, <1>s, <1>m
<1>r. /\ r.base \in Nat /\ r.tamanio \in Nat /\ Fin(r) \in Nat
      /\ Fin(r) = h.base + r.tamanio /\ h.base < Fin(r) /\ Fin(r) <= Fin(h)
  BY SegmentoTipo, <1>h
<1>T. T \in SUBSET Segmento
  OBVIOUS
<1>1. ASSUME NEW k \in HuecosEntre(S), k # h
      PROVE  k \in HuecosEntre(T)
  <2>1. /\ k.base \in Nat /\ k.tamanio \in Nat \ {0} /\ Fin(k) \in Nat
        /\ Fin(k) = k.base + k.tamanio /\ k.base < Fin(k)
        /\ k = [base |-> k.base, tamanio |-> k.tamanio]
        /\ k.base = 0 \/ \E s \in S : k.base = Fin(s)
        /\ Fin(k) = TAM_MEMORIA \/ \E s \in S : Fin(k) = s.base
        /\ \A s \in S : Fin(s) <= k.base \/ Fin(k) <= s.base
    BY HuecoTipo
  <2>2. Fin(k) <= h.base \/ Fin(h) <= k.base
    BY <1>1, HuecosDisjuntos
  <2>3. Fin(r) <= k.base \/ Fin(k) <= r.base
    BY <2>1, <2>2, <1>h, <1>r
  <2>4. Fin(k) <= TAM_MEMORIA
    BY <2>1, <1>s, <1>m
  <2> QED
    BY <2>1, <2>3, <2>4, <1>T, EsHueco
<1>2. ASSUME r.tamanio < h.tamanio
      PROVE  q \in HuecosEntre(T)
  <2>1. h.base + r.tamanio \in Nat /\ h.tamanio - r.tamanio \in Nat \ {0}
    BY <1>2, <1>h, <1>r
  <2>2. (h.base + r.tamanio) + (h.tamanio - r.tamanio) = Fin(h)
    BY <1>h, <1>r
  <2>3. r \in T /\ Fin(r) = h.base + r.tamanio
    BY <1>r
  <2>4. Fin(h) = TAM_MEMORIA \/ \E s \in T : Fin(h) = s.base
    BY <1>h
  <2>5. \A s \in T : Fin(s) <= h.base + r.tamanio \/ Fin(h) <= s.base
    BY <1>h, <1>r, <1>s
  <2> HIDE DEF T
  <2> QED
    BY <2>1, <2>2, <2>3, <2>4, <2>5, <1>T, <1>hm, EsHueco
<1>3. ASSUME NEW k \in HuecosEntre(T)
      PROVE  k \in (HuecosEntre(S) \ {h}) \cup Resto(h, r.tamanio)
  <2>1. /\ k.base \in Nat /\ k.tamanio \in Nat \ {0} /\ Fin(k) \in Nat
        /\ Fin(k) = k.base + k.tamanio /\ k.base < Fin(k)
        /\ k = [base |-> k.base, tamanio |-> k.tamanio]
        /\ k.base = 0 \/ \E s \in T : k.base = Fin(s)
        /\ Fin(k) = TAM_MEMORIA \/ \E s \in T : Fin(k) = s.base
        /\ \A s \in T : Fin(s) <= k.base \/ Fin(k) <= s.base
    BY <1>T, HuecoTipo
  <2>2. k # h
    BY <2>1, <1>h, <1>r
  <2>3. Fin(k) # r.base \/ Fin(k) = TAM_MEMORIA \/ \E s \in S : Fin(k) = s.base
    <3> SUFFICES ASSUME Fin(k) = h.base, NEW s \in S, h.base = Fin(s)
                 PROVE  FALSE
      BY <2>1, <1>h
    <3>1. Fin(s) <= k.base \/ Fin(k) <= s.base
      BY <2>1
    <3>2. s.base \in Nat /\ Fin(s) \in Nat /\ s.base < Fin(s)
      BY <1>s
    <3>3. k.base \in Nat /\ Fin(k) \in Nat /\ k.base < Fin(k)
      BY <2>1
    <3>4. Fin(k) = Fin(s)
      OBVIOUS
    <3> HIDE DEF T
    <3> QED
      BY <3>1, <3>2, <3>3, <3>4
  <2>4. Fin(k) = TAM_MEMORIA \/ \E s \in S : Fin(k) = s.base
    BY <2>1, <2>3
  <2>m. Fin(k) <= TAM_MEMORIA
    BY <2>4, <1>s, <1>m
  <2>5. CASE k.base = 0 \/ \E s \in S : k.base = Fin(s)
    <3>1. \A s \in S : Fin(s) <= k.base \/ Fin(k) <= s.base
      BY <2>1
    <3>2. k \in HuecosEntre(S)
      BY <2>1, <2>4, <2>m, <2>5, <3>1, EsHueco
    <3> QED
      BY <2>2, <3>2
  <2>6. CASE k.base = Fin(r)
    <3>1. k.base = h.base + r.tamanio
      BY <2>6, <1>r
    <3>2. Fin(h) <= Fin(k)
      <4> SUFFICES ASSUME Fin(k) < Fin(h)
                   PROVE  FALSE
        BY <2>1, <1>h
      <4>1. PICK s \in S : Fin(k) = s.base
        BY <2>4, <1>hm, <1>h, <1>m
      <4>2. Fin(s) <= h.base \/ Fin(h) <= s.base
        BY <1>h
      <4> QED
        BY <4>1, <4>2, <3>1, <2>1, <1>s, <1>h, <1>r
    <3>3. Fin(k) <= Fin(h)
      <4> SUFFICES ASSUME Fin(h) < Fin(k)
                   PROVE  FALSE
        BY <2>1, <1>h
      <4>1. PICK s \in S : Fin(h) = s.base
        BY <2>m, <1>h, <1>m, <2>1
      <4>2. Fin(s) <= k.base \/ Fin(k) <= s.base
        BY <2>1
      <4> QED
        BY <4>1, <4>2, <3>1, <2>1, <1>s, <1>h, <1>r
    <3>4. h.base + h.tamanio = (h.base + r.tamanio) + k.tamanio
      BY <3>1, <3>2, <3>3, <2>1, <1>h
    <3>5. k.tamanio = h.tamanio - r.tamanio /\ h.tamanio > r.tamanio
      BY <3>4, <2>1, <1>h, <1>r
    <3>6. k = q
      BY <3>1, <3>5, <2>1
    <3> QED
      BY <3>5, <3>6 DEF Resto
  <2> QED
    BY <2>1, <2>5, <2>6
<1>4. Resto(h, r.tamanio) \subseteq HuecosEntre(T)
  BY <1>2, <1>h, <1>r DEF Resto
<1> QED
  BY <1>1, <1>3, <1>4

-----------------------------------------------------------------------------
\* A gap is a hole of the memory.
LEMMA SonHuecos ==
    ASSUME NEW S \in SUBSET Segmento
    PROVE  /\ HuecosEntre(S) \in SUBSET Hueco
           /\ {h \in HuecosEntre(S) : h.tamanio > 0} = HuecosEntre(S)
  BY HuecoTipo

\* Segment 0 at 0, and one hole behind it.
LEMMA InvInit == Init => Inv
<1> SUFFICES ASSUME Init
             PROVE  Inv
  OBVIOUS
<1>0. SegmentoCero \in Segmento
  BY TamaniosAssumption DEF SegmentoCero, Segmento
<1>1. {SegmentoCero} \in SUBSET Segmento
  BY <1>0
<1>2. /\ SegmentoCero.tamanio > 0
      /\ Fin(SegmentoCero) = TAM_SEGMENTO_0
  BY TamaniosAssumption DEF SegmentoCero, Fin
<1>3. TypeOK
  BY <1>1, SonHuecos DEF Init, TypeOK
<1>4. ConTamanio
  BY <1>2 DEF Init, ConTamanio
<1>5. SegmentosDisjuntos
  BY <1>2, TamaniosAssumption DEF Init, SegmentosDisjuntos
<1>6. HuecosExactos
  BY <1>1, SonHuecos DEF Init, HuecosExactos
<1>7. Contiguos
  BY DEF Init, Contiguos
<1> QED
  BY <1>3, <1>4, <1>5, <1>6, <1>7 DEF Init, Inv

\* Both ways to remove segments recompute the holes from those that are left.
LEMMA QuitarSegmentos ==
    ASSUME Inv, fase = "atiende", UNCHANGED <<algoritmo, fase, compactacion>>,
           procesos' \in SUBSET Pids,
           segmentos' \in SUBSET segmentos, SegmentoCero \in segmentos',
           ActualizarHuecos(segmentos')
    PROVE  Inv'
<1>1. segmentos' \in SUBSET Segmento
  BY DEF Inv, TypeOK
<1>2. huecos' = HuecosEntre(segmentos')
  BY DEF ActualizarHuecos
<1>3. TypeOK'
  BY <1>1, <1>2, SonHuecos DEF Inv, TypeOK, compactacion
<1>4. ConTamanio'
  BY DEF Inv, ConTamanio
<1>5. SegmentosDisjuntos'
  BY DEF Inv, SegmentosDisjuntos
<1>6. HuecosExactos'
  BY <1>1, <1>2, SonHuecos DEF HuecosExactos
<1>7. Contiguos'
  BY DEF Contiguos
<1> QED
  BY <1>3, <1>4, <1>5, <1>6, <1>7 DEF Inv, compactacion

\* A process that starts gets segment 0 and no memory.
LEMMA InvCrearProceso ==
    ASSUME Inv, NEW p \in Pids, CrearProceso(p), UNCHANGED algoritmo
    PROVE  Inv'
<1>1. TypeOK'
  BY DEF Inv, TypeOK, CrearProceso, compactacion
<1>2. SegmentosDisjuntos' /\ HuecosExactos' /\ ConTamanio'
  BY DEF Inv, CrearProceso, SegmentosDisjuntos, HuecosExactos, ConTamanio
<1>3. Contiguos'
  BY DEF CrearProceso, Contiguos
<1> QED
  BY <1>1, <1>2, <1>3 DEF Inv, CrearProceso, compactacion

\* A segment, or all those of a process, are freed and the holes are
\* joined.
LEMMA InvEliminar ==
    ASSUME Inv, UNCHANGED algoritmo, NEW p \in Pids,
           \/ EliminarProceso(p)
           \/ \E id \in Ids : EliminarSegmento(p, id)
    PROVE  Inv'
<1>1. SegmentoCero.pid # p
  BY IdsAssumption DEF SegmentoCero
<1>2. SegmentoCero \in segmentos
  BY DEF Inv
<1>3. CASE EliminarProceso(p)
  <2>1. segmentos' \in SUBSET segmentos /\ SegmentoCero \in segmentos'
    BY <1>1, <1>2, <1>3 DEF EliminarProceso
  <2> QED
    BY <1>3, <2>1, QuitarSegmentos DEF EliminarProceso, Inv, TypeOK
<1>4. ASSUME NEW id \in Ids, EliminarSegmento(p, id)
      PROVE  Inv'
  <2>1. segmentos' \in SUBSET segmentos /\ SegmentoCero \in segmentos'
    BY <1>1, <1>2, <1>4 DEF EliminarSegmento
  <2>2. /\ fase = "atiende" /\ UNCHANGED <<algoritmo, fase, compactacion>>
        /\ ActualizarHuecos(segmentos') /\ procesos' = procesos
    BY <1>4 DEF EliminarSegmento
  <2> QED
    BY <2>1, <2>2, QuitarSegmentos DEF Inv, TypeOK
<1> QED
  BY <1>3, <1>4

\* A segment is put at the start of a hole that holds it.
LEMMA InvCrearSegmento ==
    ASSUME Inv, NEW p \in Pids, NEW id \in Ids, NEW t \in Tamanios,
           PedidoCrearSegmento(p, id, t), CrearSegmento(p, id, t),
           UNCHANGED algoritmo
    PROVE  Inv'
<1>0. /\ fase = "atiende" /\ UNCHANGED <<procesos, fase, compactacion>>
      /\ t \in Nat \ {0}
  BY TamaniosAssumption DEF PedidoCrearSegmento, CrearSegmento
<1>t. /\ segmentos \in SUBSET Segmento /\ Positivos(segmentos)
      /\ Dentro(segmentos) /\ pendientes = {}
      /\ {h \in huecos : h.tamanio > 0} = HuecosEntre(segmentos)
  BY <1>0 DEF Inv, TypeOK, ConTamanio, Positivos, Dentro, SegmentosDisjuntos,
              HuecosExactos
<1>1. PICK h \in Elegibles(t) :
         /\ segmentos' = segmentos \cup
               {[pid |-> p, idSegmento |-> id, base |-> h.base, tamanio |-> t]}
         /\ huecos' = (huecos \ {h}) \cup Resto(h, t)
  BY DEF CrearSegmento
<1> DEFINE r == [pid |-> p, idSegmento |-> id, base |-> h.base, tamanio |-> t]
<1>2. h \in huecos /\ h.tamanio >= t /\ h \in Hueco
  BY DEF Elegibles, Entran, Inv, TypeOK
<1>3. h \in HuecosEntre(segmentos)
  BY <1>2, <1>t, <1>0 DEF Hueco
<1>4. r \in Segmento /\ r.base = h.base /\ r.tamanio = t
  BY <1>2, <1>0 DEF Segmento, Hueco
<1>5. HuecosEntre(segmentos') = (HuecosEntre(segmentos) \ {h}) \cup Resto(h, t)
  <2>1. r.tamanio > 0 /\ r.tamanio <= h.tamanio
    BY <1>4, <1>0, <1>2 DEF Hueco
  <2> HIDE DEF r
  <2> QED
    BY <1>1, <1>3, <1>4, <2>1, <1>t, HuecosTrasCrear DEF r
<1>6. Resto(h, t) \in SUBSET Hueco /\ \A k \in Resto(h, t) : k.tamanio > 0
  BY <1>2, <1>0 DEF Resto, Hueco
<1>7. TypeOK'
  BY <1>0, <1>1, <1>4, <1>6 DEF Inv, TypeOK, compactacion
<1>8. ConTamanio'
  BY <1>1, <1>0, <1>4 DEF Inv, ConTamanio
<1>9. SegmentosDisjuntos'
  <2>1. /\ \A s \in segmentos : Fin(s) <= h.base \/ Fin(h) <= s.base
        /\ h.base \in Nat /\ Fin(h) \in Nat /\ Fin(h) = h.base + h.tamanio
        /\ Fin(h) = TAM_MEMORIA \/ \E s \in segmentos : Fin(h) = s.base
    BY <1>3, <1>t, HuecoTipo
  <2>2. \A s \in segmentos : /\ s.base \in Nat /\ Fin(s) \in Nat
                             /\ s.base <= Fin(s) /\ Fin(s) <= TAM_MEMORIA
    BY <1>t, SegmentoTipo DEF Dentro
  <2>3. Fin(r) = h.base + t /\ Fin(r) <= Fin(h) /\ Fin(r) \in Nat
    BY <1>2, <1>0, <2>1 DEF Fin, Hueco
  <2>4. TAM_MEMORIA \in Nat
    BY TamaniosAssumption
  <2>5. Fin(r) <= TAM_MEMORIA
    <3>1. Fin(h) <= TAM_MEMORIA
      BY <2>1, <2>2, <2>4
    <3> HIDE DEF r
    <3> QED
      BY <3>1, <2>1, <2>3, <2>4
  <2>6. \A s \in segmentos : Fin(s) <= r.base \/ Fin(r) <= s.base
    <3> HIDE DEF r
    <3> QED
      BY <1>4, <2>1, <2>2, <2>3
  <2>7. segmentos' = segmentos \cup {r}
    BY <1>1
  <2> HIDE DEF r
  <2> QED
    BY <2>7, <2>5, <2>6 DEF Inv, SegmentosDisjuntos
<1>10. HuecosExactos'
  <2>1. {k \in huecos' : k.tamanio > 0} =
           ({k \in huecos : k.tamanio > 0} \ {h}) \cup Resto(h, t)
    BY <1>1, <1>6
  <2> QED
    BY <2>1, <1>5, <1>t DEF HuecosExactos
<1>11. Contiguos' /\ SegmentoCero \in segmentos' /\ pendientes' = {}
  BY <1>0, <1>1, <1>t DEF Contiguos, Inv, compactacion
<1> QED
  BY <1>7, <1>8, <1>9, <1>10, <1>11 DEF Inv

\* No hole holds the segment: it is refused or a compaction is asked for.
LEMMA InvNoCrearSegmento ==
    ASSUME Inv, NEW p \in Pids, NEW id \in Ids, NEW t \in Tamanios,
           PedidoCrearSegmento(p, id, t), NoCrearSegmento(p, id, t),
           UNCHANGED algoritmo
    PROVE  Inv'
<1>1. /\ fase = "atiende" /\ fase' \in {"atiende", "espera_kernel"}
      /\ UNCHANGED <<procesos, segmentos, huecos, pendientes, frontera>>
  BY DEF PedidoCrearSegmento, NoCrearSegmento, compactacion
<1>2. TypeOK'
  BY <1>1 DEF Inv, TypeOK
<1>3. SegmentosDisjuntos' /\ HuecosExactos' /\ ConTamanio'
  BY <1>1 DEF Inv, SegmentosDisjuntos, HuecosExactos, ConTamanio
<1>4. Contiguos'
  BY <1>1 DEF Contiguos
<1> QED
  BY <1>1, <1>2, <1>3, <1>4 DEF Inv

-----------------------------------------------------------------------------
\* What the segments of a reachable state satisfy, as facts of arithmetic.
LEMMA DeSegmentos ==
    ASSUME Inv
    PROVE  /\ segmentos \in SUBSET Segmento
           /\ \A s \in segmentos :
                 /\ s.base \in Nat /\ s.tamanio \in Nat \ {0} /\ Fin(s) \in Nat
                 /\ Fin(s) = s.base + s.tamanio /\ Fin(s) <= TAM_MEMORIA
           /\ \A s, r \in segmentos :
                 s = r \/ Fin(s) <= r.base \/ Fin(r) <= s.base
           /\ TAM_MEMORIA \in Nat /\ frontera \in Nat
           /\ SegmentoCero \in segmentos /\ SegmentoCero.base = 0
<1>1. /\ segmentos \in SUBSET Segmento /\ frontera \in Nat
      /\ SegmentoCero \in segmentos /\ TAM_MEMORIA \in Nat
  BY TamaniosAssumption DEF Inv, TypeOK
<1>2. SegmentoCero.base = 0
  BY DEF SegmentoCero
<1>3. \A s \in segmentos :
         /\ s.base \in Nat /\ s.tamanio \in Nat \ {0} /\ Fin(s) \in Nat
         /\ Fin(s) = s.base + s.tamanio
  BY <1>1, SegmentoTipo DEF Inv, ConTamanio
<1>4. /\ \A s \in segmentos : Fin(s) <= TAM_MEMORIA
      /\ \A s, r \in segmentos : s = r \/ Fin(s) <= r.base \/ Fin(r) <= s.base
  BY DEF Inv, SegmentosDisjuntos
<1> QED
  BY <1>1, <1>2, <1>3, <1>4

\* A compaction starts with nothing behind its frontier but segment 0.
LEMMA InvRecibirCompactar ==
    ASSUME Inv, RecibirCompactar, UNCHANGED algoritmo
    PROVE  Inv'
<1>0. /\ fase = "espera_kernel" /\ fase' = "compacta"
      /\ UNCHANGED <<procesos, segmentos, huecos>>
  BY DEF RecibirCompactar
<1>1. PICK s \in segmentos :
         /\ \A r \in segmentos : s.base <= r.base
         /\ frontera' = Fin(s)
         /\ pendientes' = segmentos \ {s}
  BY DEF RecibirCompactar
<1>2. s = SegmentoCero
  <2>1. /\ s.base \in Nat /\ s.base <= 0 /\ s.tamanio \in Nat \ {0}
        /\ Fin(s) = s.base + s.tamanio
    BY <1>1, DeSegmentos
  <2>2. /\ SegmentoCero \in segmentos /\ SegmentoCero.base = 0
        /\ SegmentoCero.tamanio \in Nat \ {0}
        /\ Fin(SegmentoCero) = SegmentoCero.base + SegmentoCero.tamanio
    BY DeSegmentos
  <2>3. \/ s = SegmentoCero \/ Fin(s) <= SegmentoCero.base
        \/ Fin(SegmentoCero) <= s.base
    BY <2>2, DeSegmentos
  <2> QED
    BY <2>1, <2>2, <2>3
<1>3. \A r \in segmentos \ {s} : Fin(s) <= r.base
  <2> SUFFICES ASSUME NEW r \in segmentos \ {s}
               PROVE  Fin(s) <= r.base
    OBVIOUS
  <2>1. /\ Fin(s) <= r.base \/ Fin(r) <= s.base
        /\ r.base \in Nat /\ r.tamanio \in Nat \ {0}
        /\ Fin(r) = r.base + r.tamanio /\ s.base = 0
    BY <1>2, DeSegmentos
  <2> QED
    BY <2>1
<1>4. Fin(s) \in Nat
  BY DeSegmentos
<1>5. TypeOK'
  BY <1>0, <1>1, <1>4 DEF Inv, TypeOK
<1>6. SegmentosDisjuntos' /\ ConTamanio' /\ HuecosExactos'
  BY <1>0 DEF Inv, SegmentosDisjuntos, ConTamanio, HuecosExactos
<1>7. Compactados' = {s}
  BY <1>0, <1>1 DEF Compactados
<1>8. Contiguos'
  BY <1>1, <1>2, <1>3, <1>4, <1>7 DEF Contiguos
<1> QED
  BY <1>0, <1>5, <1>6, <1>8 DEF Inv

\* The next segment is moved down to the frontier.
LEMMA InvCompactarUno ==
    ASSUME Inv, CompactarUno, UNCHANGED algoritmo
    PROVE  Inv'
<1>0. fase = "compacta" /\ UNCHANGED <<procesos, huecos, fase>>
  BY DEF CompactarUno
<1>1. PICK s \in Siguientes :
         /\ segmentos' = (segmentos \ {s}) \cup {[s EXCEPT !.base = frontera]}
         /\ pendientes' = pendientes \ {s}
         /\ frontera' = frontera + s.tamanio
  BY DEF CompactarUno
<1> DEFINE n == [s EXCEPT !.base = frontera]
<1>2. /\ s \in pendientes /\ s \in segmentos
      /\ \A r \in pendientes : s.base <= r.base
  BY DEF Siguientes, Inv, TypeOK
<1>s. /\ s.base \in Nat /\ s.tamanio \in Nat \ {0} /\ Fin(s) \in Nat
      /\ Fin(s) = s.base + s.tamanio /\ Fin(s) <= TAM_MEMORIA
      /\ frontera \in Nat /\ TAM_MEMORIA \in Nat
  BY <1>2, DeSegmentos
<1>c. /\ SegmentoCero \in Compactados
      /\ \A r \in Compactados :
            /\ Fin(r) <= frontera
            /\ Fin(r) = frontera \/ \E q \in Compactados : q.base = Fin(r)
      /\ \A r \in pendientes : frontera <= r.base
  BY <1>0 DEF Inv, Contiguos
<1>f. frontera' \in Nat /\ frontera' <= Fin(s)
  <2>1. frontera <= s.base
    BY <1>c, <1>2
  <2> QED
    BY <2>1, <1>1, <1>s
<1>n. /\ n \in Segmento /\ n.base = frontera /\ n.tamanio = s.tamanio
      /\ Fin(n) = frontera'
  <2>1. s \in Segmento
    BY <1>2, DeSegmentos
  <2>2. n \in Segmento /\ n.base = frontera /\ n.tamanio = s.tamanio
    BY <2>1, <1>s DEF Segmento
  <2> QED
    BY <2>2, <1>1 DEF Fin
<1>p. \A r \in pendientes \ {s} : frontera' <= r.base
  <2> SUFFICES ASSUME NEW r \in pendientes \ {s}
               PROVE  frontera' <= r.base
    OBVIOUS
  <2>1. r \in segmentos
    BY DEF Inv, TypeOK
  <2>2. /\ Fin(s) <= r.base \/ Fin(r) <= s.base
        /\ r.base \in Nat /\ r.tamanio \in Nat \ {0}
        /\ Fin(r) = r.base + r.tamanio
    BY <1>2, <2>1, DeSegmentos
  <2>3. s.base <= r.base
    BY <1>2
  <2> QED
    BY <2>2, <2>3, <1>s, <1>f
<1>q. /\ n \notin pendientes \ {s} /\ n \notin Compactados
  <2>1. n \notin pendientes \ {s}
    <3> SUFFICES ASSUME n \in pendientes \ {s}
                 PROVE  FALSE
      OBVIOUS
    <3>1. frontera' <= n.base
      BY <1>p
    <3> HIDE DEF n
    <3> QED
      BY <3>1, <1>n, <1>s, <1>1
  <2>2. n \notin Compactados
    <3> SUFFICES ASSUME n \in Compactados
                 PROVE  FALSE
      OBVIOUS
    <3>1. Fin(n) <= frontera
      BY <1>c
    <3> HIDE DEF n
    <3> QED
      BY <3>1, <1>n, <1>s, <1>1
  <2> QED
    BY <2>1, <2>2
<1>C. Compactados' = Compactados \cup {n}
  <2>1. pendientes \subseteq segmentos
    BY DEF Inv, TypeOK
  <2> HIDE DEF n
  <2> QED
    BY <1>1, <1>2, <1>q, <2>1 DEF Compactados, n
<1>3. TypeOK'
  <2>1. segmentos' \in SUBSET Segmento
    BY <1>1, <1>n, DeSegmentos
  <2>2. pendientes' \in SUBSET segmentos'
    BY <1>1 DEF Inv, TypeOK
  <2> QED
    BY <1>0, <1>f, <2>1, <2>2 DEF Inv, TypeOK
<1>4. ConTamanio'
  <2>1. n.tamanio > 0 /\ segmentos' = (segmentos \ {s}) \cup {n}
    BY <1>1, <1>n, <1>s
  <2> HIDE DEF n
  <2> QED
    BY <2>1 DEF Inv, ConTamanio
<1>5. SegmentosDisjuntos'
  <2>1. Fin(n) <= TAM_MEMORIA
    BY <1>n, <1>f, <1>s
  <2>2. \A r \in segmentos \ {s} : Fin(n) <= r.base \/ Fin(r) <= n.base
    <3> SUFFICES ASSUME NEW r \in segmentos \ {s}
                 PROVE  Fin(n) <= r.base \/ Fin(r) <= n.base
      OBVIOUS
    <3>1. CASE r \in pendientes
      <4>1. frontera' <= r.base
        BY <3>1, <1>p
      <4> HIDE DEF n
      <4> QED
        BY <4>1, <1>n
    <3>2. CASE r \notin pendientes
      <4>1. Fin(r) <= frontera
        BY <3>2, <1>c DEF Compactados
      <4> HIDE DEF n
      <4> QED
        BY <4>1, <1>n
    <3> QED
      BY <3>1, <3>2
  <2>3. /\ \A r \in segmentos : Fin(r) <= TAM_MEMORIA
        /\ \A r, q \in segmentos : r = q \/ Fin(r) <= q.base \/ Fin(q) <= r.base
    BY DeSegmentos
  <2>4. segmentos' = (segmentos \ {s}) \cup {n}
    BY <1>1
  <2> HIDE DEF n
  <2> QED
    BY <2>1, <2>2, <2>3, <2>4 DEF SegmentosDisjuntos
<1>6. Contiguos'
  <2>1. \A r \in Compactados' :
           /\ Fin(r) <= frontera'
           /\ Fin(r) = frontera' \/ \E q \in Compactados' : q.base = Fin(r)
    <3> SUFFICES ASSUME NEW r \in Compactados', r # n
                 PROVE  /\ Fin(r) <= frontera'
                        /\ \E q \in Compactados' : q.base = Fin(r)
      BY <1>n, <1>f
    <3>1. r \in Compactados
      BY <1>C
    <3>2. Fin(r) <= frontera /\ Fin(r) \in Nat
      BY <3>1, <1>c, DeSegmentos DEF Compactados
    <3>3. Fin(r) <= frontera'
      BY <3>2, <1>1, <1>s, <1>f
    <3>4. Fin(r) = frontera \/ \E q \in Compactados : q.base = Fin(r)
      BY <3>1, <1>c
    <3> HIDE DEF n
    <3> QED
      BY <3>3, <3>4, <1>C, <1>n
  <2>2. \A r \in pendientes' : frontera' <= r.base
    BY <1>1, <1>p
  <2>3. \E r \in Compactados' : Fin(r) = frontera'
    BY <1>C, <1>n
  <2>4. SegmentoCero \in Compactados'
    BY <1>C, <1>c
  <2> QED
    BY <2>1, <2>2, <2>3, <2>4 DEF Contiguos
<1>7. HuecosExactos'
  BY <1>0 DEF HuecosExactos
<1>8. SegmentoCero \in segmentos'
  BY <1>C, <1>c DEF Compactados
<1> QED
  BY <1>0, <1>3, <1>4, <1>5, <1>6, <1>7, <1>8 DEF Inv

\* Everything is behind the frontier: one hole is left.
LEMMA InvTerminarCompactacion ==
    ASSUME Inv, TerminarCompactacion, UNCHANGED algoritmo
    PROVE  Inv'
<1>0. /\ fase = "compacta" /\ pendientes = {} /\ fase' = "atiende"
      /\ huecos' = {[base |-> frontera, tamanio |-> TAM_MEMORIA - frontera]}
      /\ frontera' = 0 /\ UNCHANGED <<procesos, segmentos, pendientes>>
  BY DEF TerminarCompactacion, GranHueco
<1> DEFINE g == [base |-> frontera, tamanio |-> TAM_MEMORIA - frontera]
<1>c. /\ \A s \in segmentos :
            /\ Fin(s) <= frontera
            /\ Fin(s) = frontera \/ \E r \in segmentos : r.base = Fin(s)
      /\ \E s \in segmentos : Fin(s) = frontera
  BY <1>0 DEF Inv, Contiguos, Compactados
<1>f. frontera \in Nat /\ frontera <= TAM_MEMORIA /\ TAM_MEMORIA \in Nat
  BY <1>c, DeSegmentos
<1>1. g \in Hueco /\ g.base = frontera /\ g.tamanio = TAM_MEMORIA - frontera
  BY <1>f DEF Hueco
<1>2. TypeOK'
  BY <1>0, <1>1 DEF Inv, TypeOK
<1>3. ASSUME NEW h \in HuecosEntre(segmentos)
      PROVE  h = g /\ frontera < TAM_MEMORIA
  <2>1. /\ h.base \in Nat /\ h.tamanio \in Nat \ {0}
        /\ Fin(h) = h.base + h.tamanio /\ h.base < Fin(h)
        /\ h = [base |-> h.base, tamanio |-> h.tamanio]
        /\ h.base = 0 \/ \E s \in segmentos : h.base = Fin(s)
        /\ Fin(h) = TAM_MEMORIA \/ \E s \in segmentos : Fin(h) = s.base
        /\ \A s \in segmentos : Fin(s) <= h.base \/ Fin(h) <= s.base
    BY DeSegmentos, HuecoTipo
  <2>2. ASSUME NEW r \in segmentos, r.base = h.base
        PROVE  FALSE
    <3>1. /\ r.base \in Nat /\ r.tamanio \in Nat \ {0}
          /\ Fin(r) = r.base + r.tamanio
      BY DeSegmentos
    <3>2. Fin(r) <= h.base \/ Fin(h) <= r.base
      BY <2>1
    <3> QED
      BY <3>1, <3>2, <2>1, <2>2
  <2>3. h.base = frontera
    BY <2>1, <2>2, <1>c, DeSegmentos
  <2>4. Fin(h) = TAM_MEMORIA
    <3> SUFFICES ASSUME NEW s \in segmentos, Fin(h) = s.base
                 PROVE  FALSE
      BY <2>1
    <3>1. /\ s.base \in Nat /\ s.tamanio \in Nat \ {0}
          /\ Fin(s) = s.base + s.tamanio /\ Fin(s) <= frontera
      BY DeSegmentos, <1>c
    <3> QED
      BY <3>1, <2>1, <2>3, <1>f
  <2>5. h.tamanio = TAM_MEMORIA - frontera /\ frontera < TAM_MEMORIA
    BY <2>1, <2>3, <2>4, <1>f
  <2> QED
    BY <2>1, <2>3, <2>5
<1>4. ASSUME frontera < TAM_MEMORIA
      PROVE  g \in HuecosEntre(segmentos)
  <2>1. /\ TAM_MEMORIA - frontera \in Nat \ {0}
        /\ frontera + (TAM_MEMORIA - frontera) = TAM_MEMORIA
    BY <1>f, <1>4
  <2>2. /\ segmentos \in SUBSET Segmento
        /\ \E s \in segmentos : frontera = Fin(s)
        /\ \A s \in segmentos : Fin(s) <= frontera
    BY DeSegmentos, <1>c
  <2> QED
    BY <1>f, <2>1, <2>2, EsHueco
<1>5. {h \in huecos' : h.tamanio > 0} = HuecosEntre(segmentos)
  <2>1. {h \in huecos' : h.tamanio > 0} =
           IF frontera < TAM_MEMORIA THEN {g} ELSE {}
    BY <1>0, <1>1, <1>f
  <2> HIDE DEF g
  <2> QED
    BY <2>1, <1>3, <1>4
<1>6. HuecosExactos'
  BY <1>0, <1>5 DEF HuecosExactos
<1>7. SegmentosDisjuntos' /\ ConTamanio' /\ Contiguos'
  BY <1>0 DEF Inv, SegmentosDisjuntos, ConTamanio, Contiguos
<1> QED
  BY <1>0, <1>2, <1>6, <1>7 DEF Inv

\* Every step keeps the invariant.
LEMMA InvNext == Inv /\ [Next]_vars => Inv'
<1> SUFFICES ASSUME Inv, [Next]_vars
             PROVE  Inv'
  OBVIOUS
<1>1. CASE UNCHANGED vars
  <2>1. TypeOK' /\ SegmentosDisjuntos'
    BY <1>1 DEF Inv, TypeOK, SegmentosDisjuntos, vars, compactacion
  <2>2. HuecosExactos' /\ ConTamanio' /\ Contiguos'
    BY <1>1 DEF Inv, HuecosExactos, ConTamanio, Contiguos, Compactados, vars,
                compactacion
  <2> QED
    BY <1>1, <2>1, <2>2 DEF Inv, vars
<1>2. ASSUME NEW p \in Pids, CrearProceso(p), UNCHANGED algoritmo
      PROVE  Inv'
  BY <1>2, InvCrearProceso
<1>3. ASSUME NEW p \in Pids, UNCHANGED algoritmo,
             \/ EliminarProceso(p)
             \/ \E id \in Ids : EliminarSegmento(p, id)
      PROVE  Inv'
  BY <1>3, InvEliminar
<1>4. ASSUME NEW p \in Pids, NEW id \in Ids, NEW t \in Tamanios,
             PedidoCrearSegmento(p, id, t), UNCHANGED algoritmo
      PROVE  Inv'
  <2>1. CrearSegmento(p, id, t) \/ NoCrearSegmento(p, id, t)
    BY <1>4 DEF PedidoCrearSegmento
  <2> QED
    BY <2>1, <1>4, InvCrearSegmento, InvNoCrearSegmento
<1>5. CASE (RecibirCompactar \/ CompactarUno \/ TerminarCompactacion)
           /\ UNCHANGED algoritmo
  BY <1>5, InvRecibirCompactar, InvCompactarUno, InvTerminarCompactacion
<1> QED
  BY <1>1, <1>2, <1>3, <1>4, <1>5 DEF Next, Atiende

\* Every request and every step of a compaction keeps the inductive invariant.
THEOREM SpecInv == Spec => []Inv
  BY InvInit, InvNext, PTL DEF Spec

\* The memory is well typed: in particular the compaction never moves the
\* frontier past the end of the memory, where the size of the hole it leaves,
\* TAM_MEMORIA - frontera, would be negative.
THEOREM TipoCorrecto == Spec => []TypeOK
<1>1. Inv => TypeOK
  BY DEF Inv
<1> QED
  BY <1>1, SpecInv, PTL

\* crearSegmento, eliminarSegmento and every step of compactarSegmentos keep the
\* segments apart and inside the memory, whatever its size and the sizes asked.
THEOREM SegmentosSeparados == Spec => []SegmentosDisjuntos
<1>1. Inv => SegmentosDisjuntos
  BY DEF Inv
<1> QED
  BY <1>1, SpecInv, PTL

\* The list of holes, updated in place by crearSegmento and replaced by
\* compactarSegmentos, is what actualizarHuecosVacios would compute.
THEOREM HuecosSiempreAlDia == Spec => []HuecosAlDia
<1>1. Inv => HuecosAlDia
  BY DEF Inv, HuecosExactos, HuecosAlDia
<1> QED
  BY <1>1, SpecInv, PTL
-----------------------------------------------------------------------------
(* The reply to a request for a segment.  It is decided from the list of   *)
(* holes: their sizes, and the sum of their sizes.  The sum is a fold of   *)
(* the library; that it counts the free addresses is an induction on the   *)
(* set of holes, carried out on a smallest set where it would fail.        *)

\* A set of naturals has a first.
LEMMA HayPrimero ==
    ASSUME NEW S \in SUBSET Nat, S # {}
    PROVE  \E x \in S : \A y \in S : x <= y
<1>1. PICK R : R = {s \in Nat \X Nat : s[1] < s[2]}
  OBVIOUS
<1>2. IsWellFoundedOn(R, Nat)
  BY <1>1, NatLessThanWellFounded DEF OpToRel
<1>3. PICK x \in S : \A y \in S : ~ (<<y, x>> \in R)
  BY <1>2, WFMin
<1>4. \A y \in S : y < x => <<y, x>> \in R
  BY <1>1
<1>5. \A y \in S : ~ (y < x)
  BY <1>3, <1>4
<1>6. x \in Nat /\ \A y \in S : y \in Nat
  OBVIOUS
<1> QED
  BY <1>5, <1>6

\* Things told apart by a base inside the memory are finitely many.
LEMMA FinitosPorBase ==
    ASSUME NEW S, \A s \in S : s.base \in 0..TAM_MEMORIA,
           \A s, r \in S : s.base = r.base => s = r
    PROVE  IsFiniteSet(S)
<1> DEFINE f == [s \in S |-> s.base]
<1>1. f \in Injection(S, 0..TAM_MEMORIA)
  BY DEF Injection, IsInjective
<1>2. IsFiniteSet(0..TAM_MEMORIA)
  BY FS_Interval, TamaniosAssumption
<1> QED
  BY <1>1, <1>2, FS_Injection

\* The addresses of a hole.
DireccionesDe(h) == h.base..(Fin(h) - 1)
\* No hole, one of size 0 either, leaves the memory.
HuecosDentro == \A h \in huecos : Fin(h) <= TAM_MEMORIA
\* No table, of a process the kernel created or not, outgrows the limit.
TablasAcotadas == \A p \in Pids : Cardinality(Tabla(p)) <= CANT_SEGMENTOS
\* The inductive invariant of the replies.
InvRespuesta == Inv /\ HuecosDentro /\ TablasAcotadas

LEMMA SegmentosFinitos ==
    ASSUME Inv
    PROVE  /\ IsFiniteSet(segmentos)
           /\ \A p \in Pids : IsFiniteSet(Tabla(p)) /\ Cardinality(Tabla(p)) \in Nat
<1>1. \A s \in segmentos : /\ s.base \in Nat /\ Fin(s) \in Nat
                           /\ s.base < Fin(s) /\ Fin(s) <= TAM_MEMORIA
  BY SegmentoTipo DEF Inv, TypeOK, ConTamanio, SegmentosDisjuntos
<1>2. \A s, r \in segmentos : s.base = r.base => s = r
  BY <1>1 DEF Inv, SegmentosDisjuntos
<1>3. \A s \in segmentos : s.base \in 0..TAM_MEMORIA
  BY <1>1, TamaniosAssumption
<1>4. IsFiniteSet(segmentos)
  BY <1>2, <1>3, FinitosPorBase
<1>5. \A p \in Pids : Tabla(p) \in SUBSET segmentos
  BY DEF Tabla
<1> QED
  BY <1>4, <1>5, FS_Subset, FS_CardinalityType

\* The holes between segments inside the memory are inside it.
LEMMA HuecosEntreDentro ==
    ASSUME NEW S \in SUBSET Segmento, Dentro(S), NEW h \in HuecosEntre(S)
    PROVE  Fin(h) <= TAM_MEMORIA
<1>1. \A s \in S : s.base \in Nat /\ s.base <= Fin(s) /\ Fin(s) <= TAM_MEMORIA
  BY SegmentoTipo DEF Dentro
<1>2. Fin(h) = TAM_MEMORIA \/ \E s \in S : Fin(h) = s.base
  BY HuecoTipo
<1> QED
  BY <1>1, <1>2, SegmentoTipo, TamaniosAssumption

LEMMA InvRespuestaInit == Init => InvRespuesta
<1> SUFFICES ASSUME Init
             PROVE  HuecosDentro /\ TablasAcotadas
  BY InvInit DEF InvRespuesta
<1>0. Inv
  BY InvInit
<1>1. HuecosDentro
  BY <1>0, HuecosEntreDentro
     DEF Init, HuecosDentro, Inv, TypeOK, SegmentosDisjuntos, Dentro
<1>2. \A p \in Pids : Tabla(p) = {SegmentoCero}
  BY DEF Init, Tabla, SegmentoCero
<1>3. Cardinality({SegmentoCero}) = 1
  BY FS_Singleton
<1> QED
  BY <1>1, <1>2, <1>3, TablaAssumption DEF TablasAcotadas

\* Fewer segments make no table longer.
LEMMA TablasAlQuitar ==
    ASSUME InvRespuesta, segmentos' \in SUBSET segmentos
    PROVE  TablasAcotadas'
<1> SUFFICES ASSUME NEW p \in Pids
             PROVE  Cardinality(Tabla(p)') <= CANT_SEGMENTOS
  BY DEF TablasAcotadas
<1>1. Tabla(p)' \in SUBSET Tabla(p)
  BY DEF Tabla
<1>2. /\ IsFiniteSet(Tabla(p)) /\ Cardinality(Tabla(p)) \in Nat
      /\ Cardinality(Tabla(p)) <= CANT_SEGMENTOS
  BY SegmentosFinitos DEF InvRespuesta, TablasAcotadas
<1>3. /\ IsFiniteSet(Tabla(p)') /\ Cardinality(Tabla(p)') <= Cardinality(Tabla(p))
  BY <1>1, <1>2, FS_Subset
<1>4. Cardinality(Tabla(p)') \in Nat
  BY <1>3, FS_CardinalityType
<1> QED
  BY <1>2, <1>3, <1>4, TablaAssumption

\* A segment is created in a table with room, and in no other.
LEMMA TablasAlCrear ==
    ASSUME InvRespuesta, NEW p \in Pids, NEW id \in Ids, NEW t \in Tamanios,
           CrearSegmento(p, id, t)
    PROVE  TablasAcotadas' /\ HuecosDentro'
<1>1. PICK h \in Elegibles(t) :
          /\ segmentos' = segmentos \cup
                {[pid |-> p, idSegmento |-> id, base |-> h.base, tamanio |-> t]}
          /\ huecos' = (huecos \ {h}) \cup Resto(h, t)
  BY DEF CrearSegmento
<1>2. ~ TablaLlena(p)
  BY DEF CrearSegmento, PuedoCrearSegmento
<1>3. PICK r : r = [pid |-> p, idSegmento |-> id, base |-> h.base, tamanio |-> t]
  OBVIOUS
<1>4. h \in huecos /\ h \in Hueco /\ h.tamanio >= t
  BY DEF Elegibles, Entran, InvRespuesta, Inv, TypeOK
<1>5. TablasAcotadas'
  <2> SUFFICES ASSUME NEW q \in Pids
               PROVE  Cardinality(Tabla(q)') <= CANT_SEGMENTOS
    BY DEF TablasAcotadas
  <2>1. /\ IsFiniteSet(Tabla(q)) /\ Cardinality(Tabla(q)) \in Nat
        /\ Cardinality(Tabla(q)) <= CANT_SEGMENTOS
    BY SegmentosFinitos DEF InvRespuesta, TablasAcotadas
  <2>2. CASE q = p
    <3>1. Tabla(q)' = Tabla(q) \cup {r}
      BY <1>1, <1>3, <2>2 DEF Tabla
    <3>2. Cardinality(Tabla(q)') <= Cardinality(Tabla(q)) + 1
      <4>1. Cardinality(Tabla(q) \cup {r}) =
               IF r \in Tabla(q) THEN Cardinality(Tabla(q))
               ELSE Cardinality(Tabla(q)) + 1
        BY <2>1, FS_AddElement
      <4> QED
        BY <3>1, <2>1, <4>1
    <3>3. IsFiniteSet(Tabla(q)')
      BY <3>1, <2>1, FS_AddElement
    <3>4. Cardinality(Tabla(q)') \in Nat
      BY <3>3, FS_CardinalityType
    <3>5. Cardinality(Tabla(q)) < CANT_SEGMENTOS
      BY <1>2, <2>1, <2>2, TablaAssumption DEF TablaLlena
    <3> QED
      BY <2>1, <3>2, <3>4, <3>5, TablaAssumption
  <2>3. CASE q # p
    <3>1. Tabla(q)' = Tabla(q)
      BY <1>1, <2>3, IdsAssumption DEF Tabla
    <3> QED
      BY <3>1, <2>1
  <2> QED
    BY <2>2, <2>3
<1>6. HuecosDentro'
  <2>1. t \in Nat /\ t > 0
    BY TamaniosAssumption
  <2>2. ASSUME NEW k \in Resto(h, t)
        PROVE  Fin(k) <= TAM_MEMORIA
    <3>1. k.base = h.base + t /\ k.tamanio = h.tamanio - t
      BY <2>2 DEF Resto
    <3>2. h.base \in Nat /\ h.tamanio \in Nat /\ Fin(h) = h.base + h.tamanio
      BY <1>4 DEF Hueco, Fin
    <3>3. Fin(k) = Fin(h)
      BY <2>1, <3>1, <3>2 DEF Fin
    <3> QED
      BY <3>3, <1>4 DEF InvRespuesta, HuecosDentro
  <2> QED
    BY <1>1, <2>2 DEF InvRespuesta, HuecosDentro
<1> QED
  BY <1>5, <1>6

\* A segment that moves stays in its tables.
LEMMA TablasAlCompactar ==
    ASSUME InvRespuesta, CompactarUno
    PROVE  TablasAcotadas'
<1>1. PICK s \in Siguientes :
          segmentos' = (segmentos \ {s}) \cup {[s EXCEPT !.base = frontera]}
  BY DEF CompactarUno
<1>2. PICK r : r = [s EXCEPT !.base = frontera]
  OBVIOUS
<1>3. s \in segmentos /\ s \in Segmento
  BY DEF Siguientes, InvRespuesta, Inv, TypeOK
<1>4. r.pid = s.pid
  BY <1>2, <1>3 DEF Segmento
<1> SUFFICES ASSUME NEW q \in Pids
             PROVE  Cardinality(Tabla(q)') <= CANT_SEGMENTOS
  BY DEF TablasAcotadas
<1>5. /\ IsFiniteSet(Tabla(q)) /\ Cardinality(Tabla(q)) \in Nat
      /\ Cardinality(Tabla(q)) <= CANT_SEGMENTOS
  BY SegmentosFinitos DEF InvRespuesta, TablasAcotadas
<1>6. CASE s \in Tabla(q)
  <2>1. Tabla(q)' = (Tabla(q) \ {s}) \cup {r}
    BY <1>1, <1>2, <1>4, <1>6 DEF Tabla
  <2>2. /\ IsFiniteSet(Tabla(q) \ {s})
        /\ Cardinality(Tabla(q) \ {s}) = Cardinality(Tabla(q)) - 1
    BY <1>5, <1>6, FS_RemoveElement
  <2>3. \/ Cardinality(Tabla(q)') = Cardinality(Tabla(q))
        \/ Cardinality(Tabla(q)') = Cardinality(Tabla(q)) - 1
    <3>1. Cardinality((Tabla(q) \ {s}) \cup {r}) =
             IF r \in Tabla(q) \ {s} THEN Cardinality(Tabla(q) \ {s})
             ELSE Cardinality(Tabla(q) \ {s}) + 1
      BY <2>2, FS_AddElement
    <3> QED
      BY <1>5, <2>1, <2>2, <3>1
  <2> QED
    BY <1>5, <2>3, TablaAssumption
<1>7. CASE s \notin Tabla(q)
  <2>1. Tabla(q)' = Tabla(q)
    BY <1>1, <1>2, <1>3, <1>4, <1>7 DEF Tabla
  <2> QED
    BY <1>5, <2>1
<1> QED
  BY <1>6, <1>7

LEMMA InvRespuestaNext == InvRespuesta /\ [Next]_vars => InvRespuesta'
<1> SUFFICES ASSUME InvRespuesta, [Next]_vars
             PROVE  HuecosDentro' /\ TablasAcotadas'
  BY InvNext DEF InvRespuesta
<1>0. Inv'
  BY InvNext DEF InvRespuesta
<1>1. ASSUME UNCHANGED segmentos
      PROVE  TablasAcotadas'
  BY <1>1 DEF InvRespuesta, TablasAcotadas, Tabla
<1>2. ASSUME UNCHANGED huecos
      PROVE  HuecosDentro'
  BY <1>2 DEF InvRespuesta, HuecosDentro
<1>3. ASSUME ActualizarHuecos(segmentos')
      PROVE  HuecosDentro'
  <2>1. segmentos' \in SUBSET Segmento /\ Dentro(segmentos')
    BY <1>0 DEF Inv, TypeOK, SegmentosDisjuntos, Dentro
  <2> QED
    BY <1>3, <2>1, HuecosEntreDentro DEF ActualizarHuecos, HuecosDentro
<1>4. CASE UNCHANGED vars
  BY <1>1, <1>2, <1>4 DEF vars
<1>5. ASSUME NEW p \in Pids, CrearProceso(p)
      PROVE  HuecosDentro' /\ TablasAcotadas'
  BY <1>1, <1>2, <1>5 DEF CrearProceso
<1>6. ASSUME NEW p \in Pids, EliminarProceso(p)
      PROVE  HuecosDentro' /\ TablasAcotadas'
  <2>1. segmentos' \in SUBSET segmentos
    BY <1>6 DEF EliminarProceso
  <2> QED
    BY <1>3, <1>6, <2>1, TablasAlQuitar DEF EliminarProceso
<1>7. ASSUME NEW p \in Pids, NEW id \in Ids, EliminarSegmento(p, id)
      PROVE  HuecosDentro' /\ TablasAcotadas'
  <2>1. segmentos' \in SUBSET segmentos
    BY <1>7 DEF EliminarSegmento
  <2> QED
    BY <1>3, <1>7, <2>1, TablasAlQuitar DEF EliminarSegmento
<1>8. ASSUME NEW p \in Pids, NEW id \in Ids, NEW t \in Tamanios,
             PedidoCrearSegmento(p, id, t)
      PROVE  HuecosDentro' /\ TablasAcotadas'
  <2>1. CASE CrearSegmento(p, id, t)
    BY <2>1, TablasAlCrear
  <2>2. CASE NoCrearSegmento(p, id, t)
    BY <2>2, <1>1, <1>2 DEF NoCrearSegmento
  <2> QED
    BY <1>8, <2>1, <2>2 DEF PedidoCrearSegmento
<1>9. CASE RecibirCompactar
  BY <1>1, <1>2, <1>9 DEF RecibirCompactar
<1>10. CASE CompactarUno
  BY <1>2, <1>10, TablasAlCompactar DEF CompactarUno
<1>11. CASE TerminarCompactacion
  <2>1. ASSUME NEW h \in huecos'
        PROVE  Fin(h) <= TAM_MEMORIA
    <3>1. h.base = frontera /\ h.tamanio = TAM_MEMORIA - frontera
      BY <1>11, <2>1 DEF TerminarCompactacion, GranHueco
    <3>2. frontera \in Nat
      BY DEF InvRespuesta, Inv, TypeOK
    <3> QED
      BY <3>1, <3>2, TamaniosAssumption DEF Fin
  <2> QED
    BY <1>1, <1>11, <2>1 DEF TerminarCompactacion, HuecosDentro
<1> QED
  BY <1>4, <1>5, <1>6, <1>7, <1>8, <1>9, <1>10, <1>11 DEF Next, Atiende

THEOREM SpecInvRespuesta == Spec => []InvRespuesta
  BY InvRespuestaInit, InvRespuestaNext, PTL DEF Spec
\* Every hole is typed and inside the memory, two holes share no address, and
\* they are finitely many: one per base, but for one of size 0 beside it.
LEMMA HuecosSeparados ==
    ASSUME InvRespuesta, fase = "atiende"
    PROVE  /\ IsFiniteSet(huecos)
           /\ \A h \in huecos : /\ h.base \in Nat /\ h.tamanio \in Nat
                                /\ Fin(h) = h.base + h.tamanio
                                /\ Fin(h) <= TAM_MEMORIA
           /\ \A h, k \in huecos :
                 h # k => DireccionesDe(h) \cap DireccionesDe(k) = {}
<1> DEFINE P == {h \in huecos : h.tamanio > 0}
           Z == {h \in huecos : h.tamanio = 0}
<1>1. \A h \in huecos : /\ h.base \in Nat /\ h.tamanio \in Nat
                        /\ h = [base |-> h.base, tamanio |-> h.tamanio]
                        /\ Fin(h) = h.base + h.tamanio
                        /\ Fin(h) <= TAM_MEMORIA
  BY DEF InvRespuesta, Inv, TypeOK, HuecosDentro, Hueco, Fin
<1>2. P = HuecosEntre(segmentos)
  BY DEF InvRespuesta, Inv, HuecosExactos
<1>3. segmentos \in SUBSET Segmento /\ Dentro(segmentos) /\ Positivos(segmentos)
  BY DEF InvRespuesta, Inv, TypeOK, SegmentosDisjuntos, ConTamanio, Dentro,
         Positivos
<1>4. \A h, k \in P : h # k => Fin(h) <= k.base \/ Fin(k) <= h.base
  BY <1>2, <1>3, HuecosDisjuntos
<1>5. huecos = P \cup Z
  BY <1>1
<1>6. \A h \in huecos : h.base \in 0..TAM_MEMORIA
  BY <1>1, TamaniosAssumption
<1>7. IsFiniteSet(P)
  <2>1. \A h, k \in P : h.base = k.base => h = k
    BY <1>1, <1>4
  <2> QED
    BY <2>1, <1>6, FinitosPorBase
<1>8. IsFiniteSet(Z)
  <2>1. \A h, k \in Z : h.base = k.base => h = k
    BY <1>1
  <2> QED
    BY <2>1, <1>6, FinitosPorBase
<1>9. IsFiniteSet(huecos)
  BY <1>5, <1>7, <1>8, FS_Union
<1>10. ASSUME NEW h \in huecos, NEW k \in huecos, h # k,
              NEW a \in DireccionesDe(h), a \in DireccionesDe(k)
       PROVE  FALSE
  <2>1. /\ a \in Int /\ h.base <= a /\ a < Fin(h)
        /\ k.base <= a /\ a < Fin(k)
    BY <1>1, <1>10 DEF DireccionesDe
  <2>2. h \in P /\ k \in P
    BY <1>1, <2>1
  <2> QED
    BY <1>1, <1>4, <1>10, <2>1, <2>2
<1>11. \A h, k \in huecos : h # k => DireccionesDe(h) \cap DireccionesDe(k) = {}
  BY <1>10
<1> QED
  BY <1>1, <1>9, <1>11

\* The addresses in a hole are those in no segment.
LEMMA LibresEnHuecos ==
    ASSUME InvRespuesta, fase = "atiende"
    PROVE  Libres = UNION {DireccionesDe(h) : h \in huecos}
<1>h. \A h \in huecos : /\ h.base \in Nat /\ h.tamanio \in Nat
                        /\ Fin(h) = h.base + h.tamanio
                        /\ Fin(h) <= TAM_MEMORIA
  BY HuecosSeparados
<1>s. /\ segmentos \in SUBSET Segmento
      /\ \A s \in segmentos : /\ s.base \in Nat /\ Fin(s) \in Nat
                              /\ s.base < Fin(s) /\ Fin(s) <= TAM_MEMORIA
  BY SegmentoTipo DEF InvRespuesta, Inv, TypeOK, ConTamanio, SegmentosDisjuntos
<1>e. {h \in huecos : h.tamanio > 0} = HuecosEntre(segmentos)
  BY DEF InvRespuesta, Inv, HuecosExactos
<1>m. TAM_MEMORIA \in Nat
  BY TamaniosAssumption
<1>1. ASSUME NEW h \in huecos, NEW a \in DireccionesDe(h)
      PROVE  a \in Libres
  <2>1. a \in Nat /\ h.base <= a /\ a < Fin(h)
    BY <1>h DEF DireccionesDe
  <2>2. h \in HuecosEntre(segmentos)
    BY <1>h, <1>e, <2>1
  <2>3. \A s \in segmentos : Fin(s) <= h.base \/ Fin(h) <= s.base
    BY <1>s, <2>2, HuecoTipo
  <2>4. \A s \in segmentos : a < s.base \/ Fin(s) <= a
    BY <1>h, <1>s, <2>1, <2>3
  <2>5. a \in 0..TAM_MEMORIA - 1
    BY <1>h, <1>m, <2>1
  <2> QED
    BY <2>4, <2>5 DEF Libres
<1>2. ASSUME NEW a \in Libres
      PROVE  \E h \in huecos : a \in DireccionesDe(h)
  <2>1. /\ a \in Nat /\ a < TAM_MEMORIA
        /\ \A s \in segmentos : a < s.base \/ Fin(s) <= a
    BY <1>m DEF Libres
  <2>2. PICK B : B = {TAM_MEMORIA} \cup {b \in Nat : a < b /\
                                         \E s \in segmentos : b = s.base}
    OBVIOUS
  <2>3. B \in SUBSET Nat /\ B # {}
    BY <1>m, <2>2
  <2>4. PICK hasta \in B : \A b \in B : hasta <= b
    BY <2>3, HayPrimero
  <2>5. PICK D : D = {a} \cup {d \in Nat : \E s \in segmentos :
                                    Fin(s) <= a /\ d = a - Fin(s)}
    OBVIOUS
  <2>6. D \in SUBSET Nat /\ D # {}
    BY <2>1, <2>5
  <2>7. PICK d \in D : \A e \in D : d <= e
    BY <2>6, HayPrimero
  <2>8. /\ hasta \in Nat /\ a < hasta /\ hasta <= TAM_MEMORIA
        /\ hasta = TAM_MEMORIA \/ \E s \in segmentos : hasta = s.base
        /\ \A s \in segmentos : a < s.base => hasta <= s.base
    BY <1>m, <1>s, <2>1, <2>2, <2>4
  <2>9. PICK desde : desde = a - d
    OBVIOUS
  <2>10. /\ desde \in Nat /\ desde <= a
         /\ desde = 0 \/ \E s \in segmentos : desde = Fin(s)
    <3>1. CASE d = a
      BY <2>1, <2>9, <3>1
    <3>2. CASE d # a
      <4>1. PICK s \in segmentos : Fin(s) <= a /\ d = a - Fin(s)
        BY <2>5, <2>7, <3>2
      <4> QED
        BY <1>s, <2>1, <2>9, <4>1
    <3> QED
      BY <3>1, <3>2
  <2>11. \A s \in segmentos : Fin(s) <= a => Fin(s) <= desde
    <3> SUFFICES ASSUME NEW s \in segmentos, Fin(s) <= a
                 PROVE  Fin(s) <= desde
      OBVIOUS
    <3>1. a - Fin(s) \in D
      BY <1>s, <2>1, <2>5
    <3>2. d <= a - Fin(s) /\ d \in Nat
      BY <2>6, <2>7, <3>1
    <3> QED
      BY <1>s, <2>1, <2>9, <3>2
  <2>12. PICK n : n = hasta - desde
    OBVIOUS
  <2>13. n \in Nat \ {0} /\ desde + n = hasta
    BY <2>1, <2>8, <2>10, <2>12
  <2>14. \A s \in segmentos : Fin(s) <= desde \/ desde + n <= s.base
    BY <2>1, <2>8, <2>11, <2>13
  <2>15. [base |-> desde, tamanio |-> n] \in HuecosEntre(segmentos)
    BY <1>s, <2>8, <2>10, <2>13, <2>14, EsHueco
  <2>16. [base |-> desde, tamanio |-> n] \in huecos
    BY <1>e, <2>15
  <2>17. a \in DireccionesDe([base |-> desde, tamanio |-> n])
    BY <2>1, <2>8, <2>10, <2>13 DEF DireccionesDe, Fin
  <2> QED
    BY <2>16, <2>17
<1> QED
  BY <1>1, <1>2

\* The sum that puedoCrearSegmento compares is the number of free addresses.
LEMMA EspacioLibreCuenta ==
    ASSUME InvRespuesta, fase = "atiende"
    PROVE  EspacioLibre = Cardinality(Libres)
<1> DEFINE Cubre(s) == UNION {DireccionesDe(h) : h \in s}
           Paso(s, f) == IF s = {} THEN 0
                         ELSE LET x == CHOOSE y \in s : TRUE
                              IN  x.tamanio + f[s \ {x}]
           \* What the fold of the library is: a solution of its equation.
           Cumple(f) == f = [s \in SUBSET huecos |-> Paso(s, f)]
           cuenta == [s \in SUBSET huecos |-> Cardinality(Cubre(s))]
<1>1. EspacioLibre = (CHOOSE f : Cumple(f))[huecos]
  BY DEF EspacioLibre, MapThenSumSet, MapThenFoldSet
<1>h. /\ IsFiniteSet(huecos)
      /\ \A h \in huecos : /\ h.base \in Nat /\ h.tamanio \in Nat
                           /\ Fin(h) = h.base + h.tamanio
      /\ \A h, k \in huecos : h # k => DireccionesDe(h) \cap DireccionesDe(k) = {}
  BY HuecosSeparados
<1>d. \A h \in huecos : /\ IsFiniteSet(DireccionesDe(h))
                        /\ Cardinality(DireccionesDe(h)) = h.tamanio
  <2> SUFFICES ASSUME NEW h \in huecos
               PROVE  /\ IsFiniteSet(DireccionesDe(h))
                      /\ Cardinality(DireccionesDe(h)) = h.tamanio
    OBVIOUS
  <2>1. h.base \in Int /\ Fin(h) - 1 \in Int
    BY <1>h
  <2>2. /\ IsFiniteSet(h.base..(Fin(h) - 1))
        /\ Cardinality(h.base..(Fin(h) - 1)) =
              IF h.base > Fin(h) - 1 THEN 0 ELSE (Fin(h) - 1) - h.base + 1
    BY <2>1, FS_Interval
  <2> QED
    BY <1>h, <2>2 DEF DireccionesDe
<1>c. ASSUME NEW s \in SUBSET huecos
      PROVE  IsFiniteSet(Cubre(s)) /\ Cardinality(Cubre(s)) \in Nat
  <2>1. Cubre(s) \in SUBSET Libres
    BY LibresEnHuecos
  <2>2. IsFiniteSet(0..(TAM_MEMORIA - 1)) /\ Libres \in SUBSET (0..(TAM_MEMORIA - 1))
    BY FS_Interval, TamaniosAssumption DEF Libres
  <2>3. IsFiniteSet(Cubre(s))
    BY <2>1, <2>2, FS_Subset
  <2> QED
    BY <2>3, FS_CardinalityType
\* Taking a hole out of a set of them takes its addresses out.
<1>2. ASSUME NEW s \in SUBSET huecos, NEW x \in s
      PROVE  Cardinality(Cubre(s)) = x.tamanio + Cardinality(Cubre(s \ {x}))
  <2>1. Cubre(s) = DireccionesDe(x) \cup Cubre(s \ {x})
    OBVIOUS
  <2>2. DireccionesDe(x) \cap Cubre(s \ {x}) = {}
    BY <1>h
  <2>3. IsFiniteSet(DireccionesDe(x)) /\ Cardinality(DireccionesDe(x)) = x.tamanio
    BY <1>d
  <2>4. /\ IsFiniteSet(Cubre(s \ {x})) /\ Cardinality(Cubre(s \ {x})) \in Nat
    BY <1>c
  <2> HIDE DEF Cubre
  <2>5. Cardinality(DireccionesDe(x) \cup Cubre(s \ {x})) =
           Cardinality(DireccionesDe(x)) + Cardinality(Cubre(s \ {x}))
             - Cardinality(DireccionesDe(x) \cap Cubre(s \ {x}))
    BY <2>3, <2>4, FS_Union
  <2>6. Cardinality(DireccionesDe(x) \cap Cubre(s \ {x})) = 0
    BY <2>2, FS_EmptySet
  <2>7. x.tamanio \in Nat
    BY <1>h
  <2> QED
    BY <2>1, <2>3, <2>4, <2>5, <2>6, <2>7
\* The count is a solution.
<1>3. Cumple(cuenta)
  <2>1. ASSUME NEW s \in SUBSET huecos
        PROVE  Cardinality(Cubre(s)) = Paso(s, cuenta)
    <3>1. CASE s = {}
      <4>1. Cubre(s) = {}
        BY <3>1
      <4> QED
        BY <3>1, <4>1, FS_EmptySet
    <3>2. CASE s # {}
      <4>1. PICK x : x = CHOOSE y \in s : TRUE
        OBVIOUS
      <4>2. x \in s
        BY <3>2, <4>1
      <4>3. cuenta[s \ {x}] = Cardinality(Cubre(s \ {x}))
        OBVIOUS
      <4>4. Cardinality(Cubre(s)) = x.tamanio + cuenta[s \ {x}]
        BY <1>2, <4>2, <4>3
      <4> HIDE DEF cuenta, Cubre
      <4> QED
        BY <3>2, <4>1, <4>4
    <3> QED
      BY <3>1, <3>2
  <2> HIDE DEF Paso
  <2> QED
    BY <2>1
\* It is the only one: a smallest set on which another differed would not be
\* empty, and would differ less one of its holes too.
<1>4. ASSUME NEW f, Cumple(f)
      PROVE  f[huecos] = Cardinality(Cubre(huecos))
  <2> DEFINE Malos == {s \in SUBSET huecos : f[s] # Cardinality(Cubre(s))}
             T == {n \in Nat : \E s \in Malos : n = Cardinality(s)}
  <2>1. \A s \in SUBSET huecos : IsFiniteSet(s) /\ Cardinality(s) \in Nat
    BY <1>h, FS_Subset, FS_CardinalityType
  <2>2. \A s \in SUBSET huecos : f[s] = Paso(s, f)
    <3> HIDE DEF Paso
    <3> QED
      BY <1>4
  <2>3. SUFFICES ASSUME Malos # {} PROVE FALSE
    OBVIOUS
  <2>4. T \in SUBSET Nat /\ T # {}
    <3> HIDE DEF Cubre
    <3> QED
      BY <2>1, <2>3
  <2>5. PICK n \in T : \A k \in T : n <= k
    <3> HIDE DEF T
    <3> QED
      BY <2>4, HayPrimero
  <2>6. PICK s \in Malos : n = Cardinality(s)
    BY <2>5
  <2>7. CASE s = {}
    <3>1. Cubre(s) = {} /\ f[s] = 0
      BY <2>2, <2>7
    <3> HIDE DEF Cubre
    <3> QED
      BY <2>6, <3>1, FS_EmptySet
  <2>8. CASE s # {}
    <3>1. PICK x : x = CHOOSE y \in s : TRUE
      OBVIOUS
    <3>2. x \in s
      BY <2>8, <3>1
    <3>3. f[s] = x.tamanio + f[s \ {x}]
      BY <2>2, <2>6, <2>8, <3>1
    <3>4. s \ {x} \in SUBSET huecos
      BY <2>6
    <3>5. Cardinality(s \ {x}) = n - 1 /\ n \in Nat
      BY <2>1, <2>6, <3>2, FS_RemoveElement
    <3>6. s \ {x} \notin Malos
      <4> HIDE DEF Malos
      <4>1. CASE s \ {x} \in Malos
        <5>1. Cardinality(s \ {x}) \in Nat
          BY <2>1, <3>4
        <5>2. Cardinality(s \ {x}) \in T
          BY <4>1, <5>1
        <5> HIDE DEF T
        <5> QED
          BY <2>5, <3>5, <5>1, <5>2
      <4> QED
        BY <4>1
    <3>7. f[s \ {x}] = Cardinality(Cubre(s \ {x}))
      <4> HIDE DEF Cubre
      <4> QED
        BY <3>4, <3>6
    <3>8. s \in SUBSET huecos /\ f[s] # Cardinality(Cubre(s))
      BY <2>6
    <3>9. Cardinality(Cubre(s)) = x.tamanio + Cardinality(Cubre(s \ {x}))
      BY <1>2, <3>2, <3>8
    <3> HIDE DEF Cubre
    <3> QED
      BY <3>3, <3>7, <3>8, <3>9
  <2> QED
    BY <2>7, <2>8
<1>5. Cumple(CHOOSE f : Cumple(f))
  <2> HIDE DEF Cumple, cuenta
  <2> QED
    BY <1>3
<1>6. (CHOOSE f : Cumple(f))[huecos] = Cardinality(Cubre(huecos))
  <2> HIDE DEF Cumple, Cubre
  <2> QED
    BY <1>4, <1>5
<1> HIDE DEF Cumple
<1> QED
  BY <1>1, <1>6, LibresEnHuecos

\* puedoCrearSegmento, which reads the list of holes and the table of the
\* process and nothing else, is right of the addresses that are free: it never
\* refuses a segment a compaction would make room for, and asks for a compaction
\* that cannot help only when the size is negative as an int.
LEMMA RespuestaDeInv == InvRespuesta => RespuestaSegunMemoria
<1> SUFFICES ASSUME InvRespuesta, fase = "atiende",
                    NEW p \in procesos, NEW id \in Ids, NEW t \in Tamanios
             PROVE  LET respuesta == PuedoCrearSegmento(p, id, t)
                    IN  CASE respuesta = "OK" ->
                             HayTramoLibre(t) /\ Cardinality(Tabla(p)) < CANT_SEGMENTOS
                      [] respuesta = "NECESITA_COMPACTACION" ->
                             /\ Cardinality(Libres) >= t \/ t > INT_MAX
                             /\ ~HayTramoLibre(t)
                      [] respuesta = "OUT_OF_MEMORY" -> Cardinality(Libres) < t
                      [] respuesta = "LIMITE_TABLA_SEGMENTOS" ->
                             Cardinality(Tabla(p)) = CANT_SEGMENTOS
                      [] OTHER -> TRUE
  BY DEF RespuestaSegunMemoria
<1>p. p \in Pids
  BY DEF InvRespuesta, Inv, TypeOK
<1>t. /\ t \in Nat /\ t > 0 /\ TAM_MEMORIA \in Nat /\ CANT_SEGMENTOS \in Nat
      /\ INT_MAX \in Nat /\ t <= 2 * INT_MAX + 1
  BY TamaniosAssumption, TablaAssumption
\* As an int the size is itself, or negative.
<1>i. ComoInt(t) \in Int /\ ComoInt(t) <= t
  BY <1>t DEF ComoInt
<1>h. \A h \in huecos : /\ h.base \in Nat /\ h.tamanio \in Nat
                        /\ Fin(h) = h.base + h.tamanio
                        /\ Fin(h) <= TAM_MEMORIA
  BY HuecosSeparados
<1>c. Cardinality(Tabla(p)) \in Nat /\ Cardinality(Tabla(p)) <= CANT_SEGMENTOS
  BY <1>p, SegmentosFinitos DEF InvRespuesta, TablasAcotadas
<1>l. Cardinality(Libres) \in Nat
  <2>1. IsFiniteSet(0..(TAM_MEMORIA - 1)) /\ Libres \in SUBSET (0..(TAM_MEMORIA - 1))
    BY FS_Interval, TamaniosAssumption DEF Libres
  <2> QED
    BY <2>1, FS_Subset, FS_CardinalityType
\* A hole that holds the segment is a free stretch.
<1>1. ASSUME Entran(t) # {}
      PROVE  HayTramoLibre(t)
  <2>1. PICK h \in huecos : h.tamanio >= t
    BY <1>1 DEF Entran
  <2>2. h.base \in 0..TAM_MEMORIA - t
    BY <1>h, <1>t, <2>1
  <2>3. h.base..(h.base + t - 1) \subseteq DireccionesDe(h)
    BY <1>h, <1>t, <2>1 DEF DireccionesDe
  <2>4. h.base..(h.base + t - 1) \subseteq Libres
    BY <2>3, LibresEnHuecos
  <2> QED
    BY <2>2, <2>4 DEF HayTramoLibre
\* A free stretch lies in one hole: it would have to cross a segment to leave.
<1>2. ASSUME HayTramoLibre(t)
      PROVE  Entran(t) # {}
  <2>1. PICK b \in 0..TAM_MEMORIA - t : b..(b + t - 1) \subseteq Libres
    BY <1>2 DEF HayTramoLibre
  <2>2. b \in Nat /\ b + t <= TAM_MEMORIA
    BY <1>t, <2>1
  <2>3. b \in Libres
    BY <1>t, <2>1, <2>2
  <2>4. PICK h \in huecos : b \in DireccionesDe(h)
    BY <2>3, LibresEnHuecos
  <2>5. h.base <= b /\ b < Fin(h)
    BY <1>h, <2>2, <2>4 DEF DireccionesDe
  <2>6. h \in HuecosEntre(segmentos)
    BY <1>h, <2>2, <2>5 DEF InvRespuesta, Inv, HuecosExactos
  <2>7. segmentos \in SUBSET Segmento
    BY DEF InvRespuesta, Inv, TypeOK
  <2>8. CASE Fin(h) < b + t
    <3>1. Fin(h) \in b..(b + t - 1)
      BY <1>h, <1>t, <2>2, <2>5, <2>8
    <3>2. Fin(h) \in Libres
      BY <2>1, <3>1
    <3>3. Fin(h) < TAM_MEMORIA
      BY <1>t, <1>h, <2>2, <2>8
    <3>4. PICK s \in segmentos : Fin(h) = s.base
      BY <1>h, <1>t, <2>6, <2>7, <3>3, HuecoTipo
    <3>5. s.base < Fin(s) /\ s.base \in Nat /\ Fin(s) \in Nat
      BY SegmentoTipo DEF InvRespuesta, Inv, TypeOK, ConTamanio
    <3> QED
      BY <3>2, <3>4, <3>5 DEF Libres
  <2>9. CASE Fin(h) >= b + t
    <3>1. h.tamanio >= t
      BY <1>h, <1>t, <2>2, <2>5, <2>9
    <3> QED
      BY <3>1 DEF Entran
  <2> QED
    BY <1>h, <1>t, <2>2, <2>8, <2>9
<1>3. CASE TablaLlena(p)
  <2>1. PuedoCrearSegmento(p, id, t) = "LIMITE_TABLA_SEGMENTOS"
    BY <1>3 DEF PuedoCrearSegmento
  <2>2. Cardinality(Tabla(p)) = CANT_SEGMENTOS
    BY <1>3, <1>c, <1>t DEF TablaLlena
  <2> QED
    BY <2>1, <2>2
<1>4. CASE ~TablaLlena(p) /\ \E s \in Tabla(p) : s.idSegmento = id
  <2>1. PuedoCrearSegmento(p, id, t) = "ID_YA_CREADA"
    BY <1>4 DEF PuedoCrearSegmento
  <2> QED
    BY <2>1
<1> DEFINE Sigue == ~TablaLlena(p) /\ ~ \E s \in Tabla(p) : s.idSegmento = id
<1>5. CASE Sigue /\ Entran(t) # {}
  <2>1. PuedoCrearSegmento(p, id, t) = "OK"
    BY <1>5 DEF PuedoCrearSegmento
  <2>2. Cardinality(Tabla(p)) < CANT_SEGMENTOS
    BY <1>5, <1>c, <1>t DEF TablaLlena
  <2> QED
    BY <1>1, <1>5, <2>1, <2>2
<1>6. CASE Sigue /\ Entran(t) = {} /\ HayEspacioPeroNoContiguo(t)
  <2>1. PuedoCrearSegmento(p, id, t) = "NECESITA_COMPACTACION"
    BY <1>6 DEF PuedoCrearSegmento
  <2>2. Cardinality(Libres) >= t \/ t > INT_MAX
    BY <1>6, <1>t, EspacioLibreCuenta DEF HayEspacioPeroNoContiguo, ComoInt
  <2> QED
    BY <1>2, <1>6, <2>1, <2>2
<1>7. CASE Sigue /\ Entran(t) = {} /\ ~HayEspacioPeroNoContiguo(t)
  <2>1. PuedoCrearSegmento(p, id, t) = "OUT_OF_MEMORY"
    BY <1>7 DEF PuedoCrearSegmento
  <2>2. Cardinality(Libres) < ComoInt(t)
    BY <1>7, <1>i, <1>l, EspacioLibreCuenta DEF HayEspacioPeroNoContiguo
  <2>3. Cardinality(Libres) < t
    BY <2>2, <1>i, <1>l, <1>t
  <2> QED
    BY <2>1, <2>3
<1> QED
  BY <1>3, <1>4, <1>5, <1>6, <1>7

\* Every reply to a request for a segment is right of the free addresses, for
\* every size of the memory and of the tables and every size a request can
\* carry, except that a size above INT_MAX, which no memory holds, may be
\* answered with NECESITA_COMPACTACION.
THEOREM RespuestasCorrectas == Spec => []RespuestaSegunMemoria
  BY SpecInvRespuesta, RespuestaDeInv, PTL
=============================================================================
