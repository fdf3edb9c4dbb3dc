-------------------------------- MODULE MCCpu --------------------------------
(* Programs and tables for the instances of Cpu that TLC checks, after     *)
(* consola/config_pruebas/BASE_1 and ERROR_3.                              *)
EXTENDS Cpu

CONSTANTS p1, p2, p3, h, o

Set(r, v) == [op |-> "SET", reg |-> r, valor |-> v]
In(r, d) == [op |-> "MOV_IN", reg |-> r, dir |-> d, n |-> Bytes[r]]
Out(d, r) == [op |-> "MOV_OUT", reg |-> r, dir |-> d, n |-> Bytes[r]]
F(o1, d, n) == [op |-> o1, dir |-> d, n |-> n]
I(o1) == [op |-> o1]

Registros2 == [AX |-> 1, EAX |-> 2]

\* Segment 0 and one or two of two or three cells, side by side.  With
\* TAM_MAX_SEGMENTO 4, address 4 is the first of segment 1.
Segmento(id, b, t) == [idSegmento |-> id, base |-> b, tamanio |-> t]
TablasDosYTres ==
    (p1 :> {Segmento(0, 0, 1), Segmento(1, 1, 3), Segmento(2, 4, 2)})
    @@ (p2 :> {Segmento(0, 0, 1), Segmento(1, 6, 3)})
    @@ (p3 :> {Segmento(0, 0, 1), Segmento(1, 9, 2)})

\* Values wider than the register, writes that another process reads over if
\* an address is wrong, and an access that ends where the segment does.
Comunes ==
    { <<Set("AX", <<h, o>>), Out(5, "AX"), I("YIELD"), In("EAX", 5),
        I("WAIT"), Set("AX", <<o>>), I("YIELD"), I("EXIT")>>,
      <<Set("EAX", <<o, h>>), Out(4, "EAX"), I("YIELD"), In("AX", 5),
        I("YIELD"), Out(6, "EAX"), I("EXIT")>>,
      <<Set("AX", <<h>>), I("YIELD"), In("AX", 7), I("EXIT")>>,
      <<I("WAIT"), Set("EAX", <<h, h>>), I("YIELD"), Out(4, "EAX")>> }
DeArchivos ==
    { <<I("YIELD"), F("F_READ", 4, 2), In("EAX", 4), F("F_WRITE", 4, 3),
        I("EXIT")>>,
      <<I("YIELD"), F("F_READ", 6, 2), I("EXIT")>>,
      <<F("F_WRITE", 6, 2), I("EXIT")>> }

\* Files are for one process at most: with two, a file operation may use the
\* address of another (ArchivosAbiertos).
ProgramasMezcla ==
    [Procesos -> Comunes] \cup
    UNION {{[f EXCEPT ![p] = a] : f \in [Procesos -> Comunes],
                                   p \in Procesos} : a \in DeArchivos}
\* What CpuProofs asks of the programs to prove ComoASolas.
ASSUME PorSeparadoAssumption == PorSeparado
=============================================================================
