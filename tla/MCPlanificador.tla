--------------------------- MODULE MCPlanificador ---------------------------
(* Programs for the instances of Planificador that TLC checks, scaled down *)
(* from consola/config_pruebas.                                            *)
EXTENDS Planificador

CONSTANTS p1, p2, p3, DISCO, IMPRESORA

I(op) == [nombre |-> op, parametro1 |-> Ninguno]
W(r) == [nombre |-> "WAIT", parametro1 |-> r]
S(r) == [nombre |-> "SIGNAL", parametro1 |-> r]

UnaInstancia == [r \in Recursos |-> 1]

Simetria == Permutations({p1, p2, p3})

\* Every kind of operation: a critical section with an I/O burst inside, a
\* process that yields and then names no resource, one that ends in the memory.
ProgramasMezcla ==
    { <<W(DISCO), I("IO"), S(DISCO), I("EXIT")>>,
      <<I("YIELD"), S(Ninguno)>>,
      <<I("CREATE_SEGMENT"), W(DISCO), I("SEG_FAULT")>> }

\* DEADLOCK_1 and DEADLOCK_2, cut to the two sections that cross; the second
\* process also ends with what it took.
ProgramasDeadlock ==
    { <<W(DISCO), I("IO"), W(IMPRESORA), S(IMPRESORA), S(DISCO), I("EXIT")>>,
      <<W(IMPRESORA), W(DISCO), S(IMPRESORA), I("SEG_FAULT")>> }

\* SpecEquitativa where the kernel may stay stopped: TLC, which reports any
\* other state with no step as a deadlock, checks that Detenido misses none.
SpecDetenida ==
    Init /\ [][Next \/ (Detenido /\ UNCHANGED vars)]_vars /\ Equidad
=============================================================================
