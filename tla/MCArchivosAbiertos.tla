------------------------- MODULE MCArchivosAbiertos -------------------------
(* Programs for the instances of ArchivosAbiertos that TLC checks, scaled  *)
(* down from FS_1 and FS_3 of consola/config_pruebas.                      *)
EXTENDS ArchivosAbiertos

CONSTANTS p1, p2, p3, Consoles, Videogames

I(op, f) == [nombre |-> op, parametro1 |-> f, parametro2 |-> 0]
Seek(f, n) == [nombre |-> "F_SEEK", parametro1 |-> f, parametro2 |-> n]

Simetria == Permutations({p1, p2, p3})

\* FS_1, which opens the same file twice; a process that creates a segment and
\* then holds two files; one that takes them in the other order and closes
\* neither; and one that closes a file it did not open, whoever has it, and is
\* lost if nobody does.
ProgramasFS ==
    { <<I("F_OPEN", Consoles), I("F_TRUNCATE", Consoles), Seek(Consoles, 1),
        I("F_WRITE", Consoles), I("F_CLOSE", Consoles),
        I("F_OPEN", Consoles), I("F_READ", Consoles),
        I("F_CLOSE", Consoles), I("EXIT", Nulo)>>,
      <<I("F_OPEN", Videogames), I("F_READ", Videogames),
        I("F_OPEN", Consoles), I("EXIT", Nulo)>>,
      <<I("CREATE_SEGMENT", Nulo), I("F_OPEN", Consoles),
        I("F_OPEN", Videogames), I("F_WRITE", Consoles),
        I("F_CLOSE", Videogames), I("F_CLOSE", Consoles), I("EXIT", Nulo)>>,
      <<I("F_CLOSE", Consoles), I("EXIT", Nulo)>> }

\* Two transfers, and a segment between them.
ProgramasTransferencia ==
    { <<I("F_OPEN", Consoles), I("F_WRITE", Consoles),
        I("F_CLOSE", Consoles), I("EXIT", Nulo)>>,
      <<I("CREATE_SEGMENT", Nulo), I("F_OPEN", Videogames),
        I("F_READ", Videogames), I("F_CLOSE", Videogames),
        I("EXIT", Nulo)>> }
=============================================================================
