--------------------------- MODULE MCSocketMemoria ---------------------------
(* Programs for the instances of SocketMemoria that TLC checks, after      *)
(* consola/config_pruebas/MEMORIA_1 to MEMORIA_3.                          *)
EXTENDS SocketMemoria

C(id, t) == [op |-> "CREATE_SEGMENT", id |-> id, tamanio |-> t]
D(id) == [op |-> "DELETE_SEGMENT", id |-> id]
E(id) == [op |-> "MOV_OUT", id |-> id]
Y == [op |-> "YIELD"]
X == [op |-> "EXIT"]

\* Holes that no single one serves, so that the last segment asked for may need
\* a compaction, which moves the others' segments; in the second program the
\* ranges may overlap, and the end is a segmentation fault.  The third asks
\* for more than there is, or for an id it has.
ProgramasCompactan ==
    { <<C(2, 2), C(1, 2), E(2), Y, D(1), C(3, 4), E(3), X>>,
      <<C(1, 1), Y, C(2, 2), E(2), D(1), C(3, 5), E(1)>>,
      <<C(1, 4), E(1), D(3), C(1, 1), X>> }
=============================================================================
