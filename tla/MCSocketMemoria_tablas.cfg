SPECIFICATION SpecSocket
CONSTANTS
    Pids = {1, 2}
    Ids = {1, 2, 3}
    Tamanios = {1, 2, 4, 5}
    INT_MAX = 15
    TAM_MEMORIA = 8
    TAM_SEGMENTO_0 = 1
    CANT_SEGMENTOS = 3
    Algoritmos = {"FIRST"}
    Compartido = 0
    Programas <- ProgramasCompactan
    Grado = 2
INVARIANTS
    TablasAlDia
CHECK_DEADLOCK FALSE
