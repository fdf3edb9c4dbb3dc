SPECIFICATION Spec
CONSTANTS
    Pids = {1, 2}
    Ids = {0, 1, 2, 3}
    Tamanios = {1, 2, 4, 31}
    INT_MAX = 15
    TAM_MEMORIA = 8
    TAM_SEGMENTO_0 = 1
    CANT_SEGMENTOS = 3
    Algoritmos = {"FIRST", "BEST", "WORST"}
    Compartido = 0
INVARIANTS
    TypeOK
    SegmentosDisjuntos
    HuecosAlDia
    RespuestaSegunMemoria
