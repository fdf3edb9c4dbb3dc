SPECIFICATION SpecEquitativa
CONSTANTS
    Consolas = {c1, c2, c3}
    Motivos = {FINALIZA_PROCESO, SIN_ESPACIO_EN_TABLA}
    Conocidos = {FINALIZA_PROCESO}
    MOTIVO_DESCONOCIDO = MOTIVO_DESCONOCIDO
INVARIANTS
    TypeOK
    RespuestaTrasUnFin
PROPERTIES
    UltimoFinSeResponde
CHECK_DEADLOCK FALSE
