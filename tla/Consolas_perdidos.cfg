SPECIFICATION SpecEquitativa
CONSTANTS
    Consolas = {c1, c2}
    Motivos = {FINALIZA_PROCESO, SIN_ESPACIO_EN_TABLA}
    Conocidos = {FINALIZA_PROCESO}
    MOTIVO_DESCONOCIDO = MOTIVO_DESCONOCIDO
PROPERTIES
    TodasSeResponden
CHECK_DEADLOCK FALSE
