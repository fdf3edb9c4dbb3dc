SPECIFICATION Spec
CONSTANTS
    Archivos = {a1, a2}
    Tamanios = {5, 12, 24}
    CANT_BLOQUES = 6
    PUNTEROS = 2
    MAX_CAIDAS = 1
    Posiciones = {0, 3, 8, 12, 16}
    Largos = {1, 4, 8, 11, 15, 20}
    Ninguna = Ninguna
INVARIANTS
    TypeOK
    BloquesDisjuntos
    BitmapExacto
    AccesoAlineado
PROPERTIES
    ContenidoConservado
CHECK_DEADLOCK FALSE
