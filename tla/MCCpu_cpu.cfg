SPECIFICATION SpecEquitativa
CONSTANTS
    p1 = p1
    p2 = p2
    p3 = p3
    h = h
    o = o
    Procesos = {p1, p2, p3}
    Cero = Cero
    Basura = Basura
    DelArchivo = DelArchivo
    Nulo = Nulo
    TAM_MAX_SEGMENTO = 4
    TAM_MEMORIA = 11
    Bytes <- Registros2
    Tablas <- TablasDosYTres
    Programas <- ProgramasMezcla
INVARIANTS
    TypeOK
    ComoASolas
    ContextoPropio
PROPERTIES
    TodosTerminan
CHECK_DEADLOCK FALSE
