SPECIFICATION SpecDetenida
CONSTANTS
    p1 = p1
    p2 = p2
    p3 = p3
    DISCO = DISCO
    IMPRESORA = IMPRESORA
    Ninguno = Ninguno
    Procesos = {p1, p2, p3}
    Recursos = {DISCO, IMPRESORA}
    InstanciasRecursos <- UnaInstancia
    GRADO_MAX_MULTIPROGRAMACION = 2
    ALGORITMO_PLANIFICACION = "HRRN"
    Programas <- ProgramasDeadlock
INVARIANTS
    SinDespertarPerdido
    DetencionJustificada
PROPERTIES
    PcbEnEjecucionEstable
    TodosTerminan
