SPECIFICATION Spec
CONSTANTS
    p1 = p1
    p2 = p2
    p3 = p3
    DISCO = DISCO
    IMPRESORA = IMPRESORA
    Ninguno = Ninguno
    Procesos = {p1, p2, p3}
    Recursos = {DISCO}
    InstanciasRecursos <- UnaInstancia
    GRADO_MAX_MULTIPROGRAMACION = 2
    ALGORITMO_PLANIFICACION = "FIFO"
    Programas <- ProgramasMezcla
INVARIANTS
    TypeOK
    FichaDeEjecucion
    NuncaQuitaDeListaVacia
    CuentaDeListos
    CadaPcbEnUnLugar
    GradoRespetado
    RecursosConservados
PROPERTIES
    ImplementaCicloDeVida
SYMMETRY Simetria
CHECK_DEADLOCK FALSE
