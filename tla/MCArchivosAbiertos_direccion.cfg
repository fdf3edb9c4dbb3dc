SPECIFICATION Spec
CONSTANTS
    p1 = p1
    p2 = p2
    p3 = p3
    Consoles = Consoles
    Videogames = Videogames
    Nulo = Nulo
    Procesos = {p1, p2}
    Archivos = {Consoles, Videogames}
    Posiciones = {0, 1}
    MaxCompactaciones = 1
    Programas <- ProgramasTransferencia
INVARIANTS
    DireccionDelPedido
CHECK_DEADLOCK FALSE
