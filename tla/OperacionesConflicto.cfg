SPECIFICATION Spec
CONSTANTS
    i1 = i1
    i2 = i2
    i3 = i3
    a1 = a1
    a2 = a2
    Intentos <- MCIntentos
    Acciones <- MCAcciones
    ana = ana
    bruno = bruno
    Usuarios = {ana, bruno}
    Clases = {factura}
    Clientes = {k1}
    Nulo = Nulo
CHECK_DEADLOCK FALSE
INVARIANTS
    ConflictoSoloPorContenido
