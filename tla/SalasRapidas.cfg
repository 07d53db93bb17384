SPECIFICATION Spec
CONSTANTS
    Conexiones <- MCConexiones
    Usuarios <- MCUsuarios
    UsuarioDe <- MCUsuarioDe
    ana1 = ana1
    ana2 = ana2
    bruno1 = bruno1
    ana = ana
    bruno = bruno
    factura = factura
    cliente = cliente
    Nulo = Nulo
    Clases <- MCDosClases
    Lentos <- MCNadieLento
    TTL = 1
    MaxReloj = 2
CHECK_DEADLOCK FALSE
INVARIANTS
    VistaCoherente
SYMMETRY MCPestanas
