SPECIFICATION SpecJusta
CONSTANTS
    Conexiones <- MCUnaPestana
    Usuarios <- MCUsuarios
    UsuarioDe <- MCUsuarioDeUna
    ana1 = ana1
    ana2 = ana2
    bruno1 = bruno1
    ana = ana
    bruno = bruno
    factura = factura
    cliente = cliente
    Nulo = Nulo
    Clases <- MCUnaClase
    Lentos <- MCUnaPestana
    TTL = 1
    MaxReloj = 1
CHECK_DEADLOCK FALSE
PROPERTIES
    CaidaSeLimpia
    AceptadaTermina
