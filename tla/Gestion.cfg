SPECIFICATION Spec
CONSTANTS
    Usuarios = {ana}
    Diagramas = {d1, d2, d3}
    Codigos = {c1, c2, c3}
    Sesiones = {s1, s2}
    RolesPedidos = {"ver", "editor"}
    MaxNumero = 2
    Nulo = Nulo
SYMMETRY Simetria
CHECK_DEADLOCK FALSE
INVARIANTS
    TypeOK
    NumerosDistintos
    EntranInvitados
PROPERTIES
    EsSerialSinCarrera
