SPECIFICATION SpecDifundida
CONSTANTS
    c1 = c1
    c2 = c2
    inter = inter
    k1 = k1
    k2 = k2
    k3 = k3
    Clases = {c1, c2, inter}
    Atributos <- MCAtributos
    Relaciones = {1, 2, 3}
    Referencias = {1, 2, 3, 4}
    Estructuras = {1}
    LlaveDe <- MCLlaveDe
    ForaneaDe <- MCForaneaDe
    FilasDe <- MCFilasDe
    Manuales = {"m1"}
    MaxManuales = 1
    FormasJuntoNm = {"N1"}
    ReferenciasJuntoNm = {1, 2, 3}
    FormasPedidas = {"jerarquia", "N1", "1N", "11", "NN"}
    CiegasANm = FALSE
    Nulo = Nulo
SYMMETRY MCSimetria
CHECK_DEADLOCK FALSE
INVARIANTS
    TypeOK
    Integridad
    CascadaExacta
    ClientesAlDia
PROPERTIES
    EsDiagramaIntegro
    GeneracionEntera
