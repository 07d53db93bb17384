SPECIFICATION SpecUno
CONSTANTS
    h1 = h1
    h2 = h2
    k1 = k1
    Hilos <- MCHilos
    Claves <- MCClaves
    NumModelos = 2
    Umbral = 2
    Planes <- MCPlanes
    Nulo = Nulo
    Propuestas <- MCPropuestas
    Imagenes <- MCImagenes
INVARIANTS
    TypeOK
    AbiertaAtendida
    InformeVeraz
    CorteCoherente
    EjecucionCompleta
    NadaSePierde
    SinDobles
    CadaNombreSuClase
    ImagenCompleta
    CadaClaseUnaVez
    NuevasCompletas
    ColumnasUnicas
    RepetirNoAnade
PROPERTIES
    EsInteraccionUnica
    TodaPeticionTermina
