--------------------------- MODULE OperacionDurable ---------------------------
(***************************************************************************)
(* The facade POST /api/diagramas/{id}/operaciones: durable, idempotent    *)
(* mutations of one diagram, by concurrent requests.                       *)
(* Source: procesar_operacion_diagrama.py (execute), idempotencia_diagrama *)
(* .py, unit_of_work.py, the class and operation repositories, the event   *)
(* bus and difundir_mutacion.                                              *)
(*                                                                         *)
(* Each request runs in a thread of its own with a database session of its *)
(* own at READ COMMITTED: between two of its reads others may commit.  Its *)
(* writes are visible to others from its commit on; the unique index of    *)
(* operaciones_diagrama.action_id and the primary key of clases are        *)
(* enforced there.  The content of a class is abstracted to the action     *)
(* that wrote it last.                                                     *)
(***************************************************************************)
EXTENDS FiniteSets

CONSTANTS
    Intentos,    \* HTTP requests, the retries of one action among them
    Acciones,    \* Idempotency-Key values
    Usuarios,
    Clases,      \* class ids
    Clientes,    \* WebSocket clients of the diagram
    Nulo         \* None

Tipos == {"CREAR_CLASE", "ACTUALIZAR_CLASE", "ELIMINAR_CLASE", "CREAR_ESTRUCTURA_NM"}
Efectos == [clase : Clases, valor : Acciones \cup {Nulo}]
Peticiones == [accion : Acciones, usuario : Usuarios, tipo : Tipos, clase : Clases]
Recibos == [usuario : Usuarios, tipo : Tipos, clase : Clases, efecto : Efectos \cup {Nulo}]
Modos == {"insertar", "pisar", "borrar"}
Escrituras == [clase : Clases, modo : Modos]
Filas == [valor : Acciones, borrada : BOOLEAN]
Estados == {"recibo", "prohibido", "conflicto", "rechazo", "error", "perdida"}
Respuestas == [estado : Estados, efecto : Efectos \cup {Nulo}]
Pasos == {"libre", "recibida", "autorizada", "sin_recibo", "reconsultada",
          "preparada", "difundiendo", "fin"}

ASSUME NuloAssumption ==
    Nulo \notin Acciones \cup Peticiones \cup Recibos \cup Efectos
                \cup Escrituras \cup Filas \cup Respuestas

VARIABLES
    filas,        \* table clases: absent, or a row that may be soft-deleted
    operaciones,  \* table operaciones_diagrama, by action_id
    editores,     \* users that may edit the diagram now
    peticion,     \* the request each attempt carries
    paso,         \* where its thread is
    escritura,    \* what its session has pending
    efecto,       \* the projection it put in the receipt
    destinos,     \* clients its broadcast has not reached
    respuesta,    \* what the client is answered
    vista,        \* the classes each client shows
    solapadas     \* history: classes on which two requests overlapped

base  == <<filas, operaciones>>
hilo  == <<escritura, efecto, destinos>>
vars  == <<base, editores, peticion, paso, hilo, respuesta, vista, solapadas>>

Viva(c) == filas[c] # Nulo /\ ~filas[c].borrada
Visible == [c \in Clases |-> IF Viva(c) THEN filas[c].valor ELSE Nulo]

Init ==
    /\ filas = [c \in Clases |-> Nulo]
    /\ operaciones = [a \in Acciones |-> Nulo]
    /\ editores = Usuarios
    /\ peticion = [p \in Intentos |-> Nulo]
    /\ paso = [p \in Intentos |-> "libre"]
    /\ escritura = [p \in Intentos |-> Nulo]
    /\ efecto = [p \in Intentos |-> Nulo]
    /\ destinos = [p \in Intentos |-> {}]
    /\ respuesta = [p \in Intentos |-> Nulo]
    /\ vista = [k \in Clientes |-> [c \in Clases |-> Nulo]]
    /\ solapadas = {}

Ir(p, donde) == paso' = [paso EXCEPT ![p] = donde]

\* The thread ends: the session is rolled back and the client answered.
Responder(p, estado, e) ==
    /\ Ir(p, "fin")
    /\ respuesta' = [respuesta EXCEPT ![p] = [estado |-> estado, efecto |-> e]]
    /\ escritura' = [escritura EXCEPT ![p] = Nulo]
    /\ efecto' = [efecto EXCEPT ![p] = Nulo]
    /\ UNCHANGED <<base, editores, peticion, destinos, vista, solapadas>>

Recibir(p, pet) ==
    /\ paso[p] = "libre"
    /\ peticion' = [peticion EXCEPT ![p] = pet]
    /\ Ir(p, "recibida")
    /\ UNCHANGED <<base, editores, hilo, respuesta, vista, solapadas>>

\* obtener_diagrama_autorizado with exigir_edicion, before any replay.
Autorizar(p) ==
    /\ paso[p] = "recibida"
    /\ IF peticion[p].usuario \in editores
       THEN /\ Ir(p, "autorizada")
            /\ UNCHANGED <<base, editores, peticion, hilo, respuesta, vista, solapadas>>
       ELSE Responder(p, "prohibido", Nulo)

\* The receipt was given for this very request: same user, same content.
CoincideClave(r, pet) == TRUE
Coincide(r, pet) ==
    r.usuario = pet.usuario /\ r.tipo = pet.tipo /\ r.clase = pet.clase

RepublicarRecibo(p) ==
    /\ paso[p] = "autorizada"
    /\ LET r == operaciones[peticion[p].accion]
       IN IF r = Nulo THEN Ir(p, "sin_recibo") /\ UNCHANGED <<efecto, destinos>>
          ELSE /\ Ir(p, "difundiendo")
               /\ efecto' = [efecto EXCEPT ![p] = r.efecto]
               /\ destinos' = [destinos EXCEPT ![p] = Clientes]
    /\ UNCHANGED <<base, editores, peticion, escritura, respuesta, vista, solapadas>>

\* confirmar_o_recuperar
ConsultarRecibo(p) ==
    /\ paso[p] = "autorizada"
    /\ LET pet == peticion[p]
           r == operaciones[pet.accion]
       IN CASE r = Nulo ->
                 /\ Ir(p, "sin_recibo")
                 /\ UNCHANGED <<base, editores, peticion, hilo, respuesta, vista, solapadas>>
            [] r # Nulo /\ Coincide(r, pet) -> Responder(p, "recibo", r.efecto)
            [] OTHER                        -> Responder(p, "conflicto", Nulo)

\* CREAR_ESTRUCTURA_NM goes through a use case that looks for a receipt of
\* its own, whose content never has the facade's digest.
ReconsultarRecibo(p) ==
    /\ paso[p] = "sin_recibo" /\ peticion[p].tipo = "CREAR_ESTRUCTURA_NM"
    /\ IF operaciones[peticion[p].accion] # Nulo
       THEN Responder(p, "conflicto", Nulo)
       ELSE /\ Ir(p, "reconsultada")
            /\ UNCHANGED <<base, editores, peticion, hilo, respuesta, vista, solapadas>>

Crea(pet) == pet.tipo \in {"CREAR_CLASE", "CREAR_ESTRUCTURA_NM"}

\* guardar looks the row up without regard to its soft deletion: over a
\* deleted row a creation writes, but the class stays deleted and has no
\* projection.
Modo(pet) ==
    CASE pet.tipo = "ELIMINAR_CLASE"      -> "borrar"
      [] Crea(pet) /\ filas[pet.clase] = Nulo -> "insertar"
      [] OTHER                            -> "pisar"
Proyeccion(pet) ==
    CASE pet.tipo = "ELIMINAR_CLASE" -> [clase |-> pet.clase, valor |-> Nulo]
      [] Crea(pet) /\ filas[pet.clase] # Nulo -> Nulo
      [] OTHER -> [clase |-> pet.clase, valor |-> pet.accion]

EnCurso(q, c) ==
    paso[q] \in {"preparada", "difundiendo"} /\ peticion[q].clase = c

\* The operation itself: its checks, its pending writes and its receipt.
Preparar(p) ==
    LET pet == peticion[p]
    IN /\ \/ paso[p] = "reconsultada"
          \/ paso[p] = "sin_recibo" /\ pet.tipo # "CREAR_ESTRUCTURA_NM"
       /\ IF Crea(pet) = Viva(pet.clase)
          THEN Responder(p, "rechazo", Nulo)
          ELSE /\ Ir(p, "preparada")
               /\ escritura' = [escritura EXCEPT ![p] =
                                  [clase |-> pet.clase, modo |-> Modo(pet)]]
               /\ efecto' = [efecto EXCEPT ![p] = Proyeccion(pet)]
               /\ solapadas' = solapadas \cup
                    {c \in {pet.clase} : \E q \in Intentos : EnCurso(q, c)}
               /\ UNCHANGED <<base, editores, peticion, destinos, respuesta, vista>>

\* The constraints the database enforces when the session commits.
NadaChoca(p) == FALSE
Choca(p) ==
    \/ operaciones[peticion[p].accion] # Nulo
    \/ escritura[p].modo = "insertar" /\ filas[escritura[p].clase] # Nulo

FilaSinAutor(f, modo, a) ==
    CASE modo = "insertar" -> [valor |-> a, borrada |-> FALSE]
      [] modo = "pisar"    -> [valor |-> a, borrada |-> f.borrada]
      [] modo = "borrar"   -> [valor |-> Nulo, borrada |-> TRUE]
FilaTras(f, modo, a) ==
    CASE modo = "insertar" -> [valor |-> a, borrada |-> FALSE]
      [] modo = "pisar"    -> [valor |-> a, borrada |-> f.borrada]
      [] modo = "borrar"   -> [valor |-> a, borrada |-> TRUE]

ReciboDe(p) ==
    [usuario |-> peticion[p].usuario, tipo |-> peticion[p].tipo,
     clase |-> peticion[p].clase, efecto |-> efecto[p]]

SoloElRecibo(p) ==
    /\ operaciones' = [operaciones EXCEPT ![peticion[p].accion] = ReciboDe(p)]
    /\ UNCHANGED filas
SinRecibo(p) ==
    LET w == escritura[p] a == peticion[p].accion
    IN /\ filas' = [filas EXCEPT ![w.clase] = FilaTras(@, w.modo, a)]
       /\ UNCHANGED operaciones
\* The rows of one transaction: the class and the receipt.
Escribir(p) ==
    LET w == escritura[p] a == peticion[p].accion
    IN /\ filas' = [filas EXCEPT ![w.clase] = FilaTras(@, w.modo, a)]
       /\ operaciones' = [operaciones EXCEPT ![a] = ReciboDe(p)]

\* uow.commit, and publish right after it in the same thread.
Confirmar(p) ==
    /\ paso[p] = "preparada"
    /\ ~Choca(p)
    /\ Escribir(p)
    /\ Ir(p, "difundiendo")
    /\ escritura' = [escritura EXCEPT ![p] = Nulo]
    /\ destinos' = [destinos EXCEPT ![p] = Clientes]
    /\ UNCHANGED <<editores, peticion, efecto, respuesta, vista, solapadas>>

\* IntegrityError: rolled back and raised, answered 500.
ConfirmarFalla(p) ==
    /\ paso[p] = "preparada"
    /\ Choca(p)
    /\ Responder(p, "error", Nulo)

\* MUTACION_CONFIRMADA reaches a client, which shows what it carries.
Difundir(p, k) ==
    /\ paso[p] = "difundiendo" /\ k \in destinos[p]
    /\ destinos' = [destinos EXCEPT ![p] = @ \ {k}]
    /\ vista' = IF efecto[p] = Nulo THEN vista
                ELSE [vista EXCEPT ![k][efecto[p].clase] = efecto[p].valor]
    /\ UNCHANGED <<base, editores, peticion, paso, escritura, efecto, respuesta, solapadas>>

DevolverRecibo(p) ==
    /\ paso[p] = "difundiendo" /\ destinos[p] = {}
    /\ Responder(p, "recibo", efecto[p])

\* A collaborator loses the right to edit.
Revocar(u) ==
    /\ u \in editores
    /\ editores' = editores \ {u}
    /\ UNCHANGED <<base, peticion, paso, hilo, respuesta, vista, solapadas>>

\* The server dies and restarts: what was not committed is gone, nobody in
\* flight is answered, and the clients connect again and read the diagram.
EnVuelo == {p \in Intentos : paso[p] \notin {"libre", "fin"}}
Caida ==
    /\ EnVuelo # {}
    /\ paso' = [p \in Intentos |-> IF p \in EnVuelo THEN "fin" ELSE paso[p]]
    /\ respuesta' = [p \in Intentos |->
         IF p \in EnVuelo THEN [estado |-> "perdida", efecto |-> Nulo] ELSE respuesta[p]]
    /\ escritura' = [p \in Intentos |-> Nulo]
    /\ efecto' = [p \in Intentos |-> Nulo]
    /\ destinos' = [p \in Intentos |-> {}]
    /\ vista' = [k \in Clientes |-> Visible]
    /\ UNCHANGED <<base, editores, peticion, solapadas>>

Avanzar(p) ==
    \/ Autorizar(p) \/ ConsultarRecibo(p) \/ ReconsultarRecibo(p) \/ Preparar(p)
    \/ Confirmar(p) \/ ConfirmarFalla(p)
    \/ \E k \in Clientes : Difundir(p, k)
    \/ DevolverRecibo(p)

Next ==
    \/ \E p \in Intentos : Avanzar(p) \/ \E pet \in Peticiones : Recibir(p, pet)
    \/ \E u \in Usuarios : Revocar(u)
    \/ Caida

Spec == Init /\ [][Next]_vars

(***************************************************************************)
(* What the facade promises.                                               *)
(***************************************************************************)
TypeOK ==
    /\ filas \in [Clases -> Filas \cup {Nulo}]
    /\ operaciones \in [Acciones -> Recibos \cup {Nulo}]
    /\ editores \subseteq Usuarios
    /\ peticion \in [Intentos -> Peticiones \cup {Nulo}]
    /\ paso \in [Intentos -> Pasos]
    /\ escritura \in [Intentos -> Escrituras \cup {Nulo}]
    /\ efecto \in [Intentos -> Efectos \cup {Nulo}]
    /\ destinos \in [Intentos -> SUBSET Clientes]
    /\ respuesta \in [Intentos -> Respuestas \cup {Nulo}]
    /\ vista \in [Clientes -> [Clases -> Acciones \cup {Nulo}]]
    /\ solapadas \subseteq Clases

\* Nothing is written without its receipt: the action that wrote a class
\* last is confirmed, and its receipt is about that class.
EfectosConRecibo ==
    \A c \in Clases : filas[c] # Nulo =>
        LET r == operaciones[filas[c].valor] IN r # Nulo /\ r.clase = c

\* A class changes only in the step that confirms an action not confirmed
\* before: however often it is repeated, an action writes once, and its
\* receipt stays as it was given.
EscribeUnaVez ==
    [][/\ \A a \in Acciones : operaciones[a] # Nulo => operaciones'[a] = operaciones[a]
       /\ \A c \in Clases : filas'[c] # filas[c] =>
            \E a \in Acciones : /\ operaciones[a] = Nulo /\ operaciones'[a] # Nulo
                               /\ operaciones'[a].clase = c
                               /\ filas'[c] # Nulo /\ filas'[c].valor = a]_vars

\* Once no request is in flight every client shows what the database holds
\* of each class on which no two requests overlapped; replays do not take
\* it back to what an older receipt says.
VistaAlDia ==
    EnVuelo = {} => \A k \in Clientes : \A c \in Clases \ solapadas : vista[k][c] = Visible[c]

\* Answers and receipts follow ReciboUnico: a success is the one receipt of
\* its action, given to its user for the same content.
Contestado(p) ==
    LET r == respuesta[p]
    IN CASE r = Nulo -> Nulo
         [] r # Nulo /\ r.estado = "recibo" ->
              [exito |-> TRUE, accion |-> peticion[p].accion,
               recibo |-> [usuario |-> peticion[p].usuario, tipo |-> peticion[p].tipo,
                           clase |-> peticion[p].clase, efecto |-> r.efecto]]
         [] OTHER -> [exito |-> FALSE]

Unico == INSTANCE ReciboUnico WITH recibos <- operaciones,
                                   respuestas <- [p \in Intentos |-> Contestado(p)]
EsReciboUnico == Unico!Spec

\* "La clave de idempotencia ya fue usada con un contenido diferente.": who
\* is told so did repeat a key with other content, or of another user.
ConflictoSoloPorContenido ==
    \A p \in Intentos : respuesta[p] # Nulo /\ respuesta[p].estado = "conflicto" =>
        ~Coincide(operaciones[peticion[p].accion], peticion[p])
=============================================================================
