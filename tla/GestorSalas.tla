----------------------------- MODULE GestorSalas -----------------------------
(***************************************************************************)
(* The in-memory collaboration room of one diagram: who is connected, who  *)
(* holds the edit lock of which class, and the frames broadcast about it.  *)
(* Source: diagramas/infrastructure/websocket/gestor_salas.py and the      *)
(* socket handler of colaboracion_ws_router.py that drives it.             *)
(*                                                                         *)
(* Each WebSocket has one handler, a coroutine of a single asyncio loop.   *)
(* "bucle" is the handler that has the loop: a handler keeps it until it   *)
(* awaits something that is not ready.  The critical sections contain no   *)
(* await, so each is one step; a broadcast awaits one send per socket, and *)
(* a send to a socket of Lentos (its write buffer is full) gives the loop  *)
(* away in the middle of the broadcast.                                    *)
(* Rooms of different diagrams share nothing but a lock that is never      *)
(* contended: one room is modelled.                                        *)
(***************************************************************************)
EXTENDS Integers, FiniteSets

CONSTANTS
    Conexiones,  \* WebSockets: each is opened, used and closed once
    Usuarios,
    Clases,      \* classes of the diagram
    UsuarioDe,   \* the user authenticated on each WebSocket (tabs share one)
    Lentos,      \* the WebSockets on which a send may suspend the sender
    TTL,         \* life of a lock, 30 s in the code
    MaxReloj,    \* bound on the modelled time
    Nulo         \* None

ASSUME UsuarioDeAssumption == UsuarioDe \in [Conexiones -> Usuarios]
ASSUME LentosAssumption == Lentos \subseteq Conexiones
ASSUME TTLAssumption == TTL \in Nat \ {0} /\ MaxReloj \in Nat
VARIABLES
    reloj,       \* time.time()
    abierta,     \* the WebSockets whose peer is still there
    fase,        \* where each socket handler is
    edita,       \* the handlers whose puede_editar is True, read at connection
    salaExiste,  \* diagrama_id in _salas
    conexiones,  \* keys of sala.conexiones
    bloqueos,    \* sala.bloqueos
    pendientes,  \* broadcasts a handler has decided and not begun
    actual,      \* the broadcast a handler is in the middle of
    destinos,    \* the sockets that broadcast has not reached yet
    bucle,       \* the handler that has the event loop, or Nulo
    vista,       \* the locks each client knows from the frames it got
    presentes    \* the participants each client knows from the frames it got

sala   == <<salaExiste, conexiones, bloqueos>>
envio  == <<pendientes, actual, destinos>>
remoto == <<vista, presentes>>
vars   == <<reloj, abierta, fase, edita, sala, envio, bucle, remoto>>

Fases == {"nueva", "aceptada", "uniendo", "activa", "saliendo", "fin"}
Bloqueo == [usuario : Usuarios, expira : Nat]
Mensajes ==
    [tipo : {"CONCEDIDO"}, clase : Clases, usuario : Usuarios, expira : Nat]
    \cup [tipo : {"DENEGADO", "LIBERADO"}, clase : Clases, usuario : {Nulo}, expira : {0}]
    \cup [tipo : {"DESCONECTADO"}, clase : {Nulo}, usuario : Usuarios, expira : {0}]
    \cup [tipo : {"PUNTERO"}, clase : {Nulo}, usuario : {Nulo}, expira : {0}]

ASSUME NuloAssumption ==
    Nulo \notin Usuarios \cup Clases \cup Conexiones \cup Bloqueo \cup Mensajes

Concedido(c, u, t) == [tipo |-> "CONCEDIDO", clase |-> c, usuario |-> u, expira |-> t]
Denegado(c)        == [tipo |-> "DENEGADO", clase |-> c, usuario |-> Nulo, expira |-> 0]
Liberado(c)        == [tipo |-> "LIBERADO", clase |-> c, usuario |-> Nulo, expira |-> 0]
Desconectado(u)    == [tipo |-> "DESCONECTADO", clase |-> Nulo, usuario |-> u, expira |-> 0]
Puntero            == [tipo |-> "PUNTERO", clase |-> Nulo, usuario |-> Nulo, expira |-> 0]

SinBloqueos == [c \in Clases |-> Nulo]
\* Two tabs of a user are one participant, and beside it the slip.
CadaSocket(S) == S
UsuariosDe(S) == {UsuarioDe[s] : s \in S}

Vencido(c) == bloqueos[c] # Nulo /\ bloqueos[c].expira <= reloj
\* limpiar_bloqueos_expirados: the classes it returns and what it leaves.
Expirados == {c \in Clases : Vencido(c)}
SinExpirados == [c \in Clases |-> IF Vencido(c) THEN Nulo ELSE bloqueos[c]]

BloqueadaPor(u, c) == bloqueos[c] # Nulo /\ bloqueos[c].usuario = u

\* The decisions of the critical sections, and next to each the slip that
\* would break it.
TomaSiempre(u, b) == TRUE
PuedeTomar(u, b)  == b = Nulo \/ b.usuario = u
ConCualquierRol(s) == TRUE
PuedeEditar(s)     == s \in edita
SinMirarPestanas(s) == TRUE
EsUltimaPestana(s)  == UsuarioDe[s] \notin UsuariosDe(conexiones \ {s})
NoSueltaNada(u) == {}
BloqueosDe(u)   == {c \in Clases : BloqueadaPor(u, c)}
SalaPermanente(quedan) == TRUE
SalaQueda(quedan)      == quedan # {}

(***************************************************************************)
(* The loop.                                                               *)
(***************************************************************************)
Turno(s)  == bucle \in {Nulo, s}
Ociosa(s) == pendientes[s] = {} /\ actual[s] = Nulo
\* The handler is suspended in receive_text and gets a frame to serve.
Atiende(s) == fase[s] = "activa" /\ Ociosa(s) /\ bucle = Nulo

\* What a critical section leaves to be said once the lock is released.
Anunciar(s, msgs) ==
    /\ pendientes' = [pendientes EXCEPT ![s] = msgs]
    /\ bucle' = s
    /\ UNCHANGED <<actual, destinos>>

Init ==
    /\ reloj = 0
    /\ abierta = {}
    /\ fase = [s \in Conexiones |-> "nueva"]
    /\ edita = {}
    /\ salaExiste = FALSE
    /\ conexiones = {}
    /\ bloqueos = SinBloqueos
    /\ pendientes = [s \in Conexiones |-> {}]
    /\ actual = [s \in Conexiones |-> Nulo]
    /\ destinos = [s \in Conexiones |-> {}]
    /\ bucle = Nulo
    /\ vista = [s \in Conexiones |-> SinBloqueos]
    /\ presentes = [s \in Conexiones |-> {}]

(***************************************************************************)
(* Connection.                                                             *)
(***************************************************************************)
\* The handler authenticates the user, checks the access to the diagram,
\* reads the role and accepts the WebSocket.
Aceptar(s) ==
    /\ fase[s] = "nueva" /\ bucle = Nulo
    /\ fase' = [fase EXCEPT ![s] = "aceptada"]
    /\ abierta' = abierta \cup {s}
    /\ edita' \in {edita, edita \cup {s}}
    /\ UNCHANGED <<reloj, sala, envio, bucle, remoto>>

\* No session, or no access to the diagram: closed with 4001 or 4003.
Rechazar(s) ==
    /\ fase[s] = "nueva" /\ bucle = Nulo
    /\ fase' = [fase EXCEPT ![s] = "fin"]
    /\ UNCHANGED <<reloj, abierta, edita, sala, envio, bucle, remoto>>

\* unir_participante, its critical section.
Unir(s) ==
    /\ fase[s] = "aceptada" /\ Turno(s)
    /\ fase' = [fase EXCEPT ![s] = "uniendo"]
    /\ salaExiste' = TRUE
    /\ conexiones' = conexiones \cup {s}
    /\ bloqueos' = SinExpirados
    /\ Anunciar(s, {Liberado(c) : c \in Expirados})
    /\ UNCHANGED <<reloj, abierta, edita, remoto>>

\* unir_participante after its broadcasts, and the send of SALA_UNIDA.
Bienvenida(s) ==
    /\ fase[s] = "uniendo" /\ Ociosa(s) /\ Turno(s) /\ s \in abierta
    /\ fase' = [fase EXCEPT ![s] = "activa"]
    /\ vista' = [vista EXCEPT ![s] = bloqueos]
    /\ presentes' = [presentes EXCEPT ![s] = UsuariosDe(conexiones)]
    /\ bucle' = Nulo
    /\ UNCHANGED <<reloj, abierta, edita, sala, envio>>

EnvioSinFin(s) == FALSE
\* The peer has gone: the send raises before the try whose finally would
\* call remover_participante, and the handler is over.
BienvenidaFalla(s) ==
    /\ fase[s] = "uniendo" /\ Ociosa(s) /\ Turno(s) /\ s \notin abierta
    /\ fase' = [fase EXCEPT ![s] = "fin"]
    /\ bucle' = Nulo
    /\ UNCHANGED <<reloj, abierta, edita, sala, envio, remoto>>

(***************************************************************************)
(* Frames of a connected client.                                           *)
(***************************************************************************)
\* solicitar_bloqueo.  The handler is in the room, so the room exists and
\* the early return for a room that does not is never taken.
Solicitar(s, c) ==
    /\ Atiende(s)
    /\ LET u == UsuarioDe[s]
           quedan == SinExpirados
           concede == PuedeTomar(u, quedan[c])
       IN IF PuedeEditar(s)
          THEN /\ bloqueos' = IF concede
                     THEN [quedan EXCEPT ![c] = [usuario |-> u, expira |-> reloj + TTL]]
                     ELSE quedan
               /\ Anunciar(s, {IF concede THEN Concedido(c, u, reloj + TTL)
                                          ELSE Denegado(c)})
          ELSE /\ bloqueos' = bloqueos
               /\ Anunciar(s, {Denegado(c)})
    /\ UNCHANGED <<reloj, abierta, fase, edita, salaExiste, conexiones, remoto>>

\* renovar_bloqueo: the owner renews whether or not the lock has expired.
Renovar(s, c) ==
    /\ Atiende(s) /\ PuedeEditar(s)
    /\ BloqueadaPor(UsuarioDe[s], c)
    /\ bloqueos' = [bloqueos EXCEPT ![c].expira = reloj + TTL]
    /\ Anunciar(s, {Concedido(c, UsuarioDe[s], reloj + TTL)})
    /\ UNCHANGED <<reloj, abierta, fase, edita, salaExiste, conexiones, remoto>>

LiberarCallado(s, c) ==
    /\ Atiende(s) /\ PuedeEditar(s)
    /\ BloqueadaPor(UsuarioDe[s], c)
    /\ bloqueos' = [bloqueos EXCEPT ![c] = Nulo]
    /\ Anunciar(s, {})
    /\ UNCHANGED <<reloj, abierta, fase, edita, salaExiste, conexiones, remoto>>

\* liberar_bloqueo
Liberar(s, c) ==
    /\ Atiende(s) /\ PuedeEditar(s)
    /\ BloqueadaPor(UsuarioDe[s], c)
    /\ bloqueos' = [bloqueos EXCEPT ![c] = Nulo]
    /\ Anunciar(s, {Liberado(c)})
    /\ UNCHANGED <<reloj, abierta, fase, edita, salaExiste, conexiones, remoto>>

\* mover_cursor (anyone) and arrastrar_clase_preview (editors): relayed to
\* the others, nothing kept.
Apuntar(s) ==
    /\ Atiende(s)
    /\ Anunciar(s, {Puntero})
    /\ UNCHANGED <<reloj, abierta, fase, edita, sala, remoto>>

(***************************************************************************)
(* Departure.                                                              *)
(***************************************************************************)
SoloLiberaciones(u) == {Liberado(c) : c \in BloqueosDe(u)}
AnunciosDeSalida(u) == {Liberado(c) : c \in BloqueosDe(u)} \cup {Desconectado(u)}

\* remover_participante, called from the finally of the handler.
Remover(s) ==
    LET u == UsuarioDe[s]
        quedan == conexiones \ {s}
        ultima == EsUltimaPestana(s)
    IN /\ fase' = [fase EXCEPT ![s] = "saliendo"]
       /\ conexiones' = quedan
       /\ salaExiste' = SalaQueda(quedan)
       /\ bloqueos' = CASE quedan = {} -> SinBloqueos
                        [] quedan # {} /\ ultima ->
                             [c \in Clases |->
                                IF c \in BloqueosDe(u) THEN Nulo ELSE bloqueos[c]]
                        [] OTHER -> bloqueos
       /\ Anunciar(s, IF ultima THEN AnunciosDeSalida(u) ELSE {})
       /\ UNCHANGED <<reloj, abierta, edita, remoto>>

SinFinally(s) ==
    /\ Atiende(s) /\ s \notin abierta
    /\ fase' = [fase EXCEPT ![s] = "fin"]
    /\ UNCHANGED <<reloj, abierta, edita, sala, envio, bucle, remoto>>

\* WebSocketDisconnect, or a send of the loop itself that raises.
Desconexion(s) == Atiende(s) /\ s \notin abierta /\ Remover(s)

\* A frame that is not an object raises inside the loop: the handler leaves
\* although the peer is still there.
FrameInvalido(s) == Atiende(s) /\ s \in abierta /\ Remover(s)

\* The handler returns; the server closes what is left of the socket.
Terminar(s) ==
    /\ fase[s] = "saliendo" /\ Ociosa(s) /\ Turno(s)
    /\ fase' = [fase EXCEPT ![s] = "fin"]
    /\ abierta' = abierta \ {s}
    /\ edita' = edita \ {s}
    /\ vista' = [vista EXCEPT ![s] = SinBloqueos]
    /\ presentes' = [presentes EXCEPT ![s] = {}]
    /\ bucle' = Nulo
    /\ UNCHANGED <<reloj, sala, envio>>

(***************************************************************************)
(* Broadcasting.                                                           *)
(***************************************************************************)
\* DENEGADO goes to the requester only, pointers to everyone else.
Audiencia(m, s) ==
    CASE m.tipo = "DENEGADO" -> {s}
      [] m.tipo = "PUNTERO"  -> conexiones \ {s}
      [] OTHER               -> conexiones

\* _broadcast_a_sala begins: the sockets are those connected now.  The
\* departure itself is announced after the locks it releases.
EmpezarDifusion(s) ==
    /\ Turno(s) /\ actual[s] = Nulo
    /\ \E m \in pendientes[s] :
         /\ m.tipo = "DESCONECTADO" => pendientes[s] = {m}
         /\ pendientes' = [pendientes EXCEPT ![s] = @ \ {m}]
         /\ destinos' = [destinos EXCEPT ![s] = Audiencia(m, s)]
         /\ actual' = [actual EXCEPT ![s] = IF Audiencia(m, s) = {} THEN Nulo ELSE m]
    /\ bucle' = s
    /\ UNCHANGED <<reloj, abierta, fase, edita, sala, remoto>>

\* What a frame changes in what a client knows: the client keeps the last
\* word it heard on each class, and drops the participants that left.
VistaTras(m, v) ==
    CASE m.tipo = "CONCEDIDO" ->
           [v EXCEPT ![m.clase] = [usuario |-> m.usuario, expira |-> m.expira]]
      [] m.tipo = "LIBERADO"  -> [v EXCEPT ![m.clase] = Nulo]
      [] OTHER                -> v
PresentesTras(m, p) == IF m.tipo = "DESCONECTADO" THEN p \ {m.usuario} ELSE p

\* One send_text of a broadcast.  To a peer that has gone it raises, and the
\* exception is swallowed; to a slow one it may give the loop away.
EnviarFrame(s, d) ==
    /\ Turno(s) /\ d \in destinos[s]
    /\ LET m == actual[s]
           faltan == destinos[s] \ {d}
       IN /\ destinos' = [destinos EXCEPT ![s] = faltan]
          /\ actual' = [actual EXCEPT ![s] = IF faltan = {} THEN Nulo ELSE m]
          /\ IF d \in abierta
             THEN /\ vista' = [vista EXCEPT ![d] = VistaTras(m, @)]
                  /\ presentes' = [presentes EXCEPT ![d] = PresentesTras(m, @)]
             ELSE UNCHANGED remoto
    /\ bucle' = IF d \in abierta \cap Lentos THEN Nulo ELSE s
    /\ UNCHANGED <<reloj, abierta, fase, edita, sala, pendientes>>

\* The frame has been served: back to receive_text.
Ceder(s) ==
    /\ bucle = s /\ fase[s] = "activa" /\ Ociosa(s)
    /\ bucle' = Nulo
    /\ UNCHANGED <<reloj, abierta, fase, edita, sala, envio, remoto>>

(***************************************************************************)
(* Environment.                                                            *)
(***************************************************************************)
\* The peer goes away, and what it knew with it.  The server learns it from
\* a callback, hence between two steps of the loop.
Cerrar(s) ==
    /\ s \in abierta /\ bucle = Nulo
    /\ abierta' = abierta \ {s}
    /\ vista' = [vista EXCEPT ![s] = SinBloqueos]
    /\ presentes' = [presentes EXCEPT ![s] = {}]
    /\ UNCHANGED <<reloj, fase, edita, sala, envio, bucle>>

\* A handler reads the clock once, when it gets the loop.
Pasar ==
    /\ reloj < MaxReloj /\ bucle = Nulo
    /\ reloj' = reloj + 1
    /\ UNCHANGED <<abierta, fase, edita, sala, envio, bucle, remoto>>

\* What a handler does by itself, once a frame or a departure set it going.
Paso(s) ==
    \/ Unir(s) \/ Bienvenida(s) \/ BienvenidaFalla(s)
    \/ EmpezarDifusion(s)
    \/ \E d \in Conexiones : EnviarFrame(s, d)
    \/ Ceder(s) \/ Desconexion(s) \/ Terminar(s)

\* What a client asks for.
Peticion(s) ==
    \/ Aceptar(s) \/ Rechazar(s)
    \/ \E c \in Clases : Solicitar(s, c) \/ Renovar(s, c) \/ Liberar(s, c)
    \/ Apuntar(s) \/ FrameInvalido(s) \/ Cerrar(s)

Next == Pasar \/ \E s \in Conexiones : Paso(s) \/ Peticion(s)

Spec == Init /\ [][Next]_vars

\* asyncio runs the ready callbacks in order of arrival, so a handler that
\* is ready again and again does run, and a send to a peer that does not
\* read ends when the server's keepalive closes it.  The frames a peer left
\* behind are finitely many, so the handler does come to the disconnection
\* queued after them.  Nothing is assumed of the clients.
SpecJusta ==
    Spec /\ \A s \in Conexiones : SF_vars(Paso(s)) /\ SF_vars(Desconexion(s))

(***************************************************************************)
(* What the room promises.                                                 *)
(***************************************************************************)
TypeOK ==
    /\ reloj \in 0..MaxReloj
    /\ abierta \subseteq Conexiones
    /\ fase \in [Conexiones -> Fases]
    /\ edita \subseteq Conexiones
    /\ salaExiste \in BOOLEAN
    /\ conexiones \subseteq Conexiones
    /\ bloqueos \in [Clases -> Bloqueo \cup {Nulo}]
    /\ pendientes \in [Conexiones -> SUBSET Mensajes]
    /\ actual \in [Conexiones -> Mensajes \cup {Nulo}]
    /\ destinos \in [Conexiones -> SUBSET Conexiones]
    /\ bucle \in Conexiones \cup {Nulo}
    /\ vista \in [Conexiones -> [Clases -> Bloqueo \cup {Nulo}]]
    /\ presentes \in [Conexiones -> SUBSET Usuarios]

\* Nobody keeps a class locked after leaving: the owner of every lock, of
\* one that has expired too, still has a connection in the room.
DueniosConectados ==
    \A c \in Clases : bloqueos[c] # Nulo => bloqueos[c].usuario \in UsuariosDe(conexiones)

\* The room is in _salas exactly while it has a connection, so what a
\* handler in its loop looks up is never missing.
SalaSiConexiones ==
    /\ salaExiste <=> conexiones # {}
    /\ \A s \in Conexiones : fase[s] \in {"uniendo", "activa"} => s \in conexiones

\* The handler s has yet to tell d that u left.
PorAvisar(s, d, u) ==
    \/ Desconectado(u) \in pendientes[s]
    \/ actual[s] = Desconectado(u) /\ d \in destinos[s]

\* A client never goes on showing a participant that left: whoever it shows
\* is connected, or the frame that says he left is on its way to it.
PresenciaSinAusentes ==
    \A d \in conexiones \cap abierta : \A u \in presentes[d] :
        u \in UsuariosDe(conexiones) \/ \E s \in Conexiones : PorAvisar(s, d, u)

\* While sends do not suspend, what every client believes about the locks
\* that have not expired is what the room says, whenever the loop is free.
VistaCoherente ==
    LET Vigente(b) == IF b # Nulo /\ b.expira > reloj THEN b ELSE Nulo
        EnReposo == bucle = Nulo /\ \A s \in Conexiones : Ociosa(s)
    IN EnReposo => \A d \in abierta : fase[d] = "activa" =>
         \A c \in Clases : Vigente(vista[d][c]) = Vigente(bloqueos[c])

\* A lock that has not expired never passes from one user to another in
\* one step: it is released, or expires, first.
NadieRoba ==
    [][\A c \in Clases :
         /\ bloqueos[c] # Nulo /\ ~Vencido(c)
         /\ bloqueos'[c] # Nulo
         => bloqueos'[c].usuario = bloqueos[c].usuario]_vars

\* A lock that has not expired disappears only because a tab of its owner
\* that may edit released it, or because his last tab has left.
SoloSuelta ==
    [][\A c \in Clases :
         /\ bloqueos[c] # Nulo /\ ~Vencido(c)
         /\ bloqueos'[c] = Nulo
         => \/ bloqueos[c].usuario \notin UsuariosDe(conexiones')
            \/ \E s \in edita : /\ UsuarioDe[s] = bloqueos[c].usuario
                               /\ bucle' = s /\ fase'[s] = "activa"]_vars

\* Whoever gets or extends a lock is in the room, for himself, on a
\* connection that may edit.
SoloEditores ==
    [][\A c \in Clases :
         bloqueos'[c] # bloqueos[c] /\ bloqueos'[c] # Nulo
         => bucle' \in edita \cap conexiones /\ UsuarioDe[bucle'] = bloqueos'[c].usuario]_vars

\* "Las salas ... se destruyen al quedar vacías": a room has at least one
\* connection whose handler is still running.
SalaSeDestruyeAlVaciarse ==
    salaExiste => \E s \in conexiones : fase[s] # "fin"

\* A client that goes away while it is served leaves the room.
CaidaSeLimpia ==
    \A s \in Conexiones : (fase[s] = "activa" /\ s \notin abierta) ~> (s \notin conexiones)

\* Whoever is accepted is welcomed, or found gone.
AceptadaTermina ==
    \A s \in Conexiones : (fase[s] = "aceptada") ~> (fase[s] \in {"activa", "fin"})
=============================================================================
