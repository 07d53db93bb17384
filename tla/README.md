# Verification of the collaborative diagram backend

This directory keeps, beside the code of `src/`, TLA+ models of the backend of a
collaborative editor of UML class diagrams (FastAPI, SQLModel, WebSockets), the
TLC configurations that check them on small instances and the TLAPS proofs of
what holds for every instance.

    tlc -workers 2 -config SalasLentas.cfg MCGestorSalas     # a run
    tlapm GestorSalas_proofs.tla                             # a proof

The names of the modules, actions and variables are those of the source, in
Spanish where it is in Spanish. `PROJECT.json` maps each definition to the lines
it models.

## 1. The system and its parts

| Part | State it keeps | Operations | Hard behaviour |
|---|---|---|---|
| **Collaboration rooms** `diagramas/infrastructure/websocket/gestor_salas.py`, `colaboracion_ws_router.py` | per diagram, in memory: sockets and participants, class locks with a 30 s life | join, leave, ask for / renew / release a lock, cursor and drag previews, broadcast | one coroutine per socket in one event loop, broadcasts that suspend half way, expiry, several tabs per user, peers that vanish |
| **Durable operations facade** `operacion_diagrama/procesar_operacion_diagrama.py`, `idempotencia_diagrama.py` | table `operaciones_diagrama`: one receipt per `Idempotency-Key` | 11 kinds of operation in one transaction with their receipt, then a broadcast | concurrent and repeated requests, crash, failed commit, revoked rights, lost or reordered broadcasts |
| **Diagram model and cascades** use cases of `clase`, `atributo`, `relacion`, `referencia_fk`, `estructura_relacion_nm`; `cascadas_diagrama.py`, `materializacion.py`, `validaciones.py` | soft-deleted rows: classes, attributes, relations, FK references, N:M structures | create, update, delete; five mutually recursive cascades | deletions that call each other over lists already read; keys shared by relations; ids reused |
| **Diagrams of a project** use cases of `diagrama` | table `diagramas` | create with the next free number, rename, delete unless last | checks that two requests pass at once |
| **Queries, REST routers, notifier** | none | projections; emission of events after the commit | stale projections, swallowed errors |
| **Connector geometry** `geometria_conectores.py`, `conector.py` | none | choice of handles | pure algorithm |
| **Projects** `gestion_proyectos` | projects, slugs, activity date | create, update, delete | unique slug under races |
| **Collaborators** `gestion_colaboradores` | collaborators with role and state, invitations | invite, join, change role, block, unblock, remove | read-modify-write races, expiry |
| **Unit of work, event bus** `shared` | pending rows and events of a request | commit, rollback, publish | partial failure between both |
| **AI assistant** `inteligencia_artificial` | table `interacciones_ia`; in memory, a circuit breaker per model | a message, a recording, a picture; planner and importer; execution of a plan; fallback between models | remote failures, repeated and concurrent requests, a plan that fails half way, proposals in any order, pictures of what is there already |
| **Enterprise Architect exchange** `intercambio_enterprise_architect` | none | import (parse, reconcile, write), export | reconciliation with what exists |
| **Backend generation** `generacion_backend` | record of the generations | read, validate, normalise, render, zip | a reading of five queries with mutations in between |
| **Authentication, configuration** `core` | none | token checks, wiring | delegated |

How they interact. REST handlers and the facade run in a thread per request, each
with its own database session at READ COMMITTED; the unit of work commits and
publishes. `OperacionDiagramaConfirmada` reaches `NotificarColaboracionHandler`,
which hands `MUTACION_CONFIRMADA` to the room of the diagram. The WebSocket
handlers share nothing with the REST threads but the singleton `gestor_salas` and
the database, which they read once, at connection. The AI executor calls a use
case of `diagramas` for each action of its plan, each a transaction of its own
over one shared session, and publishes what each did; its model calls go through
breakers that all the requests of the process share. The EA importer writes
through the repositories in one transaction. The generator reads the diagram with
the query the clients use.

What makes each part correct. Rooms: locks exclude, belong to somebody present
who may edit, and are what the clients show; nobody who left is shown; rooms end.
Facade: an action happens once, entirely or not at all, and repeating it returns
its receipt. Diagram: nothing points at a deleted row, a relation keeps the
foreign key that materializes it, deletions take what they must and no more.
Projects and collaborators: uniqueness and rights under races. Assistant: a
request is executed once and its report is true; what was proposed is made whole,
whatever its order, and a picture adds what the diagram lacks and nothing twice.
Generation: a backend comes from a diagram that was read whole.

## 2. The modules

    GestorSalas ------ MCGestorSalas ------ SalasLentas / SalasRapidas /
         |                                  SalasVivas / SalasFantasma .cfg
    GestorSalas_proofs

    ReciboUnico <--refines-- OperacionDurable -- MCOperacionDurable -- Operaciones /
                                  |                       OperacionesConflicto .cfg
                             OperacionDurable_proofs

    Diagrama --- DiagramaIntegro <--refines-- ModeloDiagrama
                      |                    |       |       |
       DiagramaIntegro_proofs  CaidaDiagrama  Eventos- Generacion-
                                           |  Diagrama  Backend --- ModeloDiagrama_proofs
                                           |       | `-----|-------'       |
                                           |       |       |       Pliegue, Recursion
                                            MCModeloDiagrama -- Modelo / ModeloHuerfana /
                                                                ModeloNulo .cfg

    ProyectoSerial <--refines, races apart-- GestionProyecto -- MCGestionProyecto --
                                                    |           Gestion /
                                        GestionProyecto_proofs  GestionUltimo .cfg

    InteraccionUnica <--refines-- AsistenteIA ---- MCAsistenteIA -- Asistente .cfg
                                     |                  |
                             AsistenteIA_proofs      ImagenIA --- PlanIA

### GestorSalas: the room of one diagram

One room is modelled: rooms of different diagrams share only a lock that is never
contended, since no critical section awaits. `fase[s]` says where the handler of
socket `s` is (`nueva`, `aceptada`, `uniendo`, `activa`, `saliendo`, `fin`).
`bucle` is the handler that has the event loop: a handler keeps it until it
suspends. Each critical section (`async with self._lock`) is one action that
leaves in `pendientes` the frames to be broadcast after it; `EmpezarDifusion`
copies the list of sockets, as `_broadcast_a_sala` does, and `EnviarFrame` is
one `send_text`. A send to a socket of `Lentos` gives the loop away, so others run
between two sends; a send to a peer that left is swallowed. `vista` and
`presentes` are what each client knows from the frames it got, with the last
frame winning; they stand for the web client, which is not in the repository.

`Bienvenida` is the send of `SALA_UNIDA`; `BienvenidaFalla` is that send raising,
outside the `try` whose `finally` cleans up. `Desconexion` and `FrameInvalido`
are the two ways into the `finally`.

### OperacionDurable: the facade, and ReciboUnico: what it promises

Each attempt is a thread with its own session: it is authorized, looks the
receipt up, prepares writes that nobody sees, commits, broadcasts and answers. The
actions are the points between which another thread may commit. The content of a
class is the action that wrote it last, so that `EfectosConRecibo` can ask for its
receipt. `Choca` is what the database refuses at the commit: the unique index on
`action_id`, the primary key of a class. `Modo` models `guardar` as it is, which
finds soft-deleted rows too. `Revocar` takes rights away at any time and `Caida`
kills the process. `CREAR_ESTRUCTURA_NM` differs from the others in its second
lookup of the receipt (`ReconsultarRecibo`).

`solapadas` is a history variable: the classes on which two requests overlapped,
where the code does not order the broadcasts and `VistaAlDia` promises nothing.

### Diagrama, DiagramaIntegro, ModeloDiagrama, CaidaDiagrama: the rows and the cascades

`Diagrama` has the rows of a diagram, the queries of the repositories, the rules
of `materializacion.py` and `Integro`, what it means that the rows fit.
`ModeloDiagrama` has one action per use case, and the cascades as operators that
call each other as `CascadasDiagramaService` does. The service marks a row, then
deletes what depends on it, then the row; nothing read in between tells a marked
row from a deleted one, so here a row is deleted when it is marked.
`cerrar_por_relacion` and `cerrar_por_estructura_nm` call one another:
`CerrarRelacionCon` and `CerrarNmCon` are their bodies, with the inner call as a
parameter, and `Cierre` ties the knot with a function that recurs on the number of
structures left, for each call closes one before it makes the next. An operation
is one transaction, hence one step. `RecrearAtributo` is `CREAR_ATRIBUTO` with
the id of an attribute that exists, which `guardar` overwrites; `ActualizarAtributo`
includes the `null` that the validation ignores and the entity turns into
`False`. `Foranea` may be unique, as the client asks. A relation is created with
at most one reference (the code takes a list); `CrearReferencia` adds others.
The REST routes of attributes and of references call the same use cases as the
facade but for one thing: they hand the cascade no repository of N:M structures,
so it closes a relation of a structure and leaves the structure
(`CerrarReferenciaCiega`, `CerrarAtributoCiego`; `EliminarAtributoApi` also
protects the keys that references use). `CiegasANm` says whether these routes are
used on the rows of a structure: with them integrity fails, which
`ModeloHuerfana` shows, and without them everything else is checked.
That a primary key is also declared unique by one of the two ways of creating a
class is left out: a key is referable anyway.

Ids are drawn by the clients, and the creations look few of them up. `CREAR_CLASE` of
the facade looks up the class and not its key
(`procesar_operacion_diagrama.py:172-198`), which the REST use case does;
`crear_estructura_relacion_nm.py` looks up the intermediate class (86) and none of the
seven other rows it saves through `guardar` (109-201); a deleted row is found by no
look-up. `guardar` writes over whatever row has the id, leaves it with the owner it
had (`Guardar`), and leaves it deleted if it was (`SinFila`). `Pisar` is the creations
under such ids: `PisarClase`, with the id of a deleted class, of a deleted key or of
any attribute for its key; `PisarRelacion`, whose reference has the id of a deleted
one, is checked as if it were there and is not; `PisarEstructuraNm`, with any of its
ids in use, by a row of the diagram or by another of the same request, or deleted.
Elsewhere an id freed by a deletion stands for the next one drawn.

What comes after such a request depends on what it wrote over: a structure may be
without a relation, a relation between other classes than its references, two
relations with one key. Two bounds keep this in hand: only one id of a request is not
new, and a diagram is followed up to the first such request (`pisado`). A row of
another diagram is to this one as a deleted row; what the other diagram loses is
left out. The unique index on the position of an attribute, which may make the
database refuse some of these, is left out too.

`DiagramaIntegro` says what each mutation owes to the rest: `Agregar` adds rows that
fit, `Reescribir` rewrites an attribute in its class, `Quitar` leaves nothing that
hung from what it took, and `Pisar`, which owes little, takes no row, no attribute
from its class and no reference from its relation. `CaidaDiagrama` says, without the
cascades, which rows a deletion ought to take: the closure (`Arrastra`) of "cannot
stand without" (`Caen`). A round that adds nothing is the last, so as many rounds as
there are rows are enough, and the closure needs no recursive operator.

### EventosDiagrama: what the clients are told

After its commit each route publishes the rows that its mutation created, changed
and deleted, and a client applies them to what it shows without reading the
diagram again. Each route lists those rows by hand, from what the use case
returned. `NextDifundido` takes each step of `ModeloDiagrama` together with the
lists of the route that does it: `api`, `operaciones` (the facade) or `ia` (the
executor). `alDia` says whether a client that was up to date before the step is so
after it. Broadcasts that meet are the matter of `OperacionDurable`. Of a creation under
an id that is not new nothing is said: no route projects a row it wrote over.

### GeneracionBackend: a diagram read while it changes

`ObtenerDiagramaCompleto` makes five queries, each of which sees what is
committed when it begins. `Lectura(antes, ahora, i)` is what it gets when one
mutation is committed after the `i`-th; `Generable` is the conversion, which drops
the attributes of classes it did not read, and the structures; `Valido`
is the validator and `Asociada`, `Portadora`, `Columnas` what the normalizer
makes of a relation. The property is an action property over every step of the
diagram, so the module adds no state.

### GestionProyecto: members, invitation and diagrams of one project

Each session serves one request after another: `Llega`; `Autoriza`, the checks of
the project, of the code of the invitation or of the diagram; `Lee`, what the use
case reads to decide and the entity it makes of it; `Guarda`, where `guardar` or
`eliminar` of the repository reads the row again; `Confirma`, where the changed
columns reach the database. Other sessions run between any two. These are the
points that matter at READ COMMITTED, and the second read is really a second one:
the session holds its rows weakly, and the mapper keeps none. `Mezcla` is what the
UPDATE of an ORM writes, the columns that differ from the row read second: hence a
`cambiar_rol` that meets a `remover` brings the member back, and one that meets a
`bloquear` undoes it. `Choca` is the unique constraint of the members, of the
invitations and of the numbers of live diagrams; an early flush of the row is seen
by nobody, so the conflict is judged at the commit. `Vence` may come at any time.
The touch of the activity date of the project writes a column nobody here reads.

Only the owner may ask for anything but to join, and he is never a member; the
requests refused for that reason do nothing and are left out. A user who joins
with a code that is no longer that of the row is refused like one whose invitation
expired, and codes and ids, drawn at random by the code, never repeat among
those still in use.

`ProyectoSerial` is the same project with requests attended alone. `rancia` is a
history variable: the sessions on whose rows somebody committed after they were
authorized. `EsSerialSinCarrera` says that only those may depart from
`ProyectoSerial`.

### AsistenteIA: the requests, and InteraccionUnica: what they promise

`pet[h]` is what a thread is doing: looking its key up, creating the interaction,
building the context, choosing a model, waiting for it, reading the answer,
executing the plan, closing. Texts have a thread each; recordings, pictures and
transcriptions are coroutines that never suspend, so the event loop has one at a
time (`BucleOcupado`). `Elegir` evaluates a breaker and `Contestar` records the
answer; between both other threads evaluate and record, and nothing guards the
breakers. `Enfriar` lets a cooldown pass.

Of the plan `AsistenteIA` keeps only what decides how the loop goes on: whether
the refusal of a step stops it. A step is a transaction of its own; a refusal does
not roll back, so what `CrearRelacion` saved before it refused stays in `sesion`
and goes with the next commit, that of the interaction at the latest. After the
commit of a step the executor reads its rows back, to tell the clients, in the same
`try`: `FallarTrasConfirmar` is a query that fails there, and reports as failed a
step that stays; `Fallar` is everything that fails before the commit or in it.
`FallarCierre` is the commit that closes failing inside the `try`; `PerderBase`, a
commit or query failing where nobody closes; `Caer`, the end of the process, which
loses sessions and breakers.

### PlanIA: a proposal, its plan, and its execution

The planner checks the actions a model proposes, drops the attributes that the
keys of relations will stand for, sorts the rest; the executor resolves names as
it goes, through a map of the names it has given, and calls the use cases. The
diagram is reduced to what both read of it: classes with names and attributes by
role, relations with the column of their key, structures. Somebody else may
delete a class between two steps (`ajena`). A refused relation that leaves rows
behind leaves them here too.

### ImagenIA: a picture imported, once and again

What the model recognised becomes a plan: which class is in the diagram already,
which one is but the intermediate class of an N:M relation (drawn with a name made
of those of the others, with keys to both, or between both), which side and which
column is the key of each relation, which attributes stand for themselves. The
executor is that of `PlanIA`. The same picture may then be imported again.

The form of a line is what was read at its ends, and `"1?"` and `"N?"` are those
whose destination is missing or is nothing `es_cardinalidad_muchos` knows (`1..1`,
`2..*`, `1..5`). Whether a relation is N:M and on which side its key is are settled
on that; the relation is then created with `normalizar_cardinalidad` of it
(`Normalizada`), which takes such a destination for many. At the origin the default
is one, before and after. Named bounds: a composition is drawn one to many, a
hierarchy with its usual ends.

## 3. The runs

| Run | Instance | Question |
|---|---|---|
| `SalasLentas` | 2 tabs of ana, 1 of bruno (slow), 1 class, TTL 1, clock 0..1 | locks, presence and rooms under every interleaving, broadcasts suspended half way |
| `SalasRapidas` | same sockets, none slow, 2 classes, clock 0..2 | clients show the locks of the room |
| `SalasVivas` | 1 tab each, both slow, fairness | departures are cleaned up, connections are settled |
| `SalasFantasma` | none slow | *violated*: a participant whose welcome failed stays for ever |
| `Operaciones` | 3 requests, 2 keys, 2 users, 1 class, 1 client, a crash at any time | receipts, effects, replays, views; refinement of `ReciboUnico` |
| `OperacionesConflicto` | the same | *violated*: a duplicate N:M creation gets a conflict though its content is the same |
| `Modelo` | 3 class ids, 3 relations, 4 references, 1 N:M structure, 1 manual attribute; beside the structure, loose relations N:1 only and 3 references | integrity, exact cascades, refinement of `DiagramaIntegro`, clients kept up to date, whole readings for the generator |
| `ModeloHuerfana` | the same, REST routes used on structures too | *violated*: a structure stays and points to a closed relation |
| `ModeloNulo` | that of `Modelo`, N:1 only | *violated*: `es_unico: null` changes a referenced attribute |
| `Gestion` | 2 sessions for ever, 1 user, 3 diagram ids, 3 codes, 2 roles, numbers up to 2 | numbers, uninvited members, serial unless overtaken |
| `GestionUltimo` | the same | *violated*: two deletions leave a project without diagrams |
| `Asistente` | 2 requests at a time, 1 key, 2 models, threshold 2, plans of up to 2 steps, crashes; beside them 7,020 proposals and 10,296 pictures | one execution per key, true reports, breakers, an answer for everybody; plans made whole; pictures imported once and again |

Why the bounds are enough. In the rooms two tabs of one user are what tells the
last tab from another, one slow socket is enough to suspend a broadcast at every
point, and one tick past the TTL is enough for a lock to expire before, between
and after any two frames; the second class of `SalasRapidas` adds departures that
release several locks. In the facade three requests allow a request, its
duplicate and a stranger; two keys allow the reuse of each. In the diagram the
structure takes an intermediate class, two relations and two references, and what
is loose is one relation and its references, which may join any classes, the
intermediate one among them, and use keys of its own, keys of the structure or the
attribute a user made; the structure in turn may refer to the key made for the
loose relation. While there is no structure every form of relation is asked for,
with up to two references each; while there is one, `FormasJuntoNm` and
`ReferenciasJuntoNm` keep the loose ones N:1 and with one reference, or the
diagrams would be too many. From each of these diagrams every creation under an id
that is not new is tried once. Two structures that meet do not fit in this instance.
Ids are drawn by the clients and stay with their row (the key of a class, the
attribute made for a reference) so as not to count the same diagram several times.
The two classes are interchangeable, each with its key, and the run uses that
symmetry.
In a project every anomaly is between two requests, which `Gestion` repeats for
ever, and on one row: two users would only interleave independently. Three codes
are one in use, one about to be saved and one more; three ids of diagrams allow
two to be deleted and one created, and numbers up to `MaxNumero` = 2 allow the
gap that a deletion leaves to be filled. A creation waits while the numbers or
ids run out. Sessions, diagrams and codes are interchangeable, so the run uses
symmetry; it checks no liveness. In the assistant two requests for one key meet at
every point, and requests without a key pass through the same breakers; a
threshold of 2 is that of the code, so a breaker opens, is probed, and a late
answer finds it in any state; a plan whose first step stops the rest and whose
second does not tells every way a plan may end. Proposals and pictures are
the lists of `MCAsistenteIA`: two or three classes and what joins them suffice for
a name to be mistaken for another and for a key to fall on either side; lists of
actions come in their order, reversed and rotated, and those of three operations
in every order. The three parts of `Asistente` share no state in the model, so
each moves only while the others rest: the run is their sum.

The clock, `MaxManuales`, `MaxNumero`, `FormasJuntoNm`, `ReferenciasJuntoNm` and
the sets of ids, requests, plans, proposals and pictures, and the end of a diagram
at `pisado`, are the only bounds; nothing else is cut.

`CHECK_DEADLOCK FALSE` is said of rooms, facade, diagram and project: sockets are
used once and requests of the facade end, so a system at rest stops; the diagram
stops where its ids run out; the sessions of `Gestion` stop only when every one of
them waits for a number. The assistant is always able to take a request, and its
run checks deadlock.

### What the properties say

- `NadieRoba`, `SoloSuelta`, `SoloEditores`: a live lock changes hands only
  through its owner or his departure, on connections that may edit.
- `DueniosConectados`, `SalaSiConexiones`, `PresenciaSinAusentes`: who left holds
  nothing, and is either not shown or about to be removed from the lists.
- `VistaCoherente`: with no suspended send. With a slow reader it does not hold:
  the `LIBERADO` of one handler, suspended, reaches a client after the `CONCEDIDO`
  of another handler that came later. This is why the run has no slow socket.
- `EfectosConRecibo`, `EscribeUnaVez`, `EsReciboUnico`: at most once, all or
  nothing, same answer.
- `VistaAlDia`: at rest every client shows what the database has, and a replay
  never takes it back.
- `Integridad`: nothing dangles, whatever the sequence of mutations, until a creation
  comes under an id that is in use or of a deleted row. Then it does: the code has
  no check against it.
- `EsDiagramaIntegro`: each operation, cascades included, adds what fits, rewrites in
  place or takes along what hung; those creations take nothing away and give no
  row to another owner.
- `CascadaExacta`: the cascade of each row equals the closure of "cannot stand
  without", no row more and no row less, and so do those of the REST routes of
  attributes and references wherever no structure has the relations they reach. The
  exception it makes is real: a key made for a relation and declared unique, to which
  another relation refers, survives its own relation and is not looked at again.
- `ClientesAlDia`: what a cascade took is in what the route published. `Atrasos`
  names the exceptions, by kind of request and table: references that go with an
  attribute and leave their relation standing are announced by nobody; the REST
  deletion of a reference announces neither the relation that goes with it nor the
  key its class loses; the assistant projects none of the classes that lose a key
  with what it deletes; `CREAR_ATRIBUTO` over an existing id
  does not tell of the class it takes the attribute from.
- `GeneracionEntera`: whatever is committed between two queries, a reading the
  validator lets through has every relation with the key that materializes it, in
  the class that gets the association. The order of the queries is what does it:
  keys are read before what uses them. A relation created during the reading is
  exempt, since it may be read without its references.
- `EsInteraccionUnica`, `AbiertaAtendida`: however many requests carry a key, its
  plan is executed once, and while it is open one request works on it. A request
  that died or lost the database is exempt (`cortadas`): its interaction stays
  open for ever, and that is what its key answers from then on.
- `InformeVeraz`: the steps reported as done are committed; those committed are
  reported as done or, if reading them back failed, as failed, never as refused or
  omitted; and a step is reported as omitted when one before it was fatal and not
  otherwise. A step reported as failed may thus be in the diagram.
- `CorteCoherente`: records in any order leave no closed breaker past its
  threshold.
- `EjecucionCompleta`, `NadaSePierde`, `SinDobles`: a plan that only creates is
  carried out whole in whatever order it came, no attribute is lost to a key that
  does not play its part, none is doubled by one that does. They are about `Sana`
  proposals, those that the planner and the executor read alike; see section 6.
- `CadaNombreSuClase`: whatever it renames, creates and deletes, a plan touches
  the classes its names denote, when no two were given one name (`SinHomonimos`).
- `ImagenCompleta`: a step of the importer's plan is refused exactly when its line
  lost the side of its key by the normalization of its cardinalities
  (`LadoPerdido`): an unread destination, and an attribute of the origin named for
  it.
- `NuevasCompletas`: a class the import makes, an intermediate one included, has
  every attribute that was recognised in it, but its key and what is named after a
  class it is joined to. The column taken for the key of a line that becomes many to
  many by normalization is exempt: the code loses it. Nothing is asked of the
  classes that were there before (section 6).
- `CadaClaseUnaVez`, `ColumnasUnicas`, `RepetirNoAnade`: every recognised class is
  there once, no column is doubled or shared, and a second import adds nothing. Of
  `Repetible` pictures for the second import, and of `ClavesPropias` for the
  columns; see section 6.
- `NumerosDistintos`: two creations read the same numbers and choose the same
  one; the index decides.
- `EntranInvitados`: the code is checked long before the member is saved, and
  still no interleaving lets in who was not invited.
- `EsSerialSinCarrera`: no anomaly without a race. It fails as soon as a use case
  forgets a check or counts a row it should not.

Every property of a passing run has a mutant in `PROJECT.json`: a slip of the
code, kept next to the definition it would replace, that breaks it.

### Fairness

`SpecJusta` of the rooms assumes strong fairness of what a handler does by itself
and of its noticing the disconnection. asyncio serves ready callbacks in order,
so a handler that is ready again and again runs; a send to a peer that does not
read ends when the keepalive of the server closes it; and the frames a peer left
behind are finitely many. `Spec` of the assistant assumes weak fairness of what
each request does by itself (`Avanza`): a thread that can go on does, and a call
to a model ends, if only by its timeout. Nothing is assumed of clients, of
failures, or of the cooldown of a breaker.

## 4. What the runs found

- **A participant nobody removes** (`SalasFantasma`). The welcome is sent outside
  the `try`; see `findings`.
- **A false conflict** (`OperacionesConflicto`). Two lookups of one receipt with
  two digests.
- **`null` bypasses a validation** (`ModeloNulo`). Also `CREAR_ATRIBUTO` over an
  existing id.
- **An orphan structure** (`ModeloHuerfana`). Two REST routes build the deletion
  of a reference or of an attribute without the repository of structures.
- **A project without diagrams** (`GestionUltimo`). The last diagram is protected
  by a count that another deletion makes stale.

Other behaviours met while modelling, kept as hazards and not as findings, are in
`PROJECT.json`: the orphan unique key, the silent creation over a soft-deleted id, the
rows a creation writes over, the step that failed after its commit, the key whose side
is lost when cardinalities are normalized, the order of broadcasts, the right to edit
read once per socket, a block undone by a change of role or by a second join, a
removed member brought back, an invitation renewed twice.

## 5. The proofs

All are checked by `tlapm` for every value of the constants, under the assumptions
the modules name.

- `GestorSalas_proofs` proves type correctness and six properties of the rooms
  from one inductive invariant: where a handler is determines whether its socket
  is in the room; a handler that is not at rest has its frames in `pendientes` or
  `actual`; whoever a client shows is connected or announced. The delicate part is
  presence: the destinations of a broadcast are copied, so a client that joins
  later is not told, and the invariant must say that it was welcomed with the list
  of those connected then. A second invariant, `VInv`, gives `VistaCoherente` to
  rooms without slow peers (`Lentos = {}`, a hypothesis of `VistaFiel`): at most the
  handler that has the loop has something to say, what its frames say of a lock is
  what the room says, and a client that believes otherwise is about to be told.
  Assumptions: `UsuarioDe` is a function into the
  users, `Lentos` are sockets, the TTL is positive, `Nulo` is none of them.
- `OperacionDurable_proofs` proves types, `EfectosConRecibo`, `EscribeUnaVez` and
  the refinement of `ReciboUnico`, from the invariant that an attempt past
  `Preparar` has writes and projection of its own request and that a receipt
  replayed is that of its key. `Choca` is what makes each step preserve it.
  `VistaAlDia` needs `VInv`: of a class where nobody overlapped there is one request
  in course, what it prepared still follows from the row it read, and a client that
  shows another thing is among the destinations of its broadcast.
- `DiagramaIntegro_proofs` proves that `Integro` is an invariant of the abstract
  diagram until `pisado`. The step that needs the whole of it is `Quitar`: a key
  spared because another reference touches it is saved because no reference *points
  to* such a key, so the other one uses it as its key too.
- `GestionProyecto_proofs` proves types, `EntranInvitados`, `NumerosDistintos` and
  `EsSerialSinCarrera`, the refinement of `ProyectoSerial` up to races. The first
  two need `Halladas`: rows are never lost, only marked, so what a session has
  found is still there. The last needs `Frescas`: what an authorized session read
  still holds unless it is `rancia`, which every commit must be shown to respect
  (`ConfirmaFresca`); then the row it merges over is the one it read, and `Mezcla`
  gives the entity back (`MezclaAlDia`). `SerialConserva` proves that
  `ProyectoSerial` never leaves a project without diagrams, so `GestionUltimo` is
  a race and nothing else. Assumptions: the roles given are roles, `MaxNumero` is
  positive, `Nulo` is no row and no request. `Frescas` was checked with TLC on the
  instance of `Gestion` before it was proved.
- `AsistenteIA_proofs` proves types, `AbiertaAtendida`, `CorteCoherente`,
  `InformeVeraz` and `EsInteraccionUnica`, the refinement of `InteraccionUnica`, for
  any number of requests, keys and models and any plans. `Basico` says that a request
  is in a place of its type, with a key where it needs one (`Puestos`), that no two
  work on one key (`Solos`, which the unique index gives) and that an open interaction
  is worked on (`Atendidas`). The refinement needs `Ordenado` besides: what a request
  has committed, then what its session holds, then the step it is at, in this order,
  for otherwise the leftover of a refused step might be committed after a later one.
  `InformeVeraz` needs `Veraz`: while a plan is executed its report already says what
  is committed, the session holds no whole step, and a plan goes on only if nothing in
  its report stops it (`SinFatales`). Of a step whose rows could not be read back the
  report says failed, and its commit is there: `Veraz` bounds what is committed from
  both sides. Assumptions: the threshold is positive, plans are sequences of steps,
  `Nulo` is none of the rest.

- `ModeloDiagrama_proofs` proves types, `Integridad` and `EsDiagramaIntegro`, the
  refinement of `DiagramaIntegro`, its `Pisar` included, for any number of rows and
  for structures that share classes, relations and keys as they please. What a cascade
  leaves in between is a piece of the diagram (`Restos`) that fits except for the
  materialization of the relations about to be closed (`IntegroSalvo`); `Recortar`
  says what a piece needs to fit, and each step is shown to give it. The invariant
  adds two facts that `Integro` does not contain: no relation is of two structures
  (`RelPropias`), for a structure closes its two relations without asking, and the
  only primary keys are those a class is born with (`LlaveDeClase`): to update an
  attribute made by hand is to rewrite it in its class, and a foreign key is never one
  that the cascades spare for being primary. TLC checked both on the instance of
  `Modelo`, and the first on one of two structures that meet, before they were proved.
  Hypothesis of the three: `CiegasANm = FALSE`; with it true `ModeloHuerfana` refutes
  them. Assumptions (`IdsAssumption`): the ids are finitely many, of any number, each
  is of one row, `Nulo` is none of them.
- `GeneracionFiel`, in the same module and under the same hypothesis, proves
  `GeneracionEntera` for any mutation between any two of the five queries. It rests
  on `Comparten`: what two consecutive diagrams have in common is the same row (but
  for an attribute rewritten in its class), and a structure only the second has came
  with an intermediate class, which a reading of the classes made before does not
  have, so that the conversion drops it. What is read of a relation that is in both
  is then read of one of two whole diagrams (`Leido`).
- `AlDiaSiempre`, again there and under the same hypothesis, proves `ClientesAlDia`
  of `SpecDifundida` for every operation, route and cascade. A creation or a
  rewriting needs only that the route names the classes of the attributes and the
  relations of the references that changed (`AlDiaCrece`, `AlDiaReescribir`). A
  deletion needs two facts of its cascade (`AlDiaQueda`): the classes that lost an
  attribute are among those the service calls modified, and no reference of a
  relation that stays was taken (`RefsSiguen`). The second is a conclusion of each
  lemma about the cascades of classes, relations and structures; it is false of those
  of attributes and references, which is why `Atrasos` exempts `referencias` there.
- `Exacta`, the last of that module and under the same hypothesis, proves
  `CascadaExacta`: for any diagram the operations reach before a creation under an id
  that is not new, what the mutually recursive
  cascades take from it, in whatever order they visit the rows, is the closure of the
  deleted row. *No more*: each cascade is shown to take only rows of every set that
  is closed and has the row it began with (`Toma`), a conclusion carried through
  every loop and through the recursion on the structures left. *No less*: what a
  cascade took is closed (`PerdidoCerrado`), for what is left is whole and no key is
  left that only the references taken used, except the ones declared unique.
  That the closure is reached in as many rounds as there are rows is `ArrastraBien`:
  a round that adds something adds a row (`CuantasBien`), and the rounds are a
  function that exists by `Recursion`. It is here that the ids of classes and
  attributes have to be finitely many: else there is no number of rounds.
- Two modules, tools of these proofs and no statements about the system, stand for
  the inductions that the library states over an operator,
  which no installed prover can instantiate. `Pliegue` takes the body of a loop as a
  constant operator and proves that a fold over a finite set keeps an invariant
  indexed by the elements done; `Recursion` proves that a function defined by
  recursion on the naturals exists. `ModeloDiagrama_proofs` instantiates `Pliegue`
  once for each loop of the cascades.

Only model-checked:

- What is stated of plans and pictures (`EjecucionCompleta`, `NadaSePierde`,
  `SinDobles`, `CadaNombreSuClase`; `ImagenCompleta`, `CadaClaseUnaVez`,
  `NuevasCompletas`, `ColumnasUnicas`, `RepetirNoAnade`). They relate the result
  of planner, executor and importer to their input, and each of these goes through
  lists in order, with what it has kept so far: filters, folds and flattenings of
  sequences, in `PlanIA` a recursive operator too. What such a computation gives for
  every list is an induction over data, which no installed prover can
  instantiate. `Pliegue` is no way round: it is about folds over sets, whose
  elements come in no order, and here the order decides (which of two classes takes
  a name, which step finds its class made). The properties of a plan's life, which do
  not depend on what is in it, are proved in `AsistenteIA_proofs`.
- Liveness, which is out of reach of the prover, as is ENABLED.

## 6. Divergences

Where the parts disagree with each other or with what one would expect. No
statement of the repository is refuted by most of them, so they are not findings;
the properties exempt them by name, and the models do what the code does.

The planner of texts and the executor (`Sana`):

- On a hierarchy the planner looks for the key in the destination, and the executor
  puts it in the origin: an attribute may be dropped on one side and doubled on the
  other.
- An N:N relation gets no key, and still an attribute named like one is dropped.
- A structure over the intermediate class of another one that comes later is
  accepted by the planner and refused by the executor.
- Attributes proposed for the class called "intermedia", and attributes
  of the diagram whose name is like that of a key but not the one chosen, are not
  reconciled: the key is added beside them.
- "delete X and create X" deletes the X just created, which by then bears the name
  (`SinHomonimos`).
- A relation that is refused because an existing attribute has the wrong type
  leaves the rows it saved before in the session, and the next commit writes them.

The importer of pictures (`Repetible`, `ClavesPropias`):

- Rule 1 of the docstring (`planificador_importacion_imagen.py:46-47`) forbids to add
  attributes silently to a class that exists; its fourth step adds those recognised in
  the picture that the class lacks, and a test of the repository asks for it
  (`test_planificador_importacion_imagen.py:169`). Each is a step of the interaction,
  so whether this is silent is open to argument; no property asks for either.
- A destination that is missing or not understood is not many when the side of a key
  is chosen and is many when the relation is created: with an attribute of the
  origin named as its key a one to one relation is refused, and one with many at the
  origin is created many to many and its column lost.
- Columns taken for keys the first time are added as attributes of their own
  the second, when their relation exists and is skipped. Attributes of a recognised
  class that became an intermediate class of another name are added again.
- An intermediate class recognised only by its shape is not compared with
  the structures of the diagram, and is made again; so is a relation one end of
  which is in the diagram and not in the picture.
- The only column marked as a key is taken for that of every relation of its class
  that has none of its own, so one column may be the key to two classes.
- A column that looks like a key to the other class, in the class that does not
  carry it, is dropped.

The assistant: a request that dies leaves its interaction `PROCESANDO`, and nothing
ever closes it; a repeated text is compared by its content and a repeated recording
or picture only by its type. The listing of interactions pages by an offset.

The generation: a relation created while the diagram is read is generated without
its references; a hierarchy whose cardinalities are not the usual ones may get its
association on the side without the column, which is then invented; cardinalities
such as `2..*` or `1..5` are "many" for the materialization and give no association
in the normalizer; of several references the first is taken for the column, even
if it is held by the other side.

## 7. Not modelled, and the plan

Left out on purpose:

- **Connector geometry**: which handle a line leaves from decides only how it is
  drawn. The refusal of a handle that is taken, and of two relations that take it
  at once, would need the order and the sides of every line of a class.
- **Enterprise Architect exchange**: parser and serializer are text processing. The
  import is one transaction that begins by reading the diagram; its reconciliation
  by name resembles that of `ImagenIA` and would repeat it.
- **Layout of imported classes** (`servicio_layout_importacion.py`): positions only.
- **Context and prompts of the assistant**, parsing of the answers: text.
- **Templates, zip and record of a generation**: what is rendered is a function of
  the normalized model.
- **Slugs, renaming and favourites of projects**; authentication, configuration;
  listings; colours, names, positions and formats; the sending from a foreign
  event loop of the notifier's fallback.

What has been built and what a later extension would add:

1. *(done)* rooms; facade; diagram and cascades; collaborators, invitations,
   diagrams of a project.
2. The rest of the projects: unique slug, renaming; the rights of the members
   as the facade and the sockets read them.
3. *(partly)* what the routes of a diagram publish, and the routes that
   delete without structures; still to come, concurrent use cases on one diagram:
   connectors taken twice, a relation on a class being deleted, the order of
   attributes and its unique index.
4. *(done)* assistant: breakers, life of an interaction, plans, pictures.
5. *(partly)* the generation of a backend; still to come, the EA import.

Theorems to add: the uniqueness of slugs; that of a diagram that fits, when nothing
changes during the reading, `Valido` only asks for a class and for the keys.
