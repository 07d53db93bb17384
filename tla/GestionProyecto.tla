---------------------------- MODULE GestionProyecto ----------------------------
(***************************************************************************)
(* One project administered over REST by several requests at once: its     *)
(* members, its invitation and its diagrams.                               *)
(* Source: the use cases of gestion_colaboradores and of diagramas/        *)
(* use_cases/diagrama, eliminar_proyecto.py, and their repositories.       *)
(*                                                                         *)
(* Every use case is a transaction of its own session at READ COMMITTED:   *)
(* it checks the project, reads what it decides upon into an entity, reads *)
(* the row again to write the entity over it, and commits.  Between any    *)
(* two of these the other sessions run.  What reaches the database at the  *)
(* commit are the columns that differ from the row as read for writing; a  *)
(* row that breaks a unique constraint makes the whole transaction fail.   *)
(*                                                                         *)
(* The owner is not a member and is the only one who may ask for anything  *)
(* but to join, so requests of others, refused at once, are left out.      *)
(***************************************************************************)
EXTENDS Integers, FiniteSets

CONSTANTS
    Usuarios,      \* who may become a member
    Diagramas,     \* ids of diagrams
    Codigos,       \* access codes
    Sesiones,      \* requests served at the same time
    RolesPedidos,  \* roles the owner gives
    MaxNumero,     \* bound on the number of a diagram
    Nulo

Roles   == {"ver", "editor", "comentarista"}
Estados == {"activo", "bloqueado"}

VARIABLES
    proyecto,      \* whether the project has not been deleted
    miembros,      \* by user, the row of colaboradores_proyecto, if any
    invitacion,    \* the row of invitaciones, if any
    diagramas,     \* the numbers of the diagrams that are not deleted
    peticion,      \* what each session is serving
    paso,          \* how far it has come
    entidad,       \* what it is going to save
    base,          \* the row it writes the entity over
    rancia         \* whether others committed on what it has read

tablas == <<proyecto, miembros, invitacion, diagramas>>
vars   == <<proyecto, miembros, invitacion, diagramas, peticion, paso, entidad, base, rancia>>

Fila       == [rol : Roles, estado : Estados, vivo : BOOLEAN]
Invitacion == [codigo : Codigos, vencida : BOOLEAN]
Numeros    == 1..MaxNumero

DeMiembro  == {"unirse", "rol", "bloquear", "desbloquear", "remover"}
Peticiones ==
    [op : DeMiembro \ {"rol"}, usuario : Usuarios]
        \cup [op : {"rol"}, usuario : Usuarios, rol : RolesPedidos]
        \cup [op : {"eliminar_diagrama"}, diagrama : Diagramas]
        \cup [op : {"invitar", "crear_diagrama", "eliminar_proyecto"}]

ASSUME GestionAssumption ==
    /\ RolesPedidos \subseteq Roles /\ MaxNumero \in Nat \ {0}
    /\ Nulo \notin Fila \cup Invitacion /\ Nulo \notin Peticiones

\* A project is born with its first diagram and nobody in it.
Init ==
    /\ proyecto = TRUE
    /\ miembros = [u \in Usuarios |-> Nulo]
    /\ invitacion = Nulo
    /\ \E d \in Diagramas : diagramas = [x \in {d} |-> 1]
    /\ peticion = [s \in Sesiones |-> Nulo]
    /\ paso = [s \in Sesiones |-> "libre"]
    /\ entidad = [s \in Sesiones |-> Nulo]
    /\ base = [s \in Sesiones |-> Nulo]
    /\ rancia = [s \in Sesiones |-> FALSE]

(***************************************************************************)
(* Repositories.                                                           *)
(***************************************************************************)
\* Slip: rows already deleted count.
ContandoBajas(u) == miembros[u] # Nulo

EsMiembro(u) == miembros[u] # Nulo /\ miembros[u].vivo

\* Diagrama.obtener_siguiente_numero
EsSiguiente(n, ocupados) == n \notin ocupados /\ \A m \in 1..(n - 1) : m \in ocupados

Ocupados == {diagramas[d] : d \in DOMAIN diagramas}

\* An UPDATE writes the columns in which the entity differs from the row
\* it was written over.
Mezcla(quiere, antes, fila) ==
    LET Columna(nuevo, leido, actual) == IF nuevo # leido THEN nuevo ELSE actual
    IN [rol    |-> Columna(quiere.rol, antes.rol, fila.rol),
        estado |-> Columna(quiere.estado, antes.estado, fila.estado),
        vivo   |-> Columna(quiere.vivo, antes.vivo, fila.vivo)]

(***************************************************************************)
(* Steps of a session.                                                     *)
(***************************************************************************)
Pasa(s, p) == paso' = [paso EXCEPT ![s] = p]

Libera(s) ==
    /\ peticion' = [peticion EXCEPT ![s] = Nulo]
    /\ paso' = [paso EXCEPT ![s] = "libre"]
    /\ entidad' = [entidad EXCEPT ![s] = Nulo]
    /\ base' = [base EXCEPT ![s] = Nulo]
    /\ rancia' = [rancia EXCEPT ![s] = FALSE]

Llega(s) ==
    /\ paso[s] = "libre"
    /\ \E q \in Peticiones : peticion' = [peticion EXCEPT ![s] = q]
    /\ Pasa(s, "autorizar")
    /\ UNCHANGED <<tablas, entidad, base, rancia>>

\* Slip: nobody looks at the invitation.
SinMirarCodigo(q) ==
    /\ proyecto
    /\ q.op = "eliminar_diagrama" => q.diagrama \in DOMAIN diagramas

\* The code of the invitation, the project, the diagram.
Autorizada(q) ==
    /\ proyecto
    /\ q.op = "unirse" => invitacion # Nulo /\ ~invitacion.vencida
    /\ q.op = "eliminar_diagrama" => q.diagrama \in DOMAIN diagramas

Autoriza(s) ==
    /\ paso[s] = "autorizar"
    /\ IF Autorizada(peticion[s])
       THEN Pasa(s, "leer") /\ UNCHANGED <<peticion, entidad, base, rancia>>
       ELSE Libera(s)
    /\ UNCHANGED tablas

\* What the use case makes of what it reads, or Nulo if it writes nothing.
\* Slip: the role that the answer to an owner carries.
ComoPropietario == [rol |-> "propietario", estado |-> "activo", vivo |-> TRUE]

NuevoMiembro == [rol |-> "ver", estado |-> "activo", vivo |-> TRUE]

Cambiada(q, fila) ==
    IF q.op = "rol" THEN [fila EXCEPT !.rol = q.rol]
    ELSE IF q.op = "bloquear" THEN [fila EXCEPT !.estado = "bloqueado"]
    ELSE IF q.op = "desbloquear" THEN [fila EXCEPT !.estado = "activo"]
    ELSE fila

Miembro(q) ==
    IF q.op = "unirse"
    THEN IF EsMiembro(q.usuario) THEN Nulo ELSE NuevoMiembro
    ELSE IF EsMiembro(q.usuario) THEN Cambiada(q, miembros[q.usuario]) ELSE Nulo

Sigue(s, e) ==
    /\ entidad' = [entidad EXCEPT ![s] = e]
    /\ Pasa(s, "guardar")
    /\ UNCHANGED <<peticion, base, rancia>>

\* A code nobody was given: not that of the row nor one about to be saved.
EnVuelo == {entidad[s].codigo : s \in {t \in Sesiones :
              paso[t] \in {"guardar", "confirmar"} /\ peticion[t].op = "invitar"}}
CodigoNuevo(c) == c \notin EnVuelo /\ (invitacion # Nulo => c # invitacion.codigo)

Lee(s) ==
    /\ paso[s] = "leer"
    /\ LET q == peticion[s]
       IN \/ q.op \in DeMiembro /\ Miembro(q) = Nulo /\ Libera(s)
          \/ q.op \in DeMiembro /\ Miembro(q) # Nulo /\ Sigue(s, Miembro(q))
          \/ q.op = "invitar" /\ invitacion # Nulo /\ ~invitacion.vencida /\ Libera(s)
          \/ /\ q.op = "invitar" /\ (invitacion # Nulo => invitacion.vencida)
             /\ \E c \in Codigos : CodigoNuevo(c) /\ Sigue(s, [codigo |-> c, vencida |-> FALSE])
          \/ /\ q.op = "crear_diagrama"
             /\ \E n \in Numeros : EsSiguiente(n, Ocupados) /\ Sigue(s, n)
          \/ q.op = "eliminar_diagrama" /\ Cardinality(DOMAIN diagramas) <= 1 /\ Libera(s)
          \/ q.op = "eliminar_diagrama" /\ Cardinality(DOMAIN diagramas) > 1 /\ Sigue(s, Nulo)
          \/ q.op = "eliminar_proyecto" /\ Sigue(s, Nulo)
    /\ UNCHANGED tablas

\* guardar and eliminar read the row again, deleted or not.
Guarda(s) ==
    /\ paso[s] = "guardar"
    /\ LET q == peticion[s]
       IN base' = [base EXCEPT ![s] =
            IF q.op \in DeMiembro THEN miembros[q.usuario]
            ELSE IF q.op = "invitar" THEN invitacion ELSE Nulo]
    /\ Pasa(s, "confirmar")
    /\ UNCHANGED <<tablas, peticion, entidad, rancia>>

\* Slip: no index on the numbers.
SinIndice(s) ==
    LET q == peticion[s]
    IN \/ q.op \in DeMiembro /\ base[s] = Nulo /\ miembros[q.usuario] # Nulo
       \/ q.op = "invitar" /\ base[s] = Nulo /\ invitacion # Nulo

\* A unique constraint refuses the row: that of the members, that of the
\* invitations or that of the numbers of the live diagrams.
Choca(s) ==
    LET q == peticion[s]
    IN \/ q.op \in DeMiembro /\ base[s] = Nulo /\ miembros[q.usuario] # Nulo
       \/ q.op = "invitar" /\ base[s] = Nulo /\ invitacion # Nulo
       \/ q.op = "crear_diagrama" /\ entidad[s] \in Ocupados

Nombrados == {peticion[s].diagrama : s \in {t \in Sesiones :
                paso[t] # "libre" /\ peticion[t].op = "eliminar_diagrama"}}

EscribeMiembro(s) ==
    LET q == peticion[s]
        antes == base[s]
        quiere == IF q.op = "remover" THEN [antes EXCEPT !.vivo = FALSE] ELSE entidad[s]
        fila == IF antes = Nulo THEN quiere ELSE Mezcla(quiere, antes, miembros[q.usuario])
    IN /\ miembros' = [miembros EXCEPT ![q.usuario] = fila]
       /\ UNCHANGED <<proyecto, invitacion, diagramas>>

EscribeInvitacion(s) ==
    invitacion' = entidad[s] /\ UNCHANGED <<proyecto, miembros, diagramas>>

EscribeDiagrama(s) ==
    /\ \E d \in Diagramas \ (DOMAIN diagramas \cup Nombrados) :
         diagramas' = [x \in DOMAIN diagramas \cup {d} |->
                         IF x = d THEN entidad[s] ELSE diagramas[x]]
    /\ UNCHANGED <<proyecto, miembros, invitacion>>

BorraDiagrama(s) ==
    /\ diagramas' = [x \in DOMAIN diagramas \ {peticion[s].diagrama} |-> diagramas[x]]
    /\ UNCHANGED <<proyecto, miembros, invitacion>>

BorraProyecto(s) == proyecto' = FALSE /\ UNCHANGED <<miembros, invitacion, diagramas>>

Escribe(s) ==
    LET op == peticion[s].op
    IN \/ op \in DeMiembro /\ EscribeMiembro(s)
       \/ op = "invitar" /\ EscribeInvitacion(s)
       \/ op = "crear_diagrama" /\ EscribeDiagrama(s)
       \/ op = "eliminar_diagrama" /\ BorraDiagrama(s)
       \/ op = "eliminar_proyecto" /\ BorraProyecto(s)

\* Requests that read what the other writes.
DeDiagrama == {"crear_diagrama", "eliminar_diagrama"}
SobreLoMismo(q, r) ==
    \/ q.op = "eliminar_proyecto"
    \/ q.op \in DeMiembro /\ r.op \in DeMiembro /\ q.usuario = r.usuario
    \/ q.op = "invitar" /\ r.op = "invitar"
    \/ q.op \in DeDiagrama /\ r.op \in DeDiagrama
HaLeido(t) == paso[t] \in {"leer", "guardar", "confirmar"}

Confirma(s) ==
    /\ paso[s] = "confirmar"
    /\ IF Choca(s) THEN UNCHANGED tablas ELSE Escribe(s)
    /\ peticion' = [peticion EXCEPT ![s] = Nulo]
    /\ paso' = [paso EXCEPT ![s] = "libre"]
    /\ entidad' = [entidad EXCEPT ![s] = Nulo]
    /\ base' = [base EXCEPT ![s] = Nulo]
    /\ rancia' = [t \in Sesiones |->
         /\ t # s
         /\ rancia[t] \/ (~Choca(s) /\ HaLeido(t) /\ SobreLoMismo(peticion[s], peticion[t]))]

\* Time passes, and who was told the invitation was good is late.
Vence ==
    /\ invitacion # Nulo /\ ~invitacion.vencida
    /\ invitacion' = [invitacion EXCEPT !.vencida = TRUE]
    /\ rancia' = [t \in Sesiones |->
         rancia[t] \/ (HaLeido(t) /\ peticion[t].op = "unirse")]
    /\ UNCHANGED <<proyecto, miembros, diagramas, peticion, paso, entidad, base>>

Next ==
    \/ \E s \in Sesiones : Llega(s) \/ Autoriza(s) \/ Lee(s) \/ Guarda(s) \/ Confirma(s)
    \/ Vence

Spec == Init /\ [][Next]_vars

(***************************************************************************)
(* What the use cases promise.                                             *)
(***************************************************************************)
Pasos == {"libre", "autorizar", "leer", "guardar", "confirmar"}

\* The rows a request writes over, and what it writes over them.
Filas(q) ==
    IF q.op \in DeMiembro THEN Fila ELSE IF q.op = "invitar" THEN Invitacion ELSE {}
Entidades(q) ==
    IF q.op = "crear_diagrama" THEN Numeros
    ELSE IF q.op \in {"eliminar_diagrama", "eliminar_proyecto"} THEN {Nulo}
    ELSE IF q.op = "invitar" THEN [codigo : Codigos, vencida : {FALSE}]
    ELSE Filas(q)

TypeOK ==
    /\ proyecto \in BOOLEAN
    /\ miembros \in [Usuarios -> Fila \cup {Nulo}]
    /\ invitacion \in Invitacion \cup {Nulo}
    /\ DOMAIN diagramas \subseteq Diagramas
    /\ \A d \in DOMAIN diagramas : diagramas[d] \in Numeros
    /\ paso \in [Sesiones -> Pasos]
    /\ peticion \in [Sesiones -> Peticiones \cup {Nulo}]
    /\ rancia \in [Sesiones -> BOOLEAN]
    /\ DOMAIN entidad = Sesiones /\ DOMAIN base = Sesiones
    /\ \A s \in Sesiones :
         /\ paso[s] = "libre" <=> peticion[s] = Nulo
         /\ paso[s] \in {"guardar", "confirmar"} => entidad[s] \in Entidades(peticion[s])
         /\ paso[s] = "confirmar" => base[s] \in Filas(peticion[s]) \cup {Nulo}

\* Two diagrams of a project never have the same number, however many are
\* created at once with the one that obtener_siguiente_numero gave to all.
NumerosDistintos ==
    \A d, e \in DOMAIN diagramas : diagramas[d] = diagramas[e] => d = e

\* Nobody is a member of a project that invited nobody: no interleaving of
\* the checks of unirse_con_invitacion.py lets in who was not invited.
EntranInvitados == \A u \in Usuarios : miembros[u] # Nulo => invitacion # Nulo

\* A request whose rows nobody else committed upon since it was authorized
\* does what it would have done alone, in one step, when it commits.
Serial == INSTANCE ProyectoSerial
ConfirmaTarde == \E s \in Sesiones : rancia[s] /\ Confirma(s)
EsSerialSinCarrera == [][ConfirmaTarde \/ [Serial!Next]_tablas]_vars

\* exceptions.py:30 of diagramas: "El proyecto debe conservar al menos un
\* diagrama."
ConservaUnDiagrama == proyecto => DOMAIN diagramas # {}
===============================================================================
