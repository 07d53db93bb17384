------------------------- MODULE GestionProyecto_proofs -------------------------
(***************************************************************************)
(* Proofs about GestionProyecto, for any number of sessions, members,      *)
(* diagrams and codes.                                                     *)
(***************************************************************************)
EXTENDS GestionProyecto, FiniteSetTheorems, TLAPS

Leida(s) == paso[s] \in {"guardar", "confirmar"}

(***************************************************************************)
(* Rows are never lost: what a session has found is still there.           *)
(***************************************************************************)
Hallada(s) ==
    LET q == peticion[s]
    IN /\ q.op = "unirse" /\ HaLeido(s) => invitacion # Nulo
       /\ q.op \in DeMiembro \ {"unirse"} /\ Leida(s) => miembros[q.usuario] # Nulo
       /\ q.op \in DeMiembro \ {"unirse"} /\ paso[s] = "confirmar" => base[s] # Nulo
       /\ q.op = "unirse" /\ paso[s] = "confirmar" /\ base[s] # Nulo
            => miembros[q.usuario] # Nulo
Halladas == \A s \in Sesiones : Hallada(s)

Basico == TypeOK /\ Halladas /\ EntranInvitados

USE GestionAssumption

LEMMA Pedida ==
    ASSUME NEW q \in Peticiones, q.op \in DeMiembro
    PROVE  q.usuario \in Usuarios /\ (q.op = "rol" => q.rol \in Roles)
  BY DEF Peticiones, DeMiembro

LEMMA MiembroFila ==
    ASSUME TypeOK, NEW q \in Peticiones, q.op \in DeMiembro, Miembro(q) # Nulo
    PROVE  /\ Miembro(q) \in Fila
           /\ q.op # "unirse" => miembros[q.usuario] \in Fila
           /\ q.op # "remover" => Miembro(q).vivo
<1> DEFINE u == q.usuario
<1>1. u \in Usuarios /\ (q.op = "rol" => q.rol \in Roles)
  BY Pedida
<1>2. miembros[u] \in Fila \cup {Nulo}
  BY <1>1 DEF TypeOK
<1>3. CASE q.op = "unirse"
  BY <1>3 DEF Miembro, NuevoMiembro, Fila, Roles, Estados
<1>4. CASE q.op # "unirse"
  <2>1. EsMiembro(u) /\ miembros[u] \in Fila
    BY <1>4, <1>2 DEF Miembro, EsMiembro
  <2>2. CASE q.op = "rol"
    BY <2>1, <2>2, <1>1 DEF Miembro, Cambiada, EsMiembro, Fila
  <2>3. CASE q.op = "bloquear"
    BY <2>1, <2>3, <1>1 DEF Miembro, Cambiada, EsMiembro, Fila, Estados
  <2>4. CASE q.op = "desbloquear"
    BY <2>1, <2>4, <1>1 DEF Miembro, Cambiada, EsMiembro, Fila, Estados
  <2>5. CASE q.op = "remover"
    BY <2>1, <2>5, <1>1 DEF Miembro, Cambiada, EsMiembro, Fila
  <2> QED BY <1>4, <2>1, <2>2, <2>3, <2>4, <2>5 DEF DeMiembro
<1> QED BY <1>3, <1>4

LEMMA MezclaFila ==
    ASSUME NEW a \in Fila, NEW b \in Fila, NEW c \in Fila
    PROVE  Mezcla(a, b, c) \in Fila
  BY DEF Mezcla, Fila

LEMMA Inicio == Init => Basico
  BY DEF Init, Basico, TypeOK, Halladas, Hallada, EntranInvitados, HaLeido, Leida, Pasos, Numeros

(***************************************************************************)
(* One lemma for each kind of step.                                        *)
(***************************************************************************)
LEMMA LiberaTipos ==
    ASSUME TypeOK, Halladas, NEW s \in Sesiones, Libera(s), UNCHANGED tablas
    PROVE  TypeOK' /\ Halladas'
<1>1. TypeOK'
  BY DEF TypeOK, Libera, tablas, Pasos, Entidades, Filas, Numeros
<1>2. Halladas'
  BY DEF Halladas, Hallada, Libera, tablas, TypeOK, HaLeido, Leida
<1> QED BY <1>1, <1>2

LEMMA LlegaBasico ==
    ASSUME Basico, NEW s \in Sesiones, Llega(s)
    PROVE  Basico'
<1>1. TypeOK'
  <2>1. /\ UNCHANGED <<tablas, entidad, base, rancia>>
        /\ paso' \in [Sesiones -> Pasos] /\ paso'[s] = "autorizar"
        /\ peticion' \in [Sesiones -> Peticiones \cup {Nulo}] /\ peticion'[s] # Nulo
        /\ \A t \in Sesiones \ {s} : paso'[t] = paso[t] /\ peticion'[t] = peticion[t]
    BY DEF Basico, TypeOK, Llega, Pasa, Pasos
  <2> QED BY <2>1 DEF Basico, TypeOK, tablas, Entidades, Filas, Numeros
<1>2. Halladas'
  BY DEF Basico, Halladas, Hallada, Llega, Pasa, tablas, TypeOK, HaLeido, Leida
<1>3. EntranInvitados'
  BY DEF Basico, EntranInvitados, Llega, tablas
<1> QED BY <1>1, <1>2, <1>3 DEF Basico

LEMMA AutorizaBasico ==
    ASSUME Basico, NEW s \in Sesiones, Autoriza(s)
    PROVE  Basico'
<1>1. CASE ~Autorizada(peticion[s])
  BY <1>1, LiberaTipos DEF Basico, Autoriza, EntranInvitados, tablas
<1>2. CASE Autorizada(peticion[s])
  <2>1. TypeOK'
    BY <1>2 DEF Basico, TypeOK, Autoriza, Pasa, tablas, Pasos, Entidades, Filas, Numeros
  <2>2. Halladas'
    BY <1>2 DEF Basico, Halladas, Hallada, Autoriza, Autorizada, Pasa, tablas, TypeOK, HaLeido, Leida
  <2>3. EntranInvitados'
    BY DEF Basico, EntranInvitados, Autoriza, tablas
  <2> QED BY <2>1, <2>2, <2>3 DEF Basico
<1> QED BY <1>1, <1>2

LEMMA SigueBasico ==
    ASSUME Basico, NEW s \in Sesiones, paso[s] = "leer", NEW e \in Entidades(peticion[s]),
           Sigue(s, e), UNCHANGED tablas,
           peticion[s].op \in DeMiembro \ {"unirse"} => miembros[peticion[s].usuario] # Nulo
    PROVE  Basico'
<1>1. TypeOK'
  BY DEF Basico, TypeOK, Sigue, Pasa, tablas, Pasos, Entidades, Filas, Numeros
<1>2. Halladas'
  BY DEF Basico, Halladas, Hallada, Sigue, Pasa, tablas, TypeOK, HaLeido, Leida
<1>3. EntranInvitados'
  BY DEF Basico, EntranInvitados, tablas
<1> QED BY <1>1, <1>2, <1>3 DEF Basico

LEMMA LeeBasico ==
    ASSUME Basico, NEW s \in Sesiones, Lee(s)
    PROVE  Basico'
<1> DEFINE q == peticion[s]
<1>0. q \in Peticiones /\ paso[s] = "leer" /\ UNCHANGED tablas
  BY DEF Basico, TypeOK, Lee
<1>1. CASE Libera(s)
  BY <1>0, <1>1, LiberaTipos DEF Basico, EntranInvitados, tablas
<1>2. CASE q.op \in DeMiembro /\ Miembro(q) # Nulo /\ Sigue(s, Miembro(q))
  <2>1. Miembro(q) \in Fila /\ (q.op # "unirse" => miembros[q.usuario] \in Fila)
    BY <1>0, <1>2, MiembroFila DEF Basico
  <2>2. Miembro(q) \in Entidades(q)
    BY <1>2, <2>1 DEF Entidades, Filas, DeMiembro
  <2> QED BY <1>0, <1>2, <2>1, <2>2, SigueBasico
<1>3. ASSUME NEW c \in Codigos, q.op = "invitar", Sigue(s, [codigo |-> c, vencida |-> FALSE])
      PROVE  Basico'
  <2>1. [codigo |-> c, vencida |-> FALSE] \in Entidades(q)
    BY <1>3 DEF Entidades, Filas, DeMiembro, Invitacion
  <2> QED BY <1>0, <1>3, <2>1, SigueBasico DEF DeMiembro
<1>4. ASSUME NEW n \in Numeros, q.op = "crear_diagrama", Sigue(s, n)
      PROVE  Basico'
  BY <1>0, <1>4, SigueBasico DEF DeMiembro, Entidades
<1>5. CASE q.op \in {"eliminar_diagrama", "eliminar_proyecto"} /\ Sigue(s, Nulo)
  BY <1>0, <1>5, SigueBasico DEF DeMiembro, Entidades
<1> QED BY <1>1, <1>2, <1>3, <1>4, <1>5 DEF Lee

LEMMA GuardaBasico ==
    ASSUME Basico, NEW s \in Sesiones, Guarda(s)
    PROVE  Basico'
<1> DEFINE q == peticion[s]
<1>0. q \in Peticiones
  BY DEF Basico, TypeOK, Guarda
<1>1. base'[s] \in Filas(q) \cup {Nulo}
  BY <1>0, Pedida DEF Basico, TypeOK, Guarda, Filas, DeMiembro
<1>2. TypeOK'
  BY <1>1 DEF Basico, TypeOK, Guarda, Pasa, tablas, Pasos, Entidades, Filas, Numeros
<1>3. Halladas'
  BY <1>0 DEF Basico, Halladas, Hallada, Guarda, Pasa, tablas, TypeOK, HaLeido, Leida, DeMiembro
<1>4. EntranInvitados'
  BY DEF Basico, EntranInvitados, Guarda, tablas
<1> QED BY <1>2, <1>3, <1>4 DEF Basico

LEMMA VenceBasico ==
    ASSUME Basico, Vence
    PROVE  Basico'
<1>1. invitacion' \in Invitacion
  BY DEF Basico, TypeOK, Vence, Invitacion
<1>2. TypeOK'
  BY <1>1 DEF Basico, TypeOK, Vence, Entidades, Filas, Numeros, Pasos
<1>3. Halladas'
  BY <1>1 DEF Basico, Halladas, Hallada, Vence, HaLeido, Leida
<1>4. EntranInvitados'
  BY <1>1 DEF Basico, EntranInvitados, Vence
<1> QED BY <1>2, <1>3, <1>4 DEF Basico

\* What a commit leaves in the tables is of their types, and no row is lost.
LEMMA EscribeFilas ==
    ASSUME Basico, NEW s \in Sesiones, paso[s] = "confirmar", ~Choca(s), Escribe(s)
    PROVE  /\ proyecto' \in BOOLEAN
           /\ miembros' \in [Usuarios -> Fila \cup {Nulo}]
           /\ invitacion' \in Invitacion \cup {Nulo}
           /\ DOMAIN diagramas' \subseteq Diagramas
           /\ \A d \in DOMAIN diagramas' : diagramas'[d] \in Numeros
           /\ invitacion # Nulo => invitacion' # Nulo
           /\ \A u \in Usuarios : miembros[u] # Nulo => miembros'[u] # Nulo
           /\ \A u \in Usuarios : miembros'[u] # miembros[u] => invitacion # Nulo
<1> DEFINE q == peticion[s]
<1>0. /\ q \in Peticiones /\ entidad[s] \in Entidades(q)
      /\ base[s] \in Filas(q) \cup {Nulo}
  BY DEF Basico, TypeOK
<1>1. CASE q.op \in DeMiembro /\ EscribeMiembro(s)
  <2> DEFINE u == q.usuario
             quiere == IF q.op = "remover" THEN [base[s] EXCEPT !.vivo = FALSE] ELSE entidad[s]
             fila == IF base[s] = Nulo THEN quiere ELSE Mezcla(quiere, base[s], miembros[u])
  <2>1. /\ u \in Usuarios /\ entidad[s] \in Fila
        /\ base[s] \in Fila \cup {Nulo} /\ miembros[u] \in Fila \cup {Nulo}
    BY <1>0, <1>1, Pedida DEF Filas, Entidades, DeMiembro, Basico, TypeOK
  <2>2. /\ q.op # "unirse" => base[s] # Nulo /\ miembros[u] # Nulo
        /\ q.op = "unirse" => invitacion # Nulo
    BY <1>1 DEF Basico, Halladas, Hallada, Leida, HaLeido
  <2>3. miembros[u] # Nulo => invitacion # Nulo
    BY <2>1 DEF Basico, EntranInvitados
  <2>4. quiere \in Fila
    BY <2>1, <2>2, <1>1 DEF Fila
  <2>5. base[s] # Nulo => miembros[u] # Nulo
    BY <2>2, <1>1 DEF Basico, Halladas, Hallada
  <2>6. fila \in Fila
    BY <2>1, <2>4, <2>5, MezclaFila
  <2>7. miembros' = [miembros EXCEPT ![u] = fila]
        /\ UNCHANGED <<proyecto, invitacion, diagramas>>
    BY <1>1 DEF EscribeMiembro
  <2> HIDE DEF fila, quiere, u
  <2> QED BY <2>1, <2>2, <2>3, <2>6, <2>7 DEF Basico, TypeOK, u
<1>2. CASE q.op = "invitar" /\ EscribeInvitacion(s)
  BY <1>0, <1>2 DEF EscribeInvitacion, Entidades, Invitacion, DeMiembro, Basico, TypeOK
<1>3. CASE q.op = "crear_diagrama" /\ EscribeDiagrama(s)
  <2>1. entidad[s] \in Numeros
    BY <1>0, <1>3 DEF Entidades
  <2> QED BY <1>3, <2>1 DEF EscribeDiagrama, Basico, TypeOK
<1>4. CASE q.op = "eliminar_diagrama" /\ BorraDiagrama(s)
  BY <1>4 DEF BorraDiagrama, Basico, TypeOK
<1>5. CASE q.op = "eliminar_proyecto" /\ BorraProyecto(s)
  BY <1>5 DEF BorraProyecto, Basico, TypeOK
<1> QED BY <1>1, <1>2, <1>3, <1>4, <1>5 DEF Escribe

LEMMA ConfirmaBasico ==
    ASSUME Basico, NEW s \in Sesiones, Confirma(s)
    PROVE  Basico'
<1>1. /\ paso[s] = "confirmar"
      /\ peticion' = [peticion EXCEPT ![s] = Nulo]
      /\ paso' = [paso EXCEPT ![s] = "libre"]
      /\ entidad' = [entidad EXCEPT ![s] = Nulo]
      /\ base' = [base EXCEPT ![s] = Nulo]
      /\ rancia' \in [Sesiones -> BOOLEAN]
  BY DEF Confirma, Basico, TypeOK
<1>2. /\ proyecto' \in BOOLEAN
      /\ miembros' \in [Usuarios -> Fila \cup {Nulo}]
      /\ invitacion' \in Invitacion \cup {Nulo}
      /\ DOMAIN diagramas' \subseteq Diagramas
      /\ \A d \in DOMAIN diagramas' : diagramas'[d] \in Numeros
      /\ invitacion # Nulo => invitacion' # Nulo
      /\ \A u \in Usuarios : miembros[u] # Nulo => miembros'[u] # Nulo
      /\ \A u \in Usuarios : miembros'[u] # miembros[u] => invitacion # Nulo
  <2>1. CASE Choca(s)
    BY <2>1 DEF Confirma, tablas, Basico, TypeOK
  <2>2. CASE ~Choca(s)
    BY <2>2, <1>1, EscribeFilas DEF Confirma
  <2> QED BY <2>1, <2>2
<1>3. TypeOK'
  BY <1>1, <1>2 DEF Basico, TypeOK, Pasos, Entidades, Filas, Numeros
<1>4. Halladas'
  <2> SUFFICES ASSUME NEW t \in Sesiones PROVE Hallada(t)'
    BY DEF Halladas
  <2>1. CASE t = s
    BY <1>1, <2>1 DEF Basico, TypeOK, Hallada, HaLeido, Leida
  <2>2. CASE t # s
    <3>1. /\ peticion'[t] = peticion[t] /\ paso'[t] = paso[t] /\ base'[t] = base[t]
          /\ Hallada(t)
      BY <1>1, <2>2 DEF Basico, TypeOK, Halladas
    <3>2. peticion[t].op \in DeMiembro /\ paso[t] # "libre" => peticion[t].usuario \in Usuarios
      BY Pedida DEF Basico, TypeOK
    <3>3. (peticion[t].op = "unirse" /\ HaLeido(t) => invitacion # Nulo)'
      BY <1>2, <3>1 DEF Hallada, HaLeido
    <3>4. CASE peticion[t].op \in DeMiembro /\ paso[t] # "libre"
      <4>1. miembros[peticion[t].usuario] # Nulo => miembros'[peticion[t].usuario] # Nulo
        BY <1>2, <3>2, <3>4
      <4> QED BY <3>1, <3>3, <4>1 DEF Hallada, Leida
    <3>5. CASE ~(peticion[t].op \in DeMiembro /\ paso[t] # "libre")
      BY <3>1, <3>3, <3>5 DEF Hallada, Leida, DeMiembro
    <3> QED BY <3>4, <3>5
  <2> QED BY <2>1, <2>2
<1>5. EntranInvitados'
  BY <1>2 DEF Basico, EntranInvitados
<1> QED BY <1>3, <1>4, <1>5 DEF Basico

LEMMA QuietoBasico ==
    ASSUME Basico, UNCHANGED vars
    PROVE  Basico'
<1>1. TypeOK'
  BY DEF Basico, TypeOK, vars, Entidades, Filas, Numeros, Pasos
<1>2. Halladas' /\ EntranInvitados'
  BY DEF Basico, Halladas, Hallada, EntranInvitados, vars, HaLeido, Leida
<1> QED BY <1>1, <1>2 DEF Basico

(***************************************************************************)
(* The tables hold rows of their types, whatever the requests and however  *)
(* they interleave; no session decides upon a row that has disappeared.    *)
(***************************************************************************)
LEMMA SiempreBasico == Spec => []Basico
<1>1. Basico /\ [Next]_vars => Basico'
  BY LlegaBasico, AutorizaBasico, LeeBasico, GuardaBasico, ConfirmaBasico, VenceBasico,
     QuietoBasico DEF Next
<1> QED BY <1>1, Inicio, PTL DEF Spec

\* Sessions, rows and what they are about to write are always of their types:
\* in particular what actualizar writes over a row read again is a row.
THEOREM Tipos == Spec => []TypeOK
<1>1. Basico => TypeOK
  BY DEF Basico
<1> QED BY <1>1, SiempreBasico, PTL

\* Nobody is a member of a project that invited nobody, for any number of
\* requests between the check of the code and the row of the member.
THEOREM Invitados == Spec => []EntranInvitados
<1>1. Basico => EntranInvitados
  BY DEF Basico
<1> QED BY <1>1, SiempreBasico, PTL

\* The unique index, and nothing the sessions do, keeps the numbers of the
\* diagrams apart.
THEOREM Numeracion == Spec => []NumerosDistintos
<1>1. Init => NumerosDistintos
  BY DEF Init, NumerosDistintos
<1>2. NumerosDistintos /\ [Next]_vars => NumerosDistintos'
  <2> SUFFICES ASSUME NumerosDistintos, [Next]_vars
               PROVE  NumerosDistintos'
    OBVIOUS
  <2>1. CASE UNCHANGED diagramas
    BY <2>1 DEF NumerosDistintos
  <2>2. ASSUME NEW s \in Sesiones, ~Choca(s), peticion[s].op = "crear_diagrama",
               EscribeDiagrama(s)
        PROVE  NumerosDistintos'
    <3>1. entidad[s] \notin Ocupados
      BY <2>2 DEF Choca
    <3> QED BY <2>2, <3>1 DEF EscribeDiagrama, NumerosDistintos, Ocupados
  <2>3. ASSUME NEW s \in Sesiones, BorraDiagrama(s)
        PROVE  NumerosDistintos'
    BY <2>3 DEF BorraDiagrama, NumerosDistintos
  <2>4. ASSUME NEW s \in Sesiones, Llega(s) \/ Autoriza(s) \/ Lee(s) \/ Guarda(s)
        PROVE  UNCHANGED diagramas
    BY <2>4 DEF Llega, Autoriza, Lee, Guarda, tablas
  <2>5. ASSUME NEW s \in Sesiones, Confirma(s)
        PROVE  NumerosDistintos'
    <3>1. CASE Choca(s)
      BY <2>1, <2>5, <3>1 DEF Confirma, tablas
    <3>2. CASE ~Choca(s)
      BY <2>1, <2>2, <2>3, <2>5, <3>2
         DEF Confirma, Escribe, EscribeMiembro, EscribeInvitacion, BorraProyecto
    <3> QED BY <3>1, <3>2
  <2> QED BY <2>1, <2>4, <2>5 DEF Next, Vence, vars
<1> QED BY <1>1, <1>2, PTL DEF Spec

(***************************************************************************)
(* What a session that nobody has overtaken knows.                         *)
(***************************************************************************)
FrescaUnion(s) == peticion[s].op = "unirse" => ~invitacion.vencida

FrescoMiembro(s) ==
    LET q == peticion[s]
    IN q.op \in DeMiembro =>
         /\ Leida(s) => Miembro(q) # Nulo /\ entidad[s] = Miembro(q)
         /\ paso[s] = "confirmar" => base[s] = miembros[q.usuario]

FrescaInvitacion(s) ==
    peticion[s].op = "invitar" /\ Leida(s) =>
        /\ entidad[s].codigo \in Codigos
        /\ entidad[s] = [codigo |-> entidad[s].codigo, vencida |-> FALSE]
        /\ invitacion # Nulo => invitacion.vencida /\ entidad[s].codigo # invitacion.codigo

FrescoNumero(s) ==
    peticion[s].op = "crear_diagrama" /\ Leida(s) => EsSiguiente(entidad[s], Ocupados)

FrescaBaja(s) ==
    peticion[s].op = "eliminar_diagrama" =>
        /\ peticion[s].diagrama \in DOMAIN diagramas
        /\ Leida(s) => \E otro \in DOMAIN diagramas : otro # peticion[s].diagrama

Fresca(s) ==
    /\ proyecto
    /\ FrescaUnion(s) /\ FrescoMiembro(s) /\ FrescaInvitacion(s)
    /\ FrescoNumero(s) /\ FrescaBaja(s)
Frescas == \A s \in Sesiones : ~rancia[s] /\ HaLeido(s) => Fresca(s)

\* A session that does not move, while the tables do not, knows as much.
LEMMA IgualFresca ==
    ASSUME NEW t \in Sesiones, Fresca(t), UNCHANGED tablas,
           peticion'[t] = peticion[t], paso'[t] = paso[t],
           entidad'[t] = entidad[t], base'[t] = base[t]
    PROVE  Fresca(t)'
<1> USE DEF Leida, tablas
<1>1. proyecto' /\ FrescaUnion(t)'
  BY DEF Fresca, FrescaUnion
<1>2. FrescoMiembro(t)'
  BY DEF Fresca, FrescoMiembro, Miembro, EsMiembro, Cambiada
<1>3. FrescaInvitacion(t)'
  BY DEF Fresca, FrescaInvitacion
<1>4. FrescoNumero(t)'
  BY DEF Fresca, FrescoNumero, EsSiguiente, Ocupados
<1>5. FrescaBaja(t)'
  BY DEF Fresca, FrescaBaja
<1> QED BY <1>1, <1>2, <1>3, <1>4, <1>5 DEF Fresca

\* When s alone moves and no table changes, only s has something to learn.
LEMMA SoloFresca ==
    ASSUME TypeOK, Frescas, NEW s \in Sesiones, UNCHANGED <<tablas, rancia>>,
           \A t \in Sesiones \ {s} :
              /\ peticion'[t] = peticion[t] /\ paso'[t] = paso[t]
              /\ entidad'[t] = entidad[t] /\ base'[t] = base[t],
           ~rancia[s] /\ HaLeido(s)' => Fresca(s)'
    PROVE  Frescas'
<1> SUFFICES ASSUME NEW t \in Sesiones, t # s, ~rancia'[t], HaLeido(t)'
             PROVE  Fresca(t)'
  BY DEF Frescas
<1>1. /\ peticion'[t] = peticion[t] /\ paso'[t] = paso[t]
      /\ entidad'[t] = entidad[t] /\ base'[t] = base[t]
  OBVIOUS
<1>2. Fresca(t)
  BY <1>1 DEF Frescas, HaLeido
<1> QED BY <1>1, <1>2, IgualFresca DEF tablas

LEMMA LiberaFresca ==
    ASSUME TypeOK, Frescas, NEW s \in Sesiones, Libera(s), UNCHANGED tablas
    PROVE  Frescas'
<1> SUFFICES ASSUME NEW t \in Sesiones, ~rancia'[t], HaLeido(t)'
             PROVE  Fresca(t)'
  BY DEF Frescas
<1>1. t # s
  BY DEF Libera, HaLeido, TypeOK
<1>2. /\ peticion'[t] = peticion[t] /\ paso'[t] = paso[t]
      /\ entidad'[t] = entidad[t] /\ base'[t] = base[t] /\ rancia'[t] = rancia[t]
  BY <1>1 DEF TypeOK, Libera
<1>3. Fresca(t)
  BY <1>2 DEF Frescas, HaLeido
<1> QED BY <1>2, <1>3, IgualFresca

LEMMA LlegaFresca ==
    ASSUME Basico, Frescas, NEW s \in Sesiones, Llega(s)
    PROVE  Frescas'
<1>1. ~HaLeido(s)' /\ UNCHANGED <<tablas, entidad, base, rancia>>
  BY DEF Llega, Pasa, HaLeido, Basico, TypeOK
<1>2. \A t \in Sesiones \ {s} : peticion'[t] = peticion[t] /\ paso'[t] = paso[t]
  BY DEF Llega, Pasa, Basico, TypeOK
<1> QED BY <1>1, <1>2, SoloFresca DEF Basico

LEMMA AutorizaFresca ==
    ASSUME Basico, Frescas, NEW s \in Sesiones, Autoriza(s)
    PROVE  Frescas'
<1>1. CASE ~Autorizada(peticion[s])
  BY <1>1, LiberaFresca DEF Basico, Autoriza
<1>2. CASE Autorizada(peticion[s])
  <2>1. /\ paso' = [paso EXCEPT ![s] = "leer"] /\ paso'[s] = "leer"
        /\ UNCHANGED <<tablas, peticion, entidad, base, rancia>>
    BY <1>2 DEF Autoriza, Pasa, Basico, TypeOK
  <2>2. Fresca(s)'
    BY <1>2, <2>1 DEF Autorizada, Fresca, FrescaUnion, FrescoMiembro, FrescaInvitacion,
       FrescoNumero, FrescaBaja, Leida, tablas
  <2>3. \A t \in Sesiones \ {s} : paso'[t] = paso[t]
    BY <2>1
  <2> QED BY <2>1, <2>2, <2>3, SoloFresca DEF Basico
<1> QED BY <1>1, <1>2

\* What a session has just read is what it is about to save.
LEMMA SigueFresca ==
    ASSUME Basico, Frescas, NEW s \in Sesiones, paso[s] = "leer", NEW e, Sigue(s, e),
           UNCHANGED tablas,
           LET q == peticion[s]
           IN /\ q.op \in DeMiembro => Miembro(q) # Nulo /\ e = Miembro(q)
              /\ q.op = "invitar" =>
                   /\ e.codigo \in Codigos /\ e = [codigo |-> e.codigo, vencida |-> FALSE]
                   /\ invitacion # Nulo => invitacion.vencida /\ e.codigo # invitacion.codigo
              /\ q.op = "crear_diagrama" => EsSiguiente(e, Ocupados)
              /\ q.op = "eliminar_diagrama" /\ q.diagrama \in DOMAIN diagramas =>
                   \E otro \in DOMAIN diagramas : otro # q.diagrama
    PROVE  Frescas'
<1>1. /\ UNCHANGED <<tablas, peticion, base, rancia>>
      /\ paso'[s] = "guardar" /\ entidad'[s] = e
      /\ \A t \in Sesiones \ {s} : paso'[t] = paso[t] /\ entidad'[t] = entidad[t]
  BY DEF Sigue, Pasa, Basico, TypeOK
<1>2. ASSUME ~rancia[s] PROVE Fresca(s)'
  <2>1. Fresca(s)
    BY <1>2 DEF Frescas, HaLeido
  <2>2. proyecto' /\ FrescaUnion(s)'
    BY <1>1, <2>1 DEF Fresca, FrescaUnion, tablas
  <2>3. FrescoMiembro(s)'
    BY <1>1 DEF FrescoMiembro, Miembro, EsMiembro, Cambiada, tablas
  <2>4. FrescaInvitacion(s)'
    BY <1>1 DEF FrescaInvitacion, tablas
  <2>5. FrescoNumero(s)'
    BY <1>1 DEF FrescoNumero, EsSiguiente, Ocupados, tablas
  <2>6. FrescaBaja(s)'
    BY <1>1, <2>1 DEF Fresca, FrescaBaja, tablas
  <2> QED BY <2>2, <2>3, <2>4, <2>5, <2>6 DEF Fresca
<1> QED BY <1>1, <1>2, SoloFresca DEF Basico

\* More than one is one besides any.
LEMMA QuedaOtro ==
    ASSUME NEW S, Cardinality(S) > 1, NEW d \in S
    PROVE  \E otro \in S : otro # d
<1> SUFFICES ASSUME \A otro \in S : otro = d PROVE FALSE
  OBVIOUS
<1>1. S = {d}
  OBVIOUS
<1> QED BY <1>1, FS_Singleton

LEMMA LeeFresca ==
    ASSUME Basico, Frescas, NEW s \in Sesiones, Lee(s)
    PROVE  Frescas'
<1> DEFINE q == peticion[s]
<1>0. paso[s] = "leer" /\ UNCHANGED tablas
  BY DEF Lee
<1>1. CASE Libera(s)
  BY <1>0, <1>1, LiberaFresca DEF Basico
<1>2. CASE q.op \in DeMiembro /\ Miembro(q) # Nulo /\ Sigue(s, Miembro(q))
  BY <1>0, <1>2, SigueFresca DEF DeMiembro
<1>3. ASSUME q.op = "invitar", invitacion # Nulo => invitacion.vencida,
             NEW c \in Codigos, CodigoNuevo(c), Sigue(s, [codigo |-> c, vencida |-> FALSE])
      PROVE  Frescas'
  <2> DEFINE e == [codigo |-> c, vencida |-> FALSE]
  <2>1. e.codigo = c
    OBVIOUS
  <2>2. invitacion # Nulo => e.codigo # invitacion.codigo
    BY <1>3, <2>1 DEF CodigoNuevo
  <2>3. Sigue(s, e) /\ e = [codigo |-> e.codigo, vencida |-> FALSE] /\ e.codigo \in Codigos
    BY <1>3, <2>1
  <2> HIDE DEF e
  <2> QED BY <1>0, <1>3, <2>2, <2>3, SigueFresca DEF DeMiembro
<1>4. ASSUME NEW n \in Numeros, q.op = "crear_diagrama", EsSiguiente(n, Ocupados), Sigue(s, n)
      PROVE  Frescas'
  BY <1>0, <1>4, SigueFresca DEF DeMiembro
<1>5. CASE q.op = "eliminar_diagrama" /\ Cardinality(DOMAIN diagramas) > 1 /\ Sigue(s, Nulo)
  <2>1. q.diagrama \in DOMAIN diagramas => \E otro \in DOMAIN diagramas : otro # q.diagrama
    BY <1>5, QuedaOtro
  <2> QED BY <1>0, <1>5, <2>1, SigueFresca DEF DeMiembro
<1>6. CASE q.op = "eliminar_proyecto" /\ Sigue(s, Nulo)
  BY <1>0, <1>6, SigueFresca DEF DeMiembro
<1> QED BY <1>1, <1>2, <1>3, <1>4, <1>5, <1>6 DEF Lee

LEMMA GuardaFresca ==
    ASSUME Basico, Frescas, NEW s \in Sesiones, Guarda(s)
    PROVE  Frescas'
<1>1. /\ UNCHANGED <<tablas, peticion, entidad, rancia>>
      /\ paso[s] = "guardar" /\ paso'[s] = "confirmar"
      /\ \A t \in Sesiones \ {s} : paso'[t] = paso[t] /\ base'[t] = base[t]
      /\ peticion[s].op \in DeMiembro => base'[s] = miembros[peticion[s].usuario]
  BY DEF Guarda, Pasa, Basico, TypeOK
<1>2. ASSUME ~rancia[s] PROVE Fresca(s)'
  <2>1. Fresca(s)
    BY <1>1, <1>2 DEF Frescas, HaLeido
  <2>2. proyecto' /\ FrescaUnion(s)'
    BY <1>1, <2>1 DEF Fresca, FrescaUnion, tablas
  <2>3. FrescoMiembro(s)'
    BY <1>1, <2>1 DEF Fresca, FrescoMiembro, Leida, Miembro, EsMiembro, Cambiada, tablas
  <2>4. FrescaInvitacion(s)'
    BY <1>1, <2>1 DEF Fresca, FrescaInvitacion, Leida, tablas
  <2>5. FrescoNumero(s)'
    BY <1>1, <2>1 DEF Fresca, FrescoNumero, Leida, EsSiguiente, Ocupados, tablas
  <2>6. FrescaBaja(s)'
    BY <1>1, <2>1 DEF Fresca, FrescaBaja, Leida, tablas
  <2> QED BY <2>2, <2>3, <2>4, <2>5, <2>6 DEF Fresca
<1> QED BY <1>1, <1>2, SoloFresca DEF Basico

LEMMA VenceFresca ==
    ASSUME Basico, Frescas, Vence
    PROVE  Frescas'
<1> SUFFICES ASSUME NEW t \in Sesiones, ~rancia'[t], HaLeido(t)'
             PROVE  Fresca(t)'
  BY DEF Frescas
<1>1. ~rancia[t] /\ HaLeido(t) /\ peticion[t].op # "unirse"
  BY DEF Vence, HaLeido
<1>2. Fresca(t)
  BY <1>1 DEF Frescas
<1>3. /\ UNCHANGED <<proyecto, miembros, diagramas, peticion, paso, entidad, base>>
      /\ invitacion # Nulo /\ ~invitacion.vencida
  BY DEF Vence
<1>4. proyecto' /\ FrescaUnion(t)'
  BY <1>1, <1>2, <1>3 DEF Fresca, FrescaUnion
<1>5. FrescoMiembro(t)'
  BY <1>2, <1>3 DEF Fresca, FrescoMiembro, Leida, Miembro, EsMiembro, Cambiada
<1>6. FrescaInvitacion(t)'
  BY <1>2, <1>3 DEF Fresca, FrescaInvitacion, Leida
<1>7. FrescoNumero(t)'
  BY <1>2, <1>3 DEF Fresca, FrescoNumero, Leida, EsSiguiente, Ocupados
<1>8. FrescaBaja(t)'
  BY <1>2, <1>3 DEF Fresca, FrescaBaja, Leida
<1> QED BY <1>4, <1>5, <1>6, <1>7, <1>8 DEF Fresca

\* A commit spares the sessions that read nothing it writes.
LEMMA ConfirmaFresca ==
    ASSUME Basico, Frescas, NEW s \in Sesiones, Confirma(s)
    PROVE  Frescas'
<1> SUFFICES ASSUME NEW t \in Sesiones, ~rancia'[t], HaLeido(t)'
             PROVE  Fresca(t)'
  BY DEF Frescas
<1> DEFINE q == peticion[s]
           r == peticion[t]
<1>1. t # s
  BY DEF Confirma, HaLeido, Basico, TypeOK
<1>2. /\ peticion'[t] = r /\ paso'[t] = paso[t]
      /\ entidad'[t] = entidad[t] /\ base'[t] = base[t]
  BY <1>1 DEF Confirma, Basico, TypeOK
<1>3. HaLeido(t)
  BY <1>2 DEF HaLeido
<1>4. ~rancia[t] /\ (Choca(s) \/ ~SobreLoMismo(q, r))
  BY <1>1, <1>3 DEF Confirma
<1>5. Fresca(t)
  BY <1>3, <1>4 DEF Frescas
<1>6. CASE Choca(s)
  <2>1. UNCHANGED tablas
    BY <1>6 DEF Confirma
  <2> QED BY <1>2, <1>5, <2>1, IgualFresca
<1>7. CASE ~Choca(s)
  <2>0. ~SobreLoMismo(q, r) /\ Escribe(s) /\ r \in Peticiones /\ q \in Peticiones
    BY <1>3, <1>4, <1>7 DEF Confirma, HaLeido, Basico, TypeOK
  <2>1. CASE q.op \in DeMiembro /\ EscribeMiembro(s)
    <3>1. r.op \in DeMiembro => r.usuario # q.usuario /\ r.usuario \in Usuarios
      BY <2>0, <2>1, Pedida DEF SobreLoMismo
    <3>2. UNCHANGED <<proyecto, invitacion, diagramas>>
      BY <2>1 DEF EscribeMiembro
    <3>3. PICK f : miembros' = [miembros EXCEPT ![q.usuario] = f]
      BY <2>1 DEF EscribeMiembro
    <3>4. r.op \in DeMiembro => miembros'[r.usuario] = miembros[r.usuario]
      BY <3>1, <3>3 DEF Basico, TypeOK
    <3>5. proyecto' /\ FrescaUnion(t)'
      BY <1>2, <1>5, <3>2 DEF Fresca, FrescaUnion
    <3>6. FrescoMiembro(t)'
      BY <1>2, <1>5, <3>4 DEF Fresca, FrescoMiembro, Leida, Miembro, EsMiembro, Cambiada
    <3>7. FrescaInvitacion(t)'
      BY <1>2, <1>5, <3>2 DEF Fresca, FrescaInvitacion, Leida
    <3>8. FrescoNumero(t)'
      BY <1>2, <1>5, <3>2 DEF Fresca, FrescoNumero, Leida, EsSiguiente, Ocupados
    <3>9. FrescaBaja(t)'
      BY <1>2, <1>5, <3>2 DEF Fresca, FrescaBaja, Leida
    <3> QED BY <3>5, <3>6, <3>7, <3>8, <3>9 DEF Fresca
  <2>2. CASE q.op = "invitar" /\ EscribeInvitacion(s)
    <3>1. r.op # "invitar" /\ UNCHANGED <<proyecto, miembros, diagramas>>
      BY <2>0, <2>2 DEF SobreLoMismo, EscribeInvitacion
    <3>2. r.op = "unirse" => ~invitacion'.vencida
      <4>1. entidad[s] \in [codigo : Codigos, vencida : {FALSE}]
        BY <2>2 DEF Confirma, Basico, TypeOK, Entidades
      <4> QED BY <1>5, <2>2, <4>1 DEF EscribeInvitacion
    <3>3. proyecto' /\ FrescaUnion(t)'
      BY <1>2, <1>5, <3>1, <3>2 DEF Fresca, FrescaUnion
    <3>4. FrescoMiembro(t)'
      BY <1>2, <1>5, <3>1 DEF Fresca, FrescoMiembro, Leida, Miembro, EsMiembro, Cambiada
    <3>5. FrescaInvitacion(t)'
      BY <1>2, <3>1 DEF FrescaInvitacion
    <3>6. FrescoNumero(t)'
      BY <1>2, <1>5, <3>1 DEF Fresca, FrescoNumero, Leida, EsSiguiente, Ocupados
    <3>7. FrescaBaja(t)'
      BY <1>2, <1>5, <3>1 DEF Fresca, FrescaBaja, Leida
    <3> QED BY <3>3, <3>4, <3>5, <3>6, <3>7 DEF Fresca
  <2>3. CASE q.op \in DeDiagrama /\ (EscribeDiagrama(s) \/ BorraDiagrama(s))
    <3>1. r.op \notin DeDiagrama /\ UNCHANGED <<proyecto, miembros, invitacion>>
      BY <2>0, <2>3 DEF SobreLoMismo, EscribeDiagrama, BorraDiagrama
    <3>2. proyecto' /\ FrescaUnion(t)'
      BY <1>2, <1>5, <3>1 DEF Fresca, FrescaUnion
    <3>3. FrescoMiembro(t)'
      BY <1>2, <1>5, <3>1 DEF Fresca, FrescoMiembro, Leida, Miembro, EsMiembro, Cambiada
    <3>4. FrescaInvitacion(t)'
      BY <1>2, <1>5, <3>1 DEF Fresca, FrescaInvitacion, Leida
    <3>5. FrescoNumero(t)' /\ FrescaBaja(t)'
      BY <1>2, <3>1 DEF FrescoNumero, FrescaBaja, DeDiagrama
    <3> QED BY <3>2, <3>3, <3>4, <3>5 DEF Fresca
  <2>4. q.op # "eliminar_proyecto"
    BY <2>0 DEF SobreLoMismo
  <2> QED BY <2>0, <2>1, <2>2, <2>3, <2>4 DEF Escribe, DeDiagrama
<1> QED BY <1>6, <1>7

\* Everything an authorized session has read holds until somebody commits
\* on it.
LEMMA SiempreFrescas == Spec => [](Basico /\ Frescas)
<1>1. Init => Frescas
  BY DEF Init, Frescas, HaLeido
<1>2. Basico /\ Frescas /\ UNCHANGED vars => Frescas'
  <2> SUFFICES ASSUME Frescas, UNCHANGED vars, NEW t \in Sesiones, ~rancia'[t], HaLeido(t)'
               PROVE  Fresca(t)'
    BY DEF Frescas
  <2>1. Fresca(t) /\ UNCHANGED <<tablas, peticion, paso, entidad, base>>
    BY DEF Frescas, HaLeido, vars, tablas
  <2> QED BY <2>1, IgualFresca
<1>3. Basico /\ Frescas /\ [Next]_vars => Frescas'
  BY <1>2, LlegaFresca, AutorizaFresca, LeeFresca, GuardaFresca, ConfirmaFresca, VenceFresca
     DEF Next
<1> QED BY <1>1, <1>3, SiempreBasico, PTL DEF Spec

(***************************************************************************)
(* The commit of a session that nobody has overtaken is a step of the      *)
(* serial specification.                                                   *)
(***************************************************************************)
\* Written over the row as it is, an entity is the row it leaves.
LEMMA MezclaAlDia ==
    ASSUME NEW a \in Fila, NEW b \in Fila
    PROVE  Mezcla(a, b, b) = a
  BY DEF Mezcla, Fila

LEMMA MiembroSerial ==
    ASSUME Basico, NEW s \in Sesiones, paso[s] = "confirmar", Fresca(s), ~Choca(s),
           peticion[s].op \in DeMiembro, EscribeMiembro(s)
    PROVE  Serial!Next
<1> DEFINE q == peticion[s]
           u == q.usuario
           quiere == IF q.op = "remover" THEN [base[s] EXCEPT !.vivo = FALSE] ELSE entidad[s]
           fila == IF base[s] = Nulo THEN quiere ELSE Mezcla(quiere, base[s], miembros[u])
<1>1. /\ q \in Peticiones /\ u \in Usuarios /\ (q.op = "rol" => q.rol \in RolesPedidos)
      /\ miembros[u] \in Fila \cup {Nulo}
  <2>1. q \in Peticiones
    BY DEF Basico, TypeOK
  <2>2. u \in Usuarios /\ (q.op = "rol" => q.rol \in RolesPedidos)
    BY <2>1 DEF Peticiones, DeMiembro
  <2> QED BY <2>1, <2>2 DEF Basico, TypeOK
<1>2. /\ Miembro(q) # Nulo /\ entidad[s] = Miembro(q) /\ base[s] = miembros[u]
      /\ proyecto
  BY DEF Fresca, FrescoMiembro, Leida
<1>3. Miembro(q) \in Fila
  BY <1>1, <1>2, MiembroFila DEF Basico
<1>4. q.op # "unirse" => EsMiembro(u) /\ base[s] \in Fila
  BY <1>1, <1>2 DEF Miembro, EsMiembro
<1>5. quiere \in Fila
  BY <1>2, <1>3, <1>4 DEF Fila
<1>6. fila = quiere
  BY <1>1, <1>2, <1>5, MezclaAlDia
<1>7. miembros' = [miembros EXCEPT ![u] = fila] /\ UNCHANGED <<proyecto, invitacion, diagramas>>
  BY DEF EscribeMiembro
<1>8. miembros' = [miembros EXCEPT ![u] = quiere]
  BY <1>6, <1>7
<1> HIDE DEF fila
<1>9. Serial!Presente(u) <=> EsMiembro(u)
  BY DEF Serial!Presente, EsMiembro
<1>10. CASE q.op = "unirse"
  <2>1. ~EsMiembro(u) /\ quiere = NuevoMiembro
    BY <1>2, <1>10 DEF Miembro
  <2>2. invitacion # Nulo /\ ~invitacion.vencida
    BY <1>10 DEF Fresca, FrescaUnion, Basico, Halladas, Hallada, HaLeido
  <2>3. Serial!Unirse(u)
    BY <1>8, <1>9, <2>1, <2>2 DEF Serial!Unirse, Serial!Vale, NuevoMiembro
  <2> QED BY <1>1, <1>2, <1>7, <2>3 DEF Serial!Next, Serial!DeMiembros
<1>11. CASE q.op = "rol"
  <2>1. quiere = [miembros[u] EXCEPT !.rol = q.rol]
    BY <1>2, <1>4, <1>11 DEF Miembro, Cambiada
  <2>2. Serial!CambiarRol(u, q.rol)
    BY <1>4, <1>8, <1>9, <1>11, <2>1 DEF Serial!CambiarRol
  <2> QED BY <1>1, <1>2, <1>7, <1>11, <2>2 DEF Serial!Next, Serial!DeMiembros
<1>12. CASE q.op = "bloquear"
  <2>1. quiere = [miembros[u] EXCEPT !.estado = "bloqueado"]
    BY <1>2, <1>4, <1>12 DEF Miembro, Cambiada
  <2>2. Serial!Bloquear(u)
    BY <1>4, <1>8, <1>9, <1>12, <2>1 DEF Serial!Bloquear
  <2> QED BY <1>1, <1>2, <1>7, <2>2 DEF Serial!Next, Serial!DeMiembros
<1>13. CASE q.op = "desbloquear"
  <2>1. quiere = [miembros[u] EXCEPT !.estado = "activo"]
    BY <1>2, <1>4, <1>13 DEF Miembro, Cambiada
  <2>2. Serial!Desbloquear(u)
    BY <1>4, <1>8, <1>9, <1>13, <2>1 DEF Serial!Desbloquear
  <2> QED BY <1>1, <1>2, <1>7, <2>2 DEF Serial!Next, Serial!DeMiembros
<1>14. CASE q.op = "remover"
  <2>1. quiere = [miembros[u] EXCEPT !.vivo = FALSE]
    BY <1>2, <1>14
  <2>2. Serial!Remover(u)
    BY <1>4, <1>8, <1>9, <1>14, <2>1 DEF Serial!Remover
  <2> QED BY <1>1, <1>2, <1>7, <2>2 DEF Serial!Next, Serial!DeMiembros
<1> QED BY <1>10, <1>11, <1>12, <1>13, <1>14 DEF DeMiembro

LEMMA ConfirmaSerial ==
    ASSUME Basico, Frescas, NEW s \in Sesiones, Confirma(s), ~rancia[s]
    PROVE  Serial!Next \/ UNCHANGED tablas
<1> DEFINE q == peticion[s]
<1>1. paso[s] = "confirmar" /\ Fresca(s) /\ proyecto
  BY DEF Confirma, Frescas, HaLeido, Fresca
<1>2. CASE Choca(s)
  BY <1>2 DEF Confirma
<1>3. CASE ~Choca(s)
  <2>0. Escribe(s)
    BY <1>3 DEF Confirma
  <2>1. CASE q.op \in DeMiembro /\ EscribeMiembro(s)
    BY <1>1, <1>3, <2>1, MiembroSerial
  <2>2. CASE q.op = "invitar" /\ EscribeInvitacion(s)
    <3>1. /\ entidad[s].codigo \in Codigos
          /\ entidad[s] = [codigo |-> entidad[s].codigo, vencida |-> FALSE]
          /\ invitacion # Nulo => invitacion.vencida /\ entidad[s].codigo # invitacion.codigo
      BY <1>1, <2>2 DEF Fresca, FrescaInvitacion, Leida
    <3>2. Serial!Invitar
      BY <2>2, <3>1 DEF Serial!Invitar, Serial!Vale, EscribeInvitacion
    <3> QED BY <1>1, <2>2, <3>2 DEF Serial!Next, EscribeInvitacion
  <2>3. CASE q.op = "crear_diagrama" /\ EscribeDiagrama(s)
    <3>1. PICK d \in Diagramas \ DOMAIN diagramas :
            diagramas' = [x \in DOMAIN diagramas \cup {d} |->
                            IF x = d THEN entidad[s] ELSE diagramas[x]]
      BY <2>3 DEF EscribeDiagrama
    <3>2. EsSiguiente(entidad[s], Ocupados) /\ entidad[s] \in Numeros
      BY <1>1, <2>3 DEF Fresca, FrescoNumero, Leida, Basico, TypeOK, Entidades
    <3>3. Serial!CrearDiagrama
      BY <3>1, <3>2 DEF Serial!CrearDiagrama, EsSiguiente, Ocupados, Numeros
    <3> QED BY <1>1, <2>3, <3>3 DEF Serial!Next, EscribeDiagrama
  <2>4. CASE q.op = "eliminar_diagrama" /\ BorraDiagrama(s)
    <3>1. PICK otro \in DOMAIN diagramas : otro # q.diagrama /\ q.diagrama \in DOMAIN diagramas
      BY <1>1, <2>4 DEF Fresca, FrescaBaja, Leida
    <3>2. Serial!EliminarDiagrama
      BY <2>4, <3>1 DEF Serial!EliminarDiagrama, BorraDiagrama
    <3> QED BY <1>1, <2>4, <3>2 DEF Serial!Next, BorraDiagrama
  <2>5. CASE q.op = "eliminar_proyecto" /\ BorraProyecto(s)
    BY <1>1, <2>5 DEF Serial!Next, BorraProyecto
  <2> QED BY <2>0, <2>1, <2>2, <2>3, <2>4, <2>5 DEF Escribe
<1> QED BY <1>2, <1>3

\* A request whose rows nobody else committed upon since it was authorized
\* commits what it would have done alone, and no other step touches the
\* tables: every departure from the serial specification is a race.
THEOREM SerialSinCarrera == Spec => EsSerialSinCarrera
<1>1. Basico /\ Frescas /\ [Next]_vars =>
        [ConfirmaTarde \/ [Serial!Next]_tablas]_vars
  <2> SUFFICES ASSUME Basico, Frescas, [Next]_vars, ~ConfirmaTarde
               PROVE  Serial!Next \/ UNCHANGED tablas
    OBVIOUS
  <2>1. ASSUME NEW s \in Sesiones, Llega(s) \/ Autoriza(s) \/ Lee(s) \/ Guarda(s)
        PROVE  UNCHANGED tablas
    BY <2>1 DEF Llega, Autoriza, Lee, Guarda
  <2>2. ASSUME NEW s \in Sesiones, Confirma(s)
        PROVE  Serial!Next \/ UNCHANGED tablas
    BY <2>2, ConfirmaSerial DEF ConfirmaTarde
  <2>3. ASSUME Vence PROVE Serial!Next
    BY <2>3 DEF Vence, Serial!Next, Serial!Vencer, Serial!Vale
  <2>4. UNCHANGED vars => UNCHANGED tablas
    BY DEF vars, tablas
  <2> QED BY <2>1, <2>2, <2>3, <2>4 DEF Next
<1>2. SUFFICES [](Basico /\ Frescas) /\ [][Next]_vars => EsSerialSinCarrera
  BY SiempreFrescas, PTL DEF Spec
<1> QED BY <1>1, PTL DEF EsSerialSinCarrera

\* Attended one at a time, deletions always leave a diagram: the promise of
\* exceptions.py:30 holds but for the races.
THEOREM SerialConserva == Serial!Spec => []Serial!SiempreHayDiagrama
<1> USE DEF Serial!SiempreHayDiagrama
<1>1. Serial!Init => Serial!SiempreHayDiagrama
  BY DEF Serial!Init
<1>2. Serial!SiempreHayDiagrama /\ [Serial!Next]_<<proyecto, miembros, invitacion, diagramas>>
        => Serial!SiempreHayDiagrama'
  <2> SUFFICES ASSUME Serial!SiempreHayDiagrama, Serial!Next
               PROVE  Serial!SiempreHayDiagrama'
    OBVIOUS
  <2>1. ASSUME Serial!CrearDiagrama PROVE DOMAIN diagramas' # {}
    BY <2>1 DEF Serial!CrearDiagrama
  <2>2. ASSUME Serial!EliminarDiagrama PROVE DOMAIN diagramas' # {}
    BY <2>2 DEF Serial!EliminarDiagrama
  <2> QED BY <2>1, <2>2 DEF Serial!Next
<1> QED BY <1>1, <1>2, PTL DEF Serial!Spec

===============================================================================
