---------------------------- MODULE ProyectoSerial ----------------------------
(***************************************************************************)
(* A project as its owner and its members understand it: every request is  *)
(* attended alone.                                                         *)
(***************************************************************************)
EXTENDS Integers

CONSTANTS Usuarios, Diagramas, Codigos, RolesPedidos, MaxNumero, Nulo

VARIABLES proyecto, miembros, invitacion, diagramas

Presente(u) == miembros[u] # Nulo /\ miembros[u].vivo
Vale        == invitacion # Nulo /\ ~invitacion.vencida

Init ==
    /\ proyecto = TRUE
    /\ miembros = [u \in Usuarios |-> Nulo]
    /\ invitacion = Nulo
    /\ \E d \in Diagramas : diagramas = [x \in {d} |-> 1]

\* Who is not in enters, with the least of the roles.
Unirse(u) ==
    /\ Vale /\ ~Presente(u)
    /\ miembros' = [miembros EXCEPT ![u] =
         [rol |-> "ver", estado |-> "activo", vivo |-> TRUE]]

\* Role, state and membership change one at a time.
CambiarRol(u, r) == Presente(u) /\ miembros' = [miembros EXCEPT ![u].rol = r]
Bloquear(u)      == Presente(u) /\ miembros' = [miembros EXCEPT ![u].estado = "bloqueado"]
Desbloquear(u)   == Presente(u) /\ miembros' = [miembros EXCEPT ![u].estado = "activo"]
Remover(u)       == Presente(u) /\ miembros' = [miembros EXCEPT ![u].vivo = FALSE]

\* A good invitation is never replaced, and a replaced one loses its code.
Invitar ==
    /\ ~Vale
    /\ \E c \in Codigos :
         /\ invitacion # Nulo => c # invitacion.codigo
         /\ invitacion' = [codigo |-> c, vencida |-> FALSE]
Vencer == Vale /\ invitacion' = [invitacion EXCEPT !.vencida = TRUE]

CrearDiagrama ==
    \E d \in Diagramas \ DOMAIN diagramas, n \in 1..MaxNumero :
        LET ocupados == {diagramas[x] : x \in DOMAIN diagramas}
        IN /\ n \notin ocupados /\ \A m \in 1..(n - 1) : m \in ocupados
           /\ diagramas' = [x \in DOMAIN diagramas \cup {d} |->
                              IF x = d THEN n ELSE diagramas[x]]

\* One is always left.
EliminarDiagrama ==
    \E d, otro \in DOMAIN diagramas :
        /\ otro # d
        /\ diagramas' = [x \in DOMAIN diagramas \ {d} |-> diagramas[x]]

DeMiembros ==
    \E u \in Usuarios :
        \/ Unirse(u) \/ Bloquear(u) \/ Desbloquear(u) \/ Remover(u)
        \/ \E r \in RolesPedidos : CambiarRol(u, r)

Next ==
    \/ proyecto /\ DeMiembros /\ UNCHANGED <<proyecto, invitacion, diagramas>>
    \/ proyecto /\ Invitar /\ UNCHANGED <<proyecto, miembros, diagramas>>
    \/ Vencer /\ UNCHANGED <<proyecto, miembros, diagramas>>
    \/ proyecto /\ (CrearDiagrama \/ EliminarDiagrama) /\ UNCHANGED <<proyecto, miembros, invitacion>>
    \/ proyecto /\ proyecto' = FALSE /\ UNCHANGED <<miembros, invitacion, diagramas>>

Spec == Init /\ [][Next]_<<proyecto, miembros, invitacion, diagramas>>

\* Attended one by one, the requests always leave a diagram to the project.
SiempreHayDiagrama == proyecto => DOMAIN diagramas # {}
===============================================================================
