------------------------------ MODULE ReciboUnico ------------------------------
(***************************************************************************)
(* What an idempotent facade promises its clients, whatever the number of  *)
(* times they repeat a request: an action is confirmed at most once, its   *)
(* receipt never changes, and an answer of success is that receipt.        *)
(***************************************************************************)
CONSTANTS Acciones, Intentos, Recibos, Nulo

VARIABLES
    recibos,     \* the receipt of each confirmed action, Nulo before
    respuestas   \* what each attempt was answered, Nulo before

vars == <<recibos, respuestas>>

Rechazo == [exito |-> FALSE]
Exito(a, r) == [exito |-> TRUE, accion |-> a, recibo |-> r]

Init ==
    /\ recibos = [a \in Acciones |-> Nulo]
    /\ respuestas = [p \in Intentos |-> Nulo]

Confirmar(a, r) ==
    /\ recibos[a] = Nulo
    /\ recibos' = [recibos EXCEPT ![a] = r]
    /\ UNCHANGED respuestas

Contestar(p, a) ==
    /\ respuestas[p] = Nulo
    /\ recibos[a] # Nulo
    /\ respuestas' = [respuestas EXCEPT ![p] = Exito(a, recibos[a])]
    /\ UNCHANGED recibos

\* Several attempts may be refused together, when the process dies.
Rechazar(P) ==
    /\ \A p \in P : respuestas[p] = Nulo
    /\ respuestas' = [p \in Intentos |-> IF p \in P THEN Rechazo ELSE respuestas[p]]
    /\ UNCHANGED recibos

Next ==
    \/ \E a \in Acciones, r \in Recibos : Confirmar(a, r)
    \/ \E p \in Intentos, a \in Acciones : Contestar(p, a)
    \/ \E P \in SUBSET Intentos : Rechazar(P)

Spec == Init /\ [][Next]_vars
================================================================================
