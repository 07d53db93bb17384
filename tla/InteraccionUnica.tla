---------------------------- MODULE InteraccionUnica ----------------------------
(***************************************************************************)
(* What the assistant promises about a request that carries an idempotency *)
(* key, however many times it is sent: it becomes one interaction, the     *)
(* steps of one plan are applied to the diagram, in order and none twice,  *)
(* only while that interaction is being processed, and once it is closed   *)
(* nothing changes any more.                                               *)
(***************************************************************************)
EXTENDS Naturals, Sequences

CONSTANTS Claves, Nulo

VARIABLE interacciones    \* by key: Nulo, or its state and what was applied

vars == <<interacciones>>

Cerradas == {"COMPLETADO", "ERROR"}
Nueva == [estado |-> "PENDIENTE", hechos |-> <<>>]

\* t continues s with later steps, each of them once.
Prolonga(s, t) ==
    /\ Len(s) <= Len(t)
    /\ \A i \in 1..Len(s) : t[i] = s[i]
    /\ \A i, j \in 1..Len(t) : i < j => t[i].paso < t[j].paso

Init == interacciones = [k \in Claves |-> Nulo]

Nacer(k) ==
    /\ interacciones[k] = Nulo
    /\ interacciones'[k] = Nueva

Empezar(k) ==
    /\ interacciones[k] = Nueva
    /\ interacciones'[k] = [Nueva EXCEPT !.estado = "PROCESANDO"]

Avanzar(k) ==
    /\ interacciones[k] # Nulo /\ interacciones[k].estado = "PROCESANDO"
    /\ interacciones'[k].estado \in {"PROCESANDO"} \cup Cerradas
    /\ Prolonga(interacciones[k].hechos, interacciones'[k].hechos)

Next ==
    \E k \in Claves :
        /\ Nacer(k) \/ Empezar(k) \/ Avanzar(k)
        /\ \A otra \in Claves \ {k} : interacciones'[otra] = interacciones[otra]

Spec == Init /\ [][Next]_vars
================================================================================
