--------------------------- MODULE MCModeloDiagrama ---------------------------
(* Two classes and room for an N:M structure between any of them, and for   *)
(* one more relation with two references, which may reach the intermediate  *)
(* class.                                                                   *)
EXTENDS CaidaDiagrama, EventosDiagrama, GeneracionBackend, TLC

CONSTANTS c1, c2, inter, k1, k2, k3

MCAtributos == {k1, k2, k3, "f1", "f2", "f3", "f4", "m1"}
MCLlaveDe   == c1 :> k1 @@ c2 :> k2 @@ inter :> k3
MCForaneaDe == <<"f1", "f2", "f3", "f4">>
MCFilasDe   == <<[intermedia |-> inter, relOrigen |-> 1, relDestino |-> 2,
                  refOrigen |-> 1, refDestino |-> 2]>>

\* The two classes are interchangeable, each with its key.
MCSimetria ==
    {p \in Permutations({c1, c2, k1, k2}) : \A c \in {c1, c2} :
        p[c] \in {c1, c2} /\ p[MCLlaveDe[c]] = MCLlaveDe[p[c]]}

===============================================================================
