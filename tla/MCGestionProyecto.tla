--------------------------- MODULE MCGestionProyecto ---------------------------
(* Two requests at a time, again and again, on one member, three ids of     *)
(* diagrams and three codes.                                                *)
EXTENDS GestionProyecto, TLC

Simetria == Permutations(Sesiones) \cup Permutations(Diagramas) \cup Permutations(Codigos)
================================================================================
