---------------------------- MODULE MCGestorSalas ----------------------------
(* A small room: two tabs of ana and one of bruno, two classes at most.     *)
EXTENDS GestorSalas, TLC

CONSTANTS ana1, ana2, bruno1, ana, bruno, factura, cliente

MCConexiones == {ana1, ana2, bruno1}
MCUnaPestana  == {ana1, bruno1}
MCUsuarios   == {ana, bruno}
MCUsuarioDe  == (ana1 :> ana) @@ (ana2 :> ana) @@ (bruno1 :> bruno)
MCUsuarioDeUna == (ana1 :> ana) @@ (bruno1 :> bruno)
MCUnaClase   == {factura}
MCDosClases  == {factura, cliente}
MCTodosLentos == MCConexiones
MCBrunoLento  == {bruno1}
MCNadieLento  == {}
\* The tabs of one user are interchangeable.
MCPestanas == Permutations({ana1, ana2})
=============================================================================
