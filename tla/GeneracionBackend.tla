--------------------------- MODULE GeneracionBackend ---------------------------
(***************************************************************************)
(* A diagram read, validated and turned into the entities of a backend     *)
(* while somebody changes it.                                              *)
(* Source: obtener_diagrama.py, obtener_diagrama_generable.py,             *)
(* validador_diagrama_generable.py, normalizador_modelo_generado.py and    *)
(* the order in which generar_backend.py calls them.                       *)
(*                                                                         *)
(* The five queries of the reading run one after another at READ           *)
(* COMMITTED: each sees what is confirmed when it begins.  Here one        *)
(* mutation of ModeloDiagrama is confirmed before any of them or between   *)
(* two.  Names, types and lengths, which the validator also checks, are    *)
(* not part of Diagrama.                                                   *)
(***************************************************************************)
EXTENDS ModeloDiagrama, Sequences

\* Slip: the relations are read before their references.
RelacionesPrimero == <<"atributos", "clases", "relaciones", "referencias", "estructuras">>

\* ObtenerDiagramaCompleto: what it reads, in its order.
Consultas == <<"atributos", "clases", "referencias", "relaciones", "estructuras">>

De(f, S) == [x \in S |-> f[x]]

\* listar_por_diagrama of each table: the rows alive, of live rows.
Listado(d) ==
    [clases      |-> d.clases,
     atributos   |-> De(d.atributos, UNION {AtributosDe(d, c) : c \in d.clases}),
     relaciones  |-> d.relaciones,
     referencias |-> De(d.referencias, UNION {ReferenciasDe(d, r) : r \in DOMAIN d.relaciones}),
     estructuras |-> De(d.estructuras, EstructurasListadas(d))]

\* The first i queries see the diagram before the mutation, the others after.
Lectura(antes, ahora, i) ==
    LET temprano == {Consultas[k] : k \in 1 .. i}
    IN [t \in DOMAIN Vacio |-> IF t \in temprano THEN antes[t] ELSE ahora[t]]

\* _convertir_a_generable: attributes hang from classes and references from
\* relations, and a structure whose classes are not all there is dropped.
Generable(l) ==
    [l EXCEPT
        !.atributos = De(@, {a \in DOMAIN @ : @[a].clase \in l.clases}),
        !.referencias = De(@, {f \in DOMAIN @ : @[f].relacion \in DOMAIN l.relaciones}),
        !.estructuras = De(@, {n \in DOMAIN @ : ClasesDe(@[n]) \subseteq l.clases})]

(***************************************************************************)
(* ValidadorDiagramaGenerable.                                             *)
(***************************************************************************)
TieneLlave(g, c) == \E a \in AtributosDe(g, c) : g.atributos[a].llave

Valido(g) ==
    /\ g.clases # {}
    /\ \A c \in g.clases : TieneLlave(g, c)
    /\ \A r \in DOMAIN g.relaciones :
          /\ Extremos(g.relaciones[r]) \subseteq g.clases
          /\ \A f \in ReferenciasDe(g, r) :
                {g.referencias[f].fk, g.referencias[f].referenciado} \subseteq DOMAIN g.atributos
    /\ \A n \in DOMAIN g.estructuras : ClasesDe(g.estructuras[n]) \subseteq g.clases

(***************************************************************************)
(* NormalizadorModeloGenerado: a relation with one side many and the other *)
(* one becomes a ManyToOne of the many side.  Its column is the key of the *)
(* first reference, in the order of the database, when the class has it,   *)
(* and otherwise a name made up from the other class.  What it makes of a  *)
(* hierarchy hangs from cardinalities that Diagrama leaves out.            *)
(***************************************************************************)
Asociada(rel)  == rel.forma \in {"N1", "1N"}
Portadora(rel) == IF rel.forma = "N1" THEN rel.origen ELSE rel.destino

Columnas(g, r) ==
    {g.referencias[f].fk : f \in ReferenciasDe(g, r)}
    \cap AtributosDe(g, Portadora(g.relaciones[r]))

(***************************************************************************)
(* What a backend may be generated from.                                   *)
(***************************************************************************)
AsociacionBien(g, r) == Asociada(g.relaciones[r]) => Columnas(g, r) # {}

\* Whatever is confirmed between two of the queries, a reading the validator
\* lets through is whole: every structure has its relations, every reference
\* its attributes, and every relation the key that materializes it, held by the
\* class that gets the association.  The order of the queries, the structures
\* dropped and the checks of the validator bring this about together.  Only a
\* relation born during the reading may be read without its references; and
\* the mutation is no creation under an id that was not drawn.  (The bounds
\* that range over a single value only name it.)
GeneracionEntera ==
    [][~pisado' =>
       \A antes \in {Listado(diagrama)}, ahora \in {Listado(diagrama')} :
         \A g \in {Generable(Lectura(antes, ahora, i)) : i \in 1 .. Len(Consultas) - 1} :
            Valido(g) =>
                /\ \A r \in DOMAIN g.relaciones \cap DOMAIN diagrama.relaciones :
                      RelacionBien(g, r) /\ AsociacionBien(g, r)
                /\ \A f \in DOMAIN g.referencias : ReferenciaBien(g, f)
                /\ \A n \in DOMAIN g.estructuras : EstructuraBien(g, n)]_diagrama
================================================================================
