------------------------------- MODULE Diagrama -------------------------------
(***************************************************************************)
(* The live rows of one diagram and what it means that they fit together.  *)
(* Source: the entities and tables of diagramas, materializacion.py and    *)
(* the checks of the creation and update use cases.                        *)
(*                                                                         *)
(* A diagram is a record: the set of its classes, and for attributes,      *)
(* relations, FK references and N:M structures a function from the ids of  *)
(* the rows that are not soft-deleted.  Names, types, positions, connector *)
(* handles and the order of the attributes are left out; the kind and the  *)
(* cardinalities of a relation are its "forma", which is all that          *)
(* materialization asks of them.                                           *)
(***************************************************************************)
EXTENDS FiniteSets

CONSTANTS Clases, Atributos, Relaciones, Referencias, Estructuras

Procedencias == {"manual", "sistema_clase", "sistema_fk"}
Formas == {"jerarquia", "N1", "1N", "11", "NN"}

Atributo   == [clase : Clases, procedencia : Procedencias, llave : BOOLEAN, unico : BOOLEAN]
Relacion   == [origen : Clases, destino : Clases, forma : Formas]
Referencia == [relacion : Relaciones, fk : Atributos, referenciado : Atributos]
Estructura == [origen : Clases, destino : Clases, intermedia : Clases,
               relOrigen : Relaciones, relDestino : Relaciones]

Vacio == [clases |-> {}, atributos |-> <<>>, relaciones |-> <<>>,
          referencias |-> <<>>, estructuras |-> <<>>]

Tabla(f, ids, filas) == DOMAIN f \subseteq ids /\ \A x \in DOMAIN f : f[x] \in filas
EsDiagrama(d) ==
    /\ DOMAIN d = DOMAIN Vacio
    /\ d.clases \subseteq Clases
    /\ Tabla(d.atributos, Atributos, Atributo)
    /\ Tabla(d.relaciones, Relaciones, Relacion)
    /\ Tabla(d.referencias, Referencias, Referencia)
    /\ Tabla(d.estructuras, Estructuras, Estructura)

\* The three ways an attribute comes to be.
Llave(c)      == [clase |-> c, procedencia |-> "sistema_clase", llave |-> TRUE, unico |-> FALSE]
Manual(c, u)  == [clase |-> c, procedencia |-> "manual", llave |-> FALSE, unico |-> u]
Foranea(c, u) == [clase |-> c, procedencia |-> "sistema_fk", llave |-> FALSE, unico |-> u]

Con(f, x, v) == [y \in DOMAIN f \cup {x} |-> IF y = x THEN v ELSE f[y]]
Sin(f, S)    == [y \in DOMAIN f \ S |-> f[y]]

(***************************************************************************)
(* Queries of the repositories.                                            *)
(***************************************************************************)
AtributosDe(d, c)    == {a \in DOMAIN d.atributos : d.atributos[a].clase = c}
Extremos(rel)        == {rel.origen, rel.destino}
\* Slip: only the relations that start at the class.
RelacionesDesde(d, c) == {r \in DOMAIN d.relaciones : d.relaciones[r].origen = c}
RelacionesDe(d, c)   == {r \in DOMAIN d.relaciones : c \in Extremos(d.relaciones[r])}
ReferenciasDe(d, r)  == {f \in DOMAIN d.referencias : d.referencias[f].relacion = r}
\* listar_por_atributo: whichever side of the reference the attribute is.
Toca(ref, a)         == a \in {ref.fk, ref.referenciado}
ReferenciasCon(d, a) == {f \in DOMAIN d.referencias : Toca(d.referencias[f], a)}
\* listar_por_diagrama of the structures joins their three classes.
ClasesDe(nm)         == {nm.origen, nm.destino, nm.intermedia}
EstructurasListadas(d) ==
    {n \in DOMAIN d.estructuras : ClasesDe(d.estructuras[n]) \subseteq d.clases}

Referenciable(at) == at.llave \/ at.unico
\* A key the system made for a relation and that no reference may point to.
ForaneaPura(at) == at.procedencia = "sistema_fk" /\ ~Referenciable(at)

(***************************************************************************)
(* Materialization: a relation needs a foreign key on the right side.      *)
(***************************************************************************)
RequiereMaterializacion(rel) == rel.forma # "NN"

LadoCorrecto(rel, cfk, cref) ==
    CASE rel.forma = "jerarquia" -> cfk = rel.origen /\ cref = rel.destino
      [] rel.forma # "jerarquia" /\ rel.origen = rel.destino -> TRUE
      [] rel.forma = "N1" /\ rel.origen # rel.destino -> cfk = rel.origen /\ cref = rel.destino
      [] rel.forma = "1N" /\ rel.origen # rel.destino -> cfk = rel.destino /\ cref = rel.origen
      [] OTHER -> cfk # cref

\* referencia_materializa_relacion, of the references whose attributes live.
Materializa(d, ref) ==
    LET rel == d.relaciones[ref.relacion]
    IN /\ {ref.fk, ref.referenciado} \subseteq DOMAIN d.atributos
       /\ LET cfk  == d.atributos[ref.fk].clase
              cref == d.atributos[ref.referenciado].clase
          IN {cfk, cref} \subseteq Extremos(rel) /\ LadoCorrecto(rel, cfk, cref)

Materializada(d, r) ==
    \/ ~RequiereMaterializacion(d.relaciones[r])
    \/ \E f \in ReferenciasDe(d, r) : Materializa(d, d.referencias[f])

(***************************************************************************)
(* A diagram that fits together.                                           *)
(***************************************************************************)
AtributoBien(d, a) == d.atributos[a].clase \in d.clases

RelacionBien(d, r) == Extremos(d.relaciones[r]) \subseteq d.clases /\ Materializada(d, r)

ReferenciaBien(d, f) ==
    LET ref == d.referencias[f]
    IN /\ ref.relacion \in DOMAIN d.relaciones
       /\ {ref.fk, ref.referenciado} \subseteq DOMAIN d.atributos
       /\ {d.atributos[ref.fk].clase, d.atributos[ref.referenciado].clase}
             \subseteq Extremos(d.relaciones[ref.relacion])
       /\ ~ForaneaPura(d.atributos[ref.referenciado])

EstructuraBien(d, n) ==
    LET nm == d.estructuras[n]
    IN /\ ClasesDe(nm) \subseteq d.clases
       /\ {nm.relOrigen, nm.relDestino} \subseteq DOMAIN d.relaciones
       /\ Extremos(d.relaciones[nm.relOrigen]) = {nm.origen, nm.intermedia}
       /\ Extremos(d.relaciones[nm.relDestino]) = {nm.destino, nm.intermedia}

\* A foreign key made for a relation, and that nothing can refer to, still
\* is the foreign key of something.
ForaneaBien(d, a) ==
    ForaneaPura(d.atributos[a]) =>
        \E f \in DOMAIN d.referencias : d.referencias[f].fk = a

Integro(d) ==
    /\ \A a \in DOMAIN d.atributos   : AtributoBien(d, a) /\ ForaneaBien(d, a)
    /\ \A r \in DOMAIN d.relaciones  : RelacionBien(d, r)
    /\ \A f \in DOMAIN d.referencias : ReferenciaBien(d, f)
    /\ \A n \in DOMAIN d.estructuras : EstructuraBien(d, n)
===============================================================================
