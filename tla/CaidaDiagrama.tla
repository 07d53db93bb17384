---------------------------- MODULE CaidaDiagrama ----------------------------
(***************************************************************************)
(* What a deletion takes along, said without the cascades that do it: the  *)
(* least set of rows that contains the deleted one and everything that     *)
(* cannot stand without a row of the set.                                  *)
(***************************************************************************)
EXTENDS ModeloDiagrama

Nada == [clases |-> {}, atributos |-> {}, relaciones |-> {}, referencias |-> {}, estructuras |-> {}]
Filas(d) ==
    [clases |-> d.clases, atributos |-> DOMAIN d.atributos, relaciones |-> DOMAIN d.relaciones,
     referencias |-> DOMAIN d.referencias, estructuras |-> DOMAIN d.estructuras]

SinMateria(d, X, r) ==
    /\ RequiereMaterializacion(d.relaciones[r])
    /\ \A f \in ReferenciasDe(d, r) \ X.referencias : ~Materializa(d, d.referencias[f])
SinUso(d, X, a) ==
    /\ d.atributos[a].procedencia = "sistema_fk"
    /\ \E f \in ReferenciasCon(d, a) : d.referencias[f].fk = a
    /\ ReferenciasCon(d, a) \subseteq X.referencias
Relacionadas(nm) == {nm.relOrigen, nm.relDestino}

Caen(d, X) ==
    [clases |-> X.clases \cup {d.estructuras[n].intermedia : n \in X.estructuras},
     atributos |-> X.atributos \cup {a \in DOMAIN d.atributos :
        d.atributos[a].clase \in X.clases \/ SinUso(d, X, a)},
     relaciones |-> X.relaciones
        \cup (UNION {Relacionadas(d.estructuras[n]) : n \in X.estructuras})
        \cup {r \in DOMAIN d.relaciones :
               Extremos(d.relaciones[r]) \cap X.clases # {} \/ SinMateria(d, X, r)},
     referencias |-> X.referencias \cup {f \in DOMAIN d.referencias :
        \/ d.referencias[f].relacion \in X.relaciones
        \/ {d.referencias[f].fk, d.referencias[f].referenciado} \cap X.atributos # {}},
     estructuras |-> X.estructuras \cup {n \in DOMAIN d.estructuras :
        \/ ClasesDe(d.estructuras[n]) \cap X.clases # {}
        \/ Relacionadas(d.estructuras[n]) \cap X.relaciones # {}}]

\* Each round adds what falls with the rows of the last one, so there is
\* nothing to add after as many rounds as there are rows.
Cuantas(X) ==
    Cardinality(X.clases) + Cardinality(X.atributos) + Cardinality(X.relaciones)
        + Cardinality(X.referencias) + Cardinality(X.estructuras)
Arrastra(d, X) ==
    LET c[k \in Nat] ==
          IF k = 0 THEN X ELSE Caen(d, c[k - 1])
    IN c[Cuantas(Filas(d))]

\* e is the diagram without what row x of a table takes along.  A key
\* declared unique may be left behind: others could refer to it when its
\* reference was closed, and it is not looked at again.
SinLoDe(e, tabla, x) ==
    LET todo == Arrastra(diagrama, [Nada EXCEPT ![tabla] = {x}])
        antes == Filas(diagrama)
        quedan == Filas(e)
    IN /\ \A t \in DOMAIN Nada \ {"atributos"} : quedan[t] = antes[t] \ todo[t]
       /\ antes.atributos \ todo.atributos \subseteq quedan.atributos
       /\ \A a \in quedan.atributos \cap todo.atributos : diagrama.atributos[a].unico

\* The routes that look at no structure, where there is none to look at.
DeNingunaNm(f) == EstructurasPor(diagrama, diagrama.referencias[f].relacion) = {}

\* A deletion removes what depended on the deleted row and no other row:
\* the recursive cascades of cascadas_diagrama.py, whatever the order they
\* visit the rows in and whichever route sets them off, amount to the
\* closure of "cannot stand without".  (Of a diagram in which every row came
\* under an id of its own.)
CascadaExacta == ~pisado =>
    /\ \A c \in diagrama.clases : SinLoDe(CerrarClase(c, diagrama), "clases", c)
    /\ \A a \in {b \in DOMAIN diagrama.atributos : ~diagrama.atributos[b].llave} :
          /\ SinLoDe(CerrarAtributo(a, diagrama), "atributos", a)
          /\ (\A f \in ReferenciasCon(diagrama, a) : DeNingunaNm(f)) =>
                SinLoDe(CerrarAtributoCiego(a, diagrama), "atributos", a)
    /\ \A r \in DOMAIN diagrama.relaciones :
          SinLoDe(CerrarRelacion(r, diagrama), "relaciones", r)
    /\ \A f \in DOMAIN diagrama.referencias :
          /\ SinLoDe(CerrarReferencia(f, diagrama), "referencias", f)
          /\ DeNingunaNm(f) => SinLoDe(CerrarReferenciaCiega(f, diagrama), "referencias", f)
    /\ \A n \in DOMAIN diagrama.estructuras :
          SinLoDe(CerrarNm(n, diagrama), "estructuras", n)
==============================================================================
