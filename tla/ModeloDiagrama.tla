---------------------------- MODULE ModeloDiagrama ----------------------------
(***************************************************************************)
(* The mutations of one diagram, one after another, and the cascades their *)
(* deletions set off.                                                      *)
(* Source: the use cases of clase, atributo, relacion, referencia_fk and   *)
(* estructura_relacion_nm, the branches of procesar_operacion_diagrama.py  *)
(* that do their work, and cascadas_diagrama.py.                           *)
(*                                                                         *)
(* Each operation is one transaction: either all its writes are committed  *)
(* or none, so a refusal is a step not taken.  Ids are UUIDs the clients   *)
(* draw: a drawn id is one that is not alive, and an id freed by a         *)
(* deletion stands for the next one drawn.  To draw fewer of them, the id  *)
(* of the key of a class goes with that of the class, that of an attribute *)
(* made for a reference with that of the reference, and those of the rows  *)
(* of a structure with that of the structure.                              *)
(*                                                                         *)
(* Nothing makes a client draw, and the creations look few ids up: those   *)
(* that write over a row, or over a deleted one, are the operations of     *)
(* Pisar.  A row of another diagram is to this one as a deleted row; what  *)
(* that other diagram loses is left out.  Bounds: of a request only one id *)
(* is not new, and the diagram is followed until the first such request.   *)
(***************************************************************************)
EXTENDS Diagrama, Naturals, FiniteSetsExt

CONSTANTS
    LlaveDe,        \* the id of the key a class is born with
    ForaneaDe,      \* the id of the attribute made for a reference
    FilasDe,        \* the ids of the rows an N:M structure is made of
    Manuales,       \* the ids of the attributes the users make
    FormasPedidas,  \* forms of relation the clients ask for
    MaxManuales,    \* bound on the attributes of users' making, alive at once
    FormasJuntoNm,  \* bound: the forms asked for beside an N:M structure
    ReferenciasJuntoNm, \* bound: the references used beside an N:M structure
    CiegasANm,      \* whether the blind routes are used on the rows of a structure
    Nulo            \* None

FilasNm == [intermedia : Clases, relOrigen : Relaciones, relDestino : Relaciones,
            refOrigen : Referencias, refDestino : Referencias]

\* Rows are finitely many, and ids are drawn for one row each.
ASSUME IdsAssumption ==
    /\ IsFiniteSet(Clases) /\ IsFiniteSet(Atributos) /\ IsFiniteSet(Relaciones)
    /\ IsFiniteSet(Referencias) /\ IsFiniteSet(Estructuras)
    /\ LlaveDe \in [Clases -> Atributos] /\ ForaneaDe \in [Referencias -> Atributos]
    /\ \A f, g \in Referencias : ForaneaDe[f] = ForaneaDe[g] => f = g
    /\ \A c \in Clases, f \in Referencias : LlaveDe[c] # ForaneaDe[f]
    /\ FilasDe \in [Estructuras -> FilasNm] /\ Manuales \subseteq Atributos
    /\ \A n \in Estructuras : /\ FilasDe[n].relOrigen # FilasDe[n].relDestino
                              /\ FilasDe[n].refOrigen # FilasDe[n].refDestino
ASSUME CotasAssumption ==
    FormasPedidas \subseteq Formas /\ ReferenciasJuntoNm \subseteq Referencias

VARIABLES
    diagrama,
    pisado  \* whether a creation came under an id that was not drawn

Init == diagrama = Vacio /\ pisado = FALSE

(***************************************************************************)
(* Cascades.  The service marks a row before it deletes what depends on    *)
(* it; nothing it reads in between tells a marked row from a deleted one,  *)
(* so rows are deleted here when they are marked.                          *)
(***************************************************************************)
SinReferencia(d, f) == [d EXCEPT !.referencias = Sin(@, {f})]
SinAtributo(d, a)   == [d EXCEPT !.atributos = Sin(@, {a})]

\* Slip: the keys made for a reference are never cleaned up.
SinLimpieza(d, a) == d

\* _limpiar_atributo_fk_si_exclusivo
LimpiarFk(d, a) ==
    IF /\ a \in DOMAIN d.atributos
       /\ d.atributos[a].procedencia = "sistema_fk"
       /\ ReferenciasCon(d, a) = {}
    THEN SinAtributo(d, a) ELSE d

QuitarReferencia(f, d) == LimpiarFk(SinReferencia(d, f), d.referencias[f].fk)

\* A relation with its references and the keys only they used.
QuitarRelacion(r, d) ==
    LET sinRefs == FoldSet(QuitarReferencia, d, ReferenciasDe(d, r))
    IN [sinRefs EXCEPT !.relaciones = Sin(@, {r})]

\* A class with its attributes and the references that touch them.
QuitarClase(c, d) ==
    LET attrs == AtributosDe(d, c)
        refs  == UNION {ReferenciasCon(d, a) : a \in attrs}
    IN [d EXCEPT !.clases = @ \ {c},
                 !.atributos = Sin(@, attrs),
                 !.referencias = Sin(@, refs)]

EstructurasPor(d, r) ==
    {n \in EstructurasListadas(d) :
        r \in {d.estructuras[n].relOrigen, d.estructuras[n].relDestino}}

\* cerrar_por_relacion: a relation of an N:M structure closes all of it.
\* The two cascades call one another; "cierre" is what the inner call does.
CerrarRelacionCon(cierre, r, d) ==
    CASE r \notin DOMAIN d.relaciones -> d
      [] r \in DOMAIN d.relaciones /\ EstructurasPor(d, r) # {} ->
           cierre[CHOOSE n \in EstructurasPor(d, r) : TRUE][d]
      [] OTHER -> QuitarRelacion(r, d)

\* cerrar_por_estructura_nm: its two relations, the others that came to
\* touch its intermediate class, and the class.
CerrarNmCon(cierre, n, d) ==
    IF n \notin DOMAIN d.estructuras THEN d ELSE
    LET nm == d.estructuras[n]
        sinNm == [d EXCEPT !.estructuras = Sin(@, {n})]
        sinPropias == FoldSet(QuitarRelacion, sinNm, {nm.relOrigen, nm.relDestino})
        sinAjenas == FoldSet(LAMBDA r, e : CerrarRelacionCon(cierre, r, e),
                             sinPropias, RelacionesDe(sinPropias, nm.intermedia))
    IN QuitarClase(nm.intermedia, sinAjenas)

\* What a cascade may leave of a table, and of a diagram.
Trozos(f) == {Sin(f, S) : S \in SUBSET DOMAIN f}
Restos(d) ==
    [clases : SUBSET d.clases, atributos : Trozos(d.atributos),
     relaciones : Trozos(d.relaciones), referencias : Trozos(d.referencias),
     estructuras : Trozos(d.estructuras)]

\* The calls nest no deeper than there are structures, for each closes one
\* that the next does not find.
Cierre(d) ==
    LET c[k \in Nat] ==
          [n \in DOMAIN d.estructuras |-> [e \in Restos(d) |->
              IF k = 0 THEN e ELSE CerrarNmCon(c[k - 1], n, e)]]
    IN c[Cardinality(DOMAIN d.estructuras)]

CerrarNm(n, d) == CerrarNmCon(Cierre(d), n, d)
CerrarRelacion(r, d) == CerrarRelacionCon(Cierre(d), r, d)

\* cerrar_por_clase
CerrarClase(c, d) ==
    LET suyas == {n \in EstructurasListadas(d) : c \in ClasesDe(d.estructuras[n])}
        sinNm == FoldSet(CerrarNm, d, suyas)
        sinRel == FoldSet(CerrarRelacion, sinNm, RelacionesDe(sinNm, c))
    IN QuitarClase(c, sinRel)

\* Slip: the relation goes with any of its references.
CerrarConRelacion(f, d) ==
    IF f \notin DOMAIN d.referencias THEN d
    ELSE CerrarRelacion(d.referencias[f].relacion, QuitarReferencia(f, d))

\* cerrar_por_referencia_fk: the relation goes too if it was all it had.
CerrarReferencia(f, d) ==
    IF f \notin DOMAIN d.referencias THEN d ELSE
    LET r == d.referencias[f].relacion
        sinRef == QuitarReferencia(f, d)
    IN IF r \in DOMAIN d.relaciones /\ ~Materializada(sinRef, r)
       THEN CerrarRelacion(r, sinRef) ELSE sinRef

\* cerrar_por_atributo
CerrarAtributo(a, d) ==
    SinAtributo(FoldSet(CerrarReferencia, d, ReferenciasCon(d, a)), a)

\* The same two where nobody hands over the repository of the structures:
\* the relation goes and the structure it was part of stays.
CerrarReferenciaCiega(f, d) ==
    LET r == d.referencias[f].relacion
        sinRef == QuitarReferencia(f, d)
    IN IF Materializada(sinRef, r) THEN sinRef ELSE QuitarRelacion(r, sinRef)

SiSigue(f, d) == IF f \in DOMAIN d.referencias THEN CerrarReferenciaCiega(f, d) ELSE d
CerrarAtributoCiego(a, d) ==
    SinAtributo(FoldSet(SiSigue, d, ReferenciasCon(d, a)), a)

(***************************************************************************)
(* Operations.                                                             *)
(***************************************************************************)
AlgunoDe(S) == CHOOSE x \in S : TRUE

Vivo(a) == a \in DOMAIN diagrama.atributos
DeEstructuras(campos) == {FilasDe[n][k] : n \in Estructuras, k \in campos}
ClasesLibres ==
    {c \in Clases \ (diagrama.clases \cup DeEstructuras({"intermedia"})) : ~Vivo(LlaveDe[c])}
RelacionesLibres ==
    Relaciones \ (DOMAIN diagrama.relaciones \cup DeEstructuras({"relOrigen", "relDestino"}))
HayNm == DOMAIN diagrama.estructuras # {}
ReferenciasLibres ==
    {f \in (IF HayNm THEN ReferenciasJuntoNm ELSE Referencias)
            \ (DOMAIN diagrama.referencias \cup DeEstructuras({"refOrigen", "refDestino"})) :
        ~Vivo(ForaneaDe[f])}
ManualesLibres == {a \in Manuales : ~Vivo(a)}
EstructurasLibres ==
    {n \in Estructuras \ DOMAIN diagrama.estructuras :
        LET i == FilasDe[n]
        IN /\ i.intermedia \notin diagrama.clases /\ ~Vivo(LlaveDe[i.intermedia])
           /\ \A f \in {i.refOrigen, i.refDestino} :
                f \notin DOMAIN diagrama.referencias /\ ~Vivo(ForaneaDe[f])
           /\ {i.relOrigen, i.relDestino} \cap DOMAIN diagrama.relaciones = {}}

\* What the bounds leave to ask for beside a structure, and with what a
\* structure may come in.
Pedibles == IF HayNm THEN FormasJuntoNm ELSE FormasPedidas
CabeNm ==
    /\ \A r \in DOMAIN diagrama.relaciones : diagrama.relaciones[r].forma \in FormasJuntoNm
    /\ \A f \in Referencias \ ReferenciasJuntoNm :
          f \notin DOMAIN diagrama.referencias /\ ~Vivo(ForaneaDe[f])

CabeManual ==
    Cardinality({a \in DOMAIN diagrama.atributos :
                   diagrama.atributos[a].procedencia = "manual"}) < MaxManuales

\* A class is born with its primary key.
CrearClase ==
    /\ ClasesLibres # {}
    /\ LET c == AlgunoDe(ClasesLibres)
       IN diagrama' = [diagrama EXCEPT !.clases = @ \cup {c},
                                      !.atributos = Con(@, LlaveDe[c], Llave(c))]

CrearAtributo(c, u) ==
    /\ c \in diagrama.clases /\ ManualesLibres # {} /\ CabeManual
    /\ diagrama' = [diagrama EXCEPT
         !.atributos = Con(@, AlgunoDe(ManualesLibres), Manual(c, u))]

\* CREAR_ATRIBUTO of the facade does not look the id up, and guardar writes
\* over the row that has it, wherever it is; the class of a row is not
\* among the fields it writes.
RecrearAtributo(a, u) ==
    /\ a \in DOMAIN diagrama.atributos
    /\ diagrama.atributos[a].procedencia = "manual" \/ CabeManual
    /\ diagrama' = [diagrama EXCEPT !.atributos[a] = Manual(@.clase, u)]

\* Slip: es_unico is stored as it came, None included.
ActualizarSinBool(a, unico) ==
    /\ a \in DOMAIN diagrama.atributos
    /\ diagrama.atributos[a].procedencia = "manual"
    /\ diagrama' = [diagrama EXCEPT !.atributos[a].unico = unico]

\* A field sent as null passes the validation, and es_unico becomes False.
ActualizarAtributo(a, unico) ==
    /\ a \in DOMAIN diagrama.atributos
    /\ diagrama.atributos[a].procedencia = "manual"
    /\ unico # Nulo => ReferenciasCon(diagrama, a) = {}
    /\ diagrama' = [diagrama EXCEPT !.atributos[a].unico = (unico = TRUE)]

\* ELIMINAR_ATRIBUTO of the facade takes the keys made for a relation too,
\* which the REST route and the assistant protect.
EliminarAtributo(a) ==
    /\ a \in DOMAIN diagrama.atributos
    /\ ~diagrama.atributos[a].llave
    /\ diagrama' = CerrarAtributo(a, diagrama)

\* The REST routes that delete an attribute or a reference never look at the
\* structures.
Visible(f) == CiegasANm \/ EstructurasPor(diagrama, diagrama.referencias[f].relacion) = {}

EliminarAtributoApi(a) ==
    /\ a \in DOMAIN diagrama.atributos
    /\ diagrama.atributos[a].procedencia = "manual"
    /\ \A f \in ReferenciasCon(diagrama, a) : Visible(f)
    /\ diagrama' = CerrarAtributoCiego(a, diagrama)

\* What CrearReferenciaFK asks of a reference in d.
Admisible(d, ref) ==
    /\ ref.relacion \in DOMAIN d.relaciones
    /\ {ref.fk, ref.referenciado} \subseteq DOMAIN d.atributos
    /\ \A f \in ReferenciasDe(d, ref.relacion) : d.referencias[f] # ref
    /\ {d.atributos[ref.fk].clase, d.atributos[ref.referenciado].clase}
          \subseteq Extremos(d.relaciones[ref.relacion])
    /\ Referenciable(d.atributos[ref.referenciado])

CrearReferencia(ref) ==
    /\ ReferenciasLibres # {}
    /\ Admisible(diagrama, ref)
    /\ diagrama' = [diagrama EXCEPT
         !.referencias = Con(@, AlgunoDe(ReferenciasLibres), ref)]

\* A relation comes with the reference that materializes it, over an
\* attribute that exists or one made for it; or with none, if it needs none.
\* The reference may be "borrada": saved under the id of a deleted one, and
\* checked as if it were there.
CrearRelacionCon(rel, borrada) ==
    /\ RelacionesLibres # {} /\ rel.forma \in Pedibles
    /\ Extremos(rel) \subseteq diagrama.clases
    /\ rel.origen = rel.destino => rel.forma # "jerarquia"
    /\ LET r == AlgunoDe(RelacionesLibres)
           conRel == [diagrama EXCEPT !.relaciones = Con(@, r, rel)]
           ConReferencia(d, f, fk, referenciado) ==
               LET ref == [relacion |-> r, fk |-> fk, referenciado |-> referenciado]
                   conRef == [d EXCEPT !.referencias = Con(@, f, ref)]
               IN /\ Admisible(d, ref) /\ Materializada(conRef, r)
                  /\ diagrama' = IF borrada THEN d ELSE conRef
       IN \/ ~borrada /\ Materializada(conRel, r) /\ diagrama' = conRel
          \/ /\ ReferenciasLibres # {}
             /\ LET f == AlgunoDe(ReferenciasLibres)
                IN \E ref \in DOMAIN diagrama.atributos :
                     \/ \E fk \in DOMAIN diagrama.atributos :
                          ConReferencia(conRel, f, fk, ref)
                     \/ \E c \in Extremos(rel), u \in BOOLEAN :
                          LET conFk == [conRel EXCEPT
                                  !.atributos = Con(@, ForaneaDe[f], Foranea(c, u))]
                          IN ConReferencia(conFk, f, ForaneaDe[f], ref)

CrearRelacion(rel) == CrearRelacionCon(rel, FALSE)

EliminarReferencia(f) ==
    /\ f \in DOMAIN diagrama.referencias /\ Visible(f)
    /\ diagrama' = CerrarReferenciaCiega(f, diagrama)

EliminarRelacion(r) ==
    /\ r \in DOMAIN diagrama.relaciones
    /\ diagrama' = CerrarRelacion(r, diagrama)

EliminarClase(c) ==
    /\ c \in diagrama.clases
    /\ diagrama' = CerrarClase(c, diagrama)

\* guardar: a row under an id that is in use rewrites that one, which stays
\* with the owner it has.
Guardar(f, x, fila, duenno) ==
    Con(f, x, IF x \in DOMAIN f THEN [fila EXCEPT ![duenno] = f[x][duenno]] ELSE fila)

IdsNm(n) ==
    LET i == FilasDe[n]
    IN [intermedia |-> i.intermedia, inicial |-> LlaveDe[i.intermedia],
        fkOrigen |-> ForaneaDe[i.refOrigen], fkDestino |-> ForaneaDe[i.refDestino],
        relOrigen |-> i.relOrigen, relDestino |-> i.relDestino,
        refOrigen |-> i.refOrigen, refDestino |-> i.refDestino]

\* An intermediate class with its key and a foreign key to each side.
ConEstructura(n, ids, ro, rd) ==
    LET i == ids.intermedia
        origen == diagrama.atributos[ro].clase
        destino == diagrama.atributos[rd].clase
        conLlave == Guardar(diagrama.atributos, ids.inicial, Llave(i), "clase")
        conFkO == Guardar(conLlave, ids.fkOrigen, Foranea(i, FALSE), "clase")
        HaciaIntermedia(c) == [origen |-> c, destino |-> i, forma |-> "1N"]
        refO == [relacion |-> ids.relOrigen, fk |-> ids.fkOrigen, referenciado |-> ro]
        refD == [relacion |-> ids.relDestino, fk |-> ids.fkDestino, referenciado |-> rd]
    IN [clases |-> diagrama.clases \cup {i},
        atributos |-> Guardar(conFkO, ids.fkDestino, Foranea(i, FALSE), "clase"),
        relaciones |-> Con(Con(diagrama.relaciones, ids.relOrigen, HaciaIntermedia(origen)),
                           ids.relDestino, HaciaIntermedia(destino)),
        referencias |-> Guardar(Guardar(diagrama.referencias, ids.refOrigen, refO, "relacion"),
                                ids.refDestino, refD, "relacion"),
        estructuras |-> Con(diagrama.estructuras, n,
            [origen |-> origen, destino |-> destino, intermedia |-> i,
             relOrigen |-> ids.relOrigen, relDestino |-> ids.relDestino])]

PuedeNm(ro, rd) ==
    /\ {ro, rd} \subseteq DOMAIN diagrama.atributos
    /\ Referenciable(diagrama.atributos[ro]) /\ Referenciable(diagrama.atributos[rd])
    /\ EstructurasLibres # {} /\ CabeNm

CrearEstructuraNm(ro, rd) ==
    /\ PuedeNm(ro, rd)
    /\ LET n == AlgunoDe(EstructurasLibres)
       IN diagrama' = ConEstructura(n, IdsNm(n), ro, rd)

EliminarEstructuraNm(n) ==
    /\ n \in DOMAIN diagrama.estructuras
    /\ diagrama' = CerrarNm(n, diagrama)

(***************************************************************************)
(* Creations under an id that is in use, or that was of a deleted row,     *)
(* which guardar finds and does not bring back.                            *)
(***************************************************************************)
\* CREAR_CLASE of the facade looks up the class, if it lives, and not its key.
PisarClase ==
    /\ ClasesLibres # {}
    /\ LET c == AlgunoDe(ClasesLibres)
           conClase == [diagrama EXCEPT !.clases = @ \cup {c}]
       IN \/ \E a \in DOMAIN diagrama.atributos :
               diagrama' = [conClase EXCEPT !.atributos = Guardar(@, a, Llave(c), "clase")]
          \/ diagrama' = conClase
          \/ diagrama' = [diagrama EXCEPT !.atributos = Con(@, LlaveDe[c], Llave(c))]

PisarRelacion(rel) == CrearRelacionCon(rel, TRUE)

\* CREAR_ESTRUCTURA_NM looks up the intermediate class, if it lives, and none
\* of the other rows.
EnTabla ==
    [intermedia |-> "clases", inicial |-> "atributos", fkOrigen |-> "atributos",
     fkDestino |-> "atributos", relOrigen |-> "relaciones", relDestino |-> "relaciones",
     refOrigen |-> "referencias", refDestino |-> "referencias"]
SinFila(d, tabla, x) ==
    [d EXCEPT ![tabla] = IF tabla = "clases" THEN @ \ {x} ELSE Sin(@, {x})]

PisarEstructuraNm(ro, rd) ==
    /\ PuedeNm(ro, rd)
    /\ LET n == AlgunoDe(EstructurasLibres)
           ids == IdsNm(n)
           EnUso(k) == DOMAIN diagrama[EnTabla[k]]
                       \cup {ids[j] : j \in {i \in DOMAIN ids : EnTabla[i] = EnTabla[k]}}
       IN \/ \E k \in DOMAIN ids \ {"intermedia"} : \E x \in EnUso(k) \ {ids[k]} :
               diagrama' = ConEstructura(n, [ids EXCEPT ![k] = x], ro, rd)
          \/ \E k \in DOMAIN ids :
               diagrama' = SinFila(ConEstructura(n, ids, ro, rd), EnTabla[k], ids[k])

RelacionPedida == [origen : Clases, destino : Clases, forma : FormasPedidas]

Mutacion ==
    \/ CrearClase
    \/ \E c \in Clases, u \in BOOLEAN : CrearAtributo(c, u)
    \/ \E a \in Atributos, u \in BOOLEAN \cup {Nulo} : ActualizarAtributo(a, u)
    \/ \E a \in Atributos, u \in BOOLEAN : RecrearAtributo(a, u)
    \/ \E a \in Atributos : EliminarAtributo(a) \/ EliminarAtributoApi(a)
    \/ \E ref \in Referencia : CrearReferencia(ref)
    \/ \E f \in Referencias : EliminarReferencia(f)
    \/ \E rel \in RelacionPedida : CrearRelacion(rel)
    \/ \E r \in Relaciones : EliminarRelacion(r)
    \/ \E c \in Clases : EliminarClase(c)
    \/ \E ro, rd \in Atributos : CrearEstructuraNm(ro, rd)
    \/ \E n \in Estructuras : EliminarEstructuraNm(n)

Pisar ==
    \/ PisarClase
    \/ \E rel \in RelacionPedida : PisarRelacion(rel)
    \/ \E ro, rd \in Atributos : PisarEstructuraNm(ro, rd)

Next ==
    /\ ~pisado
    /\ \/ Mutacion /\ UNCHANGED pisado
       \/ Pisar /\ pisado' = TRUE

vars == <<diagrama, pisado>>

Spec == Init /\ [][Next]_vars

(***************************************************************************)
(* What the operations promise.                                            *)
(***************************************************************************)
TypeOK == EsDiagrama(diagrama) /\ pisado \in BOOLEAN

\* Every step adds what fits, rewrites in place or takes along all that
\* hung from what it takes, but for the creations under ids that were not
\* drawn, which take nothing away and give no row to another owner: the
\* operations implement DiagramaIntegro.
Abstracto == INSTANCE DiagramaIntegro WITH d <- diagrama
EsDiagramaIntegro == Abstracto!Spec

\* A relation, a reference or a structure never points to something that
\* was deleted, no relation loses the key that materializes it, and no key
\* made for a relation is left without it, however the deletions of
\* cascadas_diagrama.py call one another, as long as no creation came under
\* an id that was not drawn.
Integridad == ~pisado => Integro(diagrama)

\* cascadas_diagrama.py:113: "Si esta relación forma parte de una estructura
\* N:M, cerrar toda la estructura."  No structure outlives its relations.
EstructurasEnteras ==
    ~pisado => \A n \in DOMAIN diagrama.estructuras : EstructuraBien(diagrama, n)

\* validaciones.py:107: "Los atributos FK o con referencias activas solo
\* permiten modificar su nombre u orden."  A modification through the
\* update of the attribute must leave alone whether it is unique, which is
\* what lets others refer to it.
ReferenciadosIntactos ==
    [][\A a \in Atributos, u \in BOOLEAN \cup {Nulo} :
         ActualizarAtributo(a, u) /\ ReferenciasCon(diagrama, a) # {}
             => diagrama'.atributos[a].unico = diagrama.atributos[a].unico]_diagrama
===============================================================================
