----------------------------- MODULE MCAsistenteIA -----------------------------
(***************************************************************************)
(* The requests, the plans of texts and those of pictures.  They share no  *)
(* state here, so that each moves only while the other two are at rest.    *)
(*   Requests: two at a time, for one key or for none, a cascade of two    *)
(* models that open at the second failure, as they do by default, and a    *)
(* plan that may be empty or mix the kinds of step.                        *)
(*   Plans: two classes, new or of the diagram, a relation of each form,   *)
(* attributes of every role, an N:M structure whose intermediate class is  *)
(* related in its turn; every order of three operations that rename,       *)
(* create or delete; somebody who deletes a class in between.              *)
(*   Pictures: up to four classes of which two may be intermediate, lines  *)
(* of each form, read or not, attributes of every role, marked or not, on  *)
(* a diagram that is empty, has one of the classes, or has their structure.*)
(***************************************************************************)
EXTENDS AsistenteIA, ImagenIA

CONSTANTS h1, h2, k1

MCHilos  == {h1, h2}
MCClaves == {k1}
MCPlanes == {<<>>, <<"ligado", "relacion">>}

P == "p"  Q == "q"  M == "m"  N == "n"

(***************************************************************************)
(* Plans.                                                                  *)
(***************************************************************************)
Clase(n, as) == [nombre |-> n, atributos |-> as]

\* A list, its reverse and its rotations.
Ordenes(s) ==
    {s, Reverse(s)} \cup {SubSeq(s, i + 1, Len(s)) \o SubSeq(s, 1, i) : i \in 1..(Len(s) - 1)}

Caso(antes, acciones) ==
    [antes |-> antes, acciones |-> acciones, dispares |-> {}, ajena |-> FALSE]
Rels == {CreaRelacion(o, d, f) : o, d \in {P, Q}, f \in {"1N", "N1", "11", "NN", "jerarquia"}}
RelsNm == {CreaRelacion(o, d, f) : <<o, d>> \in {<<P, M>>, <<M, Q>>, <<M, M>>}, f \in {"1N", "11"}}
Attrs(cs) ==
    {CreaAtributo(c, a) : c \in cs, a \in {Id, Dato, IdDe(P), DeId(P), DeId(Q), Padre(P)}}

DosClases ==
    UNION {Ordenes(<<CreaClase(P), CreaClase(Q), r, a>>) : r \in Rels, a \in Attrs({P, Q})}
UnaNueva ==
    UNION {Ordenes(<<CreaClase(Q), r, a, b>>) : r \in Rels,
             a \in {CreaAtributo(P, DeId(Q)), CreaAtributo(Q, DeId(P))},
             b \in {CreaAtributo(Q, IdDe(P)), CreaAtributo(P, IdDe(Q)), CreaAtributo(Q, Dato)}}
Estructura ==
    UNION {Ordenes(<<CreaClase(P), CreaClase(Q), CreaNm(P, q, M), r, a>>) :
             q \in {P, Q}, r \in RelsNm, a \in Attrs({M, Generico})}
Ops == {Renombra(P, N), BorraClase(P), BorraClase(Q), BorraClase(N), CreaClase(N),
        CreaRelacion(P, Q, "1N"), CreaNm(P, Q, M), BorraNm(P, Q), BorraRelacion(Q, P),
        BorraAtributo(P, Dato), CreaAtributo(P, DeId(Q)), CreaRelacion(Q, P, "1N"),
        BorraAtributo(P, DeId(Q)), CambiaAtributo(Q, IdDe(P), DeId(P)),
        CambiaAtributo(P, Dato, Dato), NombraRelacion(P, Q)}
ConDato == Clase(P, <<Manual(Dato)>>)
MCPropuestas ==
    {Caso(<<>>, s) : s \in DosClases \cup Estructura}
    \cup {Caso(<<ConDato>>, s) : s \in UnaNueva}
    \cup {Caso(<<ConDato, Clase(Q, <<>>)>>, <<x, y, z>>) : x, y, z \in Ops}
    \cup {[Caso(<<Clase(P, <<>>), Clase(Q, <<>>)>>, <<r, a, CreaNm(P, Q, M)>>) EXCEPT
             !.ajena = TRUE] : r \in Rels, a \in Attrs({P, Q})}
    \cup {[Caso(<<Clase(P, <<>>), Clase(Q, <<Manual(IdDe(P))>>)>>, <<r, CreaClase(N)>>) EXCEPT
             !.dispares = {<<2, IdDe(P)>>}] : r \in Rels}

(***************************************************************************)
(* Pictures.                                                               *)
(***************************************************************************)
R == "r"
Vende == <<"vende">>
Vacio == [EnBlanco EXCEPT !.sig = 1]
ConP == [Vacio EXCEPT !.sig = 2, !.clases = <<Clase(P, <<Llave, Manual(Dato)>>)>>]
ConNm == PasoNm(PasoClase(PasoClase(Vacio, CreaClase(P)), CreaClase(Q)), CreaNm(P, Q, N))

Cuadro(antes, clases, relaciones) ==
    [antes |-> antes, clases |-> clases, relaciones |-> relaciones]
Leidos(otra) ==
    {Leido(Dato, "", Ausente), Leido(Id, "pk", Ausente), Leido(Vende, "fk", otra)}
    \cup {Leido(a, marca, Ausente) : a \in {IdDe(otra), DeId(otra), Vende}, marca \in {"", "fk"}}
Pocos(otra) ==
    {Leido(a, "", Ausente) : a \in {Dato, IdDe(otra), DeId(otra)}} \cup {Leido(Vende, "fk", Ausente)}
Uno(S) == {<<>>} \cup {<<a>> : a \in S}
Formas == {"1N", "N1", "11", "NN", "1?", "N?", "jerarquia", "compuesta"}
\* No class is drawn above itself.
Lados == {Trazo(P, d, f) : d \in {P, Q}, f \in Formas} \ {Trazo(P, P, "jerarquia")}
PyQ(as, bs) == <<Reconocida(P, {}, as), Reconocida(Q, {}, bs)>>

Parejas ==
    {Cuadro(antes, PyQ(as, bs), <<t>>) :
        antes \in {Vacio, ConP}, as \in Uno(Leidos(Q)), bs \in Uno(Leidos(P)), t \in Lados}
    \cup {Cuadro(Vacio, PyQ(<<a, b>>, bs), <<t>>) :
        a, b \in Pocos(Q), bs \in Uno(Pocos(P)), t \in Lados}
Sueltos ==
    {Cuadro(antes, <<Reconocida(P, {}, <<Leido(DeId(Q), "fk", Ausente)>>)>>, <<Trazo(o, d, f)>>) :
        antes \in {Vacio, ConNm}, <<o, d>> \in {<<P, Q>>, <<Q, P>>, <<P, R>>}, f \in Formas}

DeM == {<<>>, <<Leido(DeId(P), "fk", Ausente), Leido(DeId(Q), "fk", Ausente)>>,
        <<Leido(IdDe(P), "", Ausente), Leido(Dato, "", Ausente)>>,
        <<Leido(<<"cod", P, "x">>, "", Ausente), Leido(DeId(Q), "", Ausente)>>,
        <<Leido(Vende, "fk", P), Leido(DeId(P), "fk", Ausente), Leido(Dato, "", Ausente)>>,
        <<Leido(Vende, "fk", P), Leido(DeId(Q), "fk", Ausente), Leido(Dato, "", Ausente)>>}
EntrePyQ == {<<>>, <<Trazo(P, Q, "NN")>>, <<Trazo(P, Q, "1N")>>}
ConM == {<<>>, <<Trazo(P, M, "1N"), Trazo(M, Q, "N1")>>,
         <<Trazo(P, M, "1N"), Trazo(M, Q, "compuesta")>>,
         <<Trazo(M, P, "11"), Trazo(M, Q, "compuesta")>>, <<Trazo(M, P, "jerarquia")>>,
         <<Trazo(P, M, "compuesta"), Trazo(Q, M, "1N")>>}
Trios ==
    {Cuadro(antes, Append(PyQ(<<>>, bs), Reconocida(M, partes, as)), t \o u) :
        antes \in {Vacio, ConP, ConNm}, bs \in {<<>>, <<Leido(DeId(P), "fk", Ausente)>>},
        partes \in SUBSET {P, Q}, as \in DeM, t \in EntrePyQ, u \in ConM}
Cuartetos ==
    {Cuadro(Vacio, PyQ(<<>>, <<>>) \o <<Reconocida(M, partes, as),
                                       [Reconocida(R, de, bs) EXCEPT !.centrada = c]>>, t \o u) :
        partes \in {{}, {P, Q}}, as \in DeM, de \in {{}, {P}}, bs \in DeM, c \in BOOLEAN,
        t \in {<<>>, <<Trazo(P, Q, "NN")>>}, u \in ConM}
MCImagenes == Parejas \cup Sueltos \cup Trios \cup Cuartetos

(***************************************************************************)
(* Side by side.                                                           *)
(***************************************************************************)
NextUno ==
    \/ ~HayPropuesta /\ ~HayImagen /\ Next /\ UNCHANGED <<varsPlan, importacion>>
    \/ Init /\ ~HayImagen /\ NextPlan /\ UNCHANGED <<vars, importacion>>
    \/ Init /\ ~HayPropuesta /\ NextImagen /\ UNCHANGED <<vars, varsPlan>>

InitUno == Init /\ InitPlan /\ InitImagen

SpecUno ==
    /\ InitUno
    /\ [][NextUno]_<<vars, varsPlan, importacion>>
    /\ \A h \in Hilos : WF_vars(Avanza(h))
================================================================================
