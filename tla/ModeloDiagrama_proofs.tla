------------------------- MODULE ModeloDiagrama_proofs -------------------------
(***************************************************************************)
(* However many rows, and however structures share classes, relations and  *)
(* references, the operations of a diagram keep it whole and implement     *)
(* DiagramaIntegro.                                                        *)
(*                                                                         *)
(* The argument is about what a cascade leaves.  "Restos" are the pieces   *)
(* of a diagram: tables with fewer of the same rows.  A piece may miss,    *)
(* in between, the materialization of the relations that the cascade is    *)
(* about to close ("IntegroSalvo").  One lemma, "Recortar", says what a    *)
(* piece needs to fit together; each step of a cascade is shown to give    *)
(* it, each loop over a set of rows is an induction on the rows done       *)
(* ("Pliegue"), and the two cascades that call one another are an          *)
(* induction on the structures left ("Recursion"), for each call closes    *)
(* one before the next is made.  The loops close a structure's own two     *)
(* relations without asking whose they are, which is right because no      *)
(* relation is of two structures ("RelPropias", part of the invariant).    *)
(*                                                                         *)
(* Then a diagram read query by query while it changes, and the backend    *)
(* that is generated from what was read ("GeneracionFiel"); and what the   *)
(* clients are told of each mutation ("AlDiaSiempre"), which rests on no   *)
(* cascade taking a reference of a relation that stays ("RefsSiguen").     *)
(*                                                                         *)
(* Last, that a cascade takes what it ought to and nothing else            *)
(* ("Exacta").  Every closed set of rows that has the row it began with    *)
(* has all that it took ("Toma"); what it took is itself closed, because   *)
(* what it left is whole; and the closure, which is reached by rounds, is  *)
(* reached in as many as there are rows ("ArrastraBien").                  *)
(***************************************************************************)
EXTENDS CaidaDiagrama, GeneracionBackend, EventosDiagrama, FiniteSetTheorems, TLAPS

(***************************************************************************)
(* The folds of the cascades, each an instance of Pliegue.                 *)
(***************************************************************************)
PorReferencia(p, f, d) == QuitarReferencia(f, d)
PorRelacion(p, r, d)   == QuitarRelacion(r, d)
PlRef == INSTANCE Pliegue WITH Op <- PorReferencia
PlRel == INSTANCE Pliegue WITH Op <- PorRelacion
PorNm(p, n, d)         == CerrarNm(n, d)
PorCierre(p, r, d)     == CerrarRelacion(r, d)
PorFk(p, f, d)         == CerrarReferencia(f, d)
PorCiega(p, f, d)      == SiSigue(f, d)
PlCon == INSTANCE Pliegue WITH Op <- CerrarRelacionCon
PlNm == INSTANCE Pliegue WITH Op <- PorNm
PlCie == INSTANCE Pliegue WITH Op <- PorCierre
PlFk == INSTANCE Pliegue WITH Op <- PorFk
PlCiega == INSTANCE Pliegue WITH Op <- PorCiega

\* The diagrams, as functions and records: EsDiagrama, and nothing else.
Tablas(ids, filas) == UNION {[S -> filas] : S \in SUBSET ids}
Diagramas ==
    [clases : SUBSET Clases, atributos : Tablas(Atributos, Atributo),
     relaciones : Tablas(Relaciones, Relacion), referencias : Tablas(Referencias, Referencia),
     estructuras : Tablas(Estructuras, Estructura)]

(***************************************************************************)
(* What is left of a diagram.                                              *)
(***************************************************************************)
\* A table is a function from the ids of its rows.
LEMMA TablaDe ==
    ASSUME NEW ids, NEW filas, NEW f \in Tablas(ids, filas)
    PROVE  f \in [DOMAIN f -> filas] /\ DOMAIN f \in SUBSET ids
  BY DEF Tablas

\* Without some rows it is a piece of what it was.
LEMMA TablaSin ==
    ASSUME NEW ids, NEW filas, NEW f \in Tablas(ids, filas), NEW S
    PROVE  /\ Sin(f, S) \in Tablas(ids, filas)
           /\ DOMAIN Sin(f, S) = DOMAIN f \ S
           /\ \A x \in DOMAIN f \ S : Sin(f, S)[x] = f[x]
           /\ Sin(f, S) \in Trozos(f)
<1>1. f \in [DOMAIN f -> filas] /\ DOMAIN f \in SUBSET ids
  BY TablaDe
<1>2. Sin(f, S) \in [DOMAIN f \ S -> filas]
  BY <1>1 DEF Sin
<1>3. Sin(f, S) = Sin(f, S \cap DOMAIN f)
  BY DEF Sin
<1>. QED BY <1>1, <1>2, <1>3 DEF Tablas, Trozos, Sin

\* A piece of a table is a table, and says what the table says.
LEMMA TrozoDe ==
    ASSUME NEW ids, NEW filas, NEW f \in Tablas(ids, filas), NEW g \in Trozos(f)
    PROVE  /\ g \in Tablas(ids, filas)
           /\ DOMAIN g \subseteq DOMAIN f
           /\ \A x \in DOMAIN g : g[x] = f[x]
<1>1. PICK S \in SUBSET DOMAIN f : g = Sin(f, S)
  BY DEF Trozos
<1>2. Sin(f, S) \in Tablas(ids, filas)
  BY TablaSin
<1>3. DOMAIN Sin(f, S) = DOMAIN f \ S /\ \A x \in DOMAIN f \ S : Sin(f, S)[x] = f[x]
  BY DEF Sin
<1>. QED BY <1>1, <1>2, <1>3

\* "Is a piece of" is an order, of tables and of diagrams.
LEMMA TrozoPropio ==
    ASSUME NEW ids, NEW filas, NEW f \in Tablas(ids, filas)
    PROVE  f \in Trozos(f)
<1>1. f = Sin(f, {})
  BY TablaDe DEF Sin
<1>. QED BY <1>1 DEF Trozos

LEMMA TrozoDeTrozo ==
    ASSUME NEW f, NEW g \in Trozos(f), NEW h \in Trozos(g)
    PROVE  h \in Trozos(f)
<1>1. PICK S \in SUBSET DOMAIN f : g = Sin(f, S)
  BY DEF Trozos
<1>2. PICK T \in SUBSET DOMAIN g : h = Sin(g, T)
  BY DEF Trozos
<1>3. h = Sin(f, S \cup T)
  BY <1>1, <1>2 DEF Sin
<1>4. S \cup T \in SUBSET DOMAIN f
  BY <1>1, <1>2 DEF Sin
<1>. QED BY <1>3, <1>4 DEF Trozos

\* What is left of a diagram is a diagram, with fewer of the same rows.
LEMMA RestoDe ==
    ASSUME NEW d \in Diagramas, NEW e \in Restos(d)
    PROVE  /\ e \in Diagramas
           /\ e.clases \subseteq d.clases
           /\ DOMAIN e.atributos \subseteq DOMAIN d.atributos
           /\ DOMAIN e.relaciones \subseteq DOMAIN d.relaciones
           /\ DOMAIN e.referencias \subseteq DOMAIN d.referencias
           /\ DOMAIN e.estructuras \subseteq DOMAIN d.estructuras
           /\ \A x \in DOMAIN e.atributos : e.atributos[x] = d.atributos[x]
           /\ \A x \in DOMAIN e.relaciones : e.relaciones[x] = d.relaciones[x]
           /\ \A x \in DOMAIN e.referencias : e.referencias[x] = d.referencias[x]
           /\ \A x \in DOMAIN e.estructuras : e.estructuras[x] = d.estructuras[x]
<1>1. /\ e.atributos \in Trozos(d.atributos) /\ d.atributos \in Tablas(Atributos, Atributo)
      /\ e.relaciones \in Trozos(d.relaciones) /\ d.relaciones \in Tablas(Relaciones, Relacion)
      /\ e.referencias \in Trozos(d.referencias) /\ d.referencias \in Tablas(Referencias, Referencia)
      /\ e.estructuras \in Trozos(d.estructuras) /\ d.estructuras \in Tablas(Estructuras, Estructura)
      /\ e.clases \subseteq d.clases
  BY DEF Diagramas, Restos
<1>2. /\ e.atributos \in Tablas(Atributos, Atributo)
      /\ e.relaciones \in Tablas(Relaciones, Relacion)
      /\ e.referencias \in Tablas(Referencias, Referencia)
      /\ e.estructuras \in Tablas(Estructuras, Estructura)
  BY <1>1, TrozoDe
<1>3. e \in Diagramas
  BY <1>1, <1>2 DEF Diagramas, Restos
<1>4. /\ DOMAIN e.atributos \subseteq DOMAIN d.atributos
      /\ \A x \in DOMAIN e.atributos : e.atributos[x] = d.atributos[x]
  BY <1>1, TrozoDe
<1>5. /\ DOMAIN e.relaciones \subseteq DOMAIN d.relaciones
      /\ \A x \in DOMAIN e.relaciones : e.relaciones[x] = d.relaciones[x]
  BY <1>1, TrozoDe
<1>6. /\ DOMAIN e.referencias \subseteq DOMAIN d.referencias
      /\ \A x \in DOMAIN e.referencias : e.referencias[x] = d.referencias[x]
  BY <1>1, TrozoDe
<1>7. /\ DOMAIN e.estructuras \subseteq DOMAIN d.estructuras
      /\ \A x \in DOMAIN e.estructuras : e.estructuras[x] = d.estructuras[x]
  BY <1>1, TrozoDe
<1>. QED BY <1>1, <1>3, <1>4, <1>5, <1>6, <1>7

LEMMA RestoPropio == ASSUME NEW d \in Diagramas PROVE d \in Restos(d)
  BY TrozoPropio DEF Diagramas, Restos

LEMMA RestoDeResto ==
    ASSUME NEW d \in Diagramas, NEW e \in Restos(d), NEW x \in Restos(e)
    PROVE  x \in Restos(d)
<1>1. x.clases \in SUBSET d.clases
  BY DEF Restos
<1>2. /\ x.atributos \in Trozos(d.atributos) /\ x.relaciones \in Trozos(d.relaciones)
      /\ x.referencias \in Trozos(d.referencias) /\ x.estructuras \in Trozos(d.estructuras)
  BY TrozoDeTrozo DEF Restos
<1>. QED BY <1>1, <1>2 DEF Restos

\* Taking rows away leaves what is left.
LEMMA Menos ==
    ASSUME NEW d \in Diagramas, NEW C, NEW A, NEW R, NEW F, NEW N, NEW e,
           e = [clases |-> d.clases \ C, atributos |-> Sin(d.atributos, A),
                relaciones |-> Sin(d.relaciones, R), referencias |-> Sin(d.referencias, F),
                estructuras |-> Sin(d.estructuras, N)]
    PROVE  e \in Restos(d)
<1>1. /\ d.atributos \in Tablas(Atributos, Atributo)
      /\ d.relaciones \in Tablas(Relaciones, Relacion)
      /\ d.referencias \in Tablas(Referencias, Referencia)
      /\ d.estructuras \in Tablas(Estructuras, Estructura)
  BY DEF Diagramas
<1>2. /\ Sin(d.atributos, A) \in Trozos(d.atributos)
      /\ Sin(d.relaciones, R) \in Trozos(d.relaciones)
      /\ Sin(d.referencias, F) \in Trozos(d.referencias)
      /\ Sin(d.estructuras, N) \in Trozos(d.estructuras)
  BY <1>1, TablaSin
<1>3. d.clases \ C \in SUBSET d.clases
  OBVIOUS
<1>. QED BY <1>2, <1>3 DEF Restos

\* The rows are of their types, and every table is one.
LEMMA FilasBien ==
    ASSUME NEW d \in Diagramas
    PROVE  /\ d.clases \subseteq Clases
           /\ DOMAIN d.atributos \subseteq Atributos
           /\ DOMAIN d.relaciones \subseteq Relaciones
           /\ DOMAIN d.referencias \subseteq Referencias
           /\ DOMAIN d.estructuras \subseteq Estructuras
           /\ \A a \in DOMAIN d.atributos : d.atributos[a] \in Atributo
           /\ \A r \in DOMAIN d.relaciones : d.relaciones[r] \in Relacion
           /\ \A f \in DOMAIN d.referencias : d.referencias[f] \in Referencia
           /\ \A n \in DOMAIN d.estructuras : d.estructuras[n] \in Estructura
<1>1. /\ d.atributos \in [DOMAIN d.atributos -> Atributo] /\ DOMAIN d.atributos \subseteq Atributos
      /\ d.relaciones \in [DOMAIN d.relaciones -> Relacion]
      /\ DOMAIN d.relaciones \subseteq Relaciones
      /\ d.referencias \in [DOMAIN d.referencias -> Referencia]
      /\ DOMAIN d.referencias \subseteq Referencias
      /\ d.estructuras \in [DOMAIN d.estructuras -> Estructura]
      /\ DOMAIN d.estructuras \subseteq Estructuras
      /\ d.clases \subseteq Clases
  BY DEF Diagramas, Tablas
<1>. QED BY <1>1

\* They are diagrams, as the model types them.
LEMMA DiagramaBien == ASSUME NEW d \in Diagramas PROVE EsDiagrama(d)
<1>1. DOMAIN d = DOMAIN Vacio
  BY DEF Diagramas, Vacio
<1>. QED BY <1>1, FilasBien DEF EsDiagrama, Tabla

(***************************************************************************)
(* A diagram that fits together but for the materialization of some        *)
(* relations, which a cascade is about to close.                           *)
(***************************************************************************)
IntegroSalvo(d, R) ==
    /\ \A a \in DOMAIN d.atributos   : AtributoBien(d, a) /\ ForaneaBien(d, a)
    /\ \A r \in DOMAIN d.relaciones  :
          Extremos(d.relaciones[r]) \subseteq d.clases /\ (r \notin R => Materializada(d, r))
    /\ \A f \in DOMAIN d.referencias : ReferenciaBien(d, f)
    /\ \A n \in DOMAIN d.estructuras : EstructuraBien(d, n)

\* With no exception it is Integro; exceptions may be added, and those whose
\* relation is gone forgotten.
LEMMA SalvoNada == ASSUME NEW d PROVE Integro(d) <=> IntegroSalvo(d, {})
  BY DEF Integro, IntegroSalvo, RelacionBien

LEMMA SalvoMas ==
    ASSUME NEW d, NEW R, NEW Q, IntegroSalvo(d, R), R \cap DOMAIN d.relaciones \subseteq Q
    PROVE  IntegroSalvo(d, Q)
  BY DEF IntegroSalvo

\* Whether a reference materializes its relation is a matter of the
\* relation and of the classes of its two attributes.
LEMMA MismaMateria ==
    ASSUME NEW d, NEW e, NEW ref, Materializa(d, ref),
           {ref.fk, ref.referenciado} \subseteq DOMAIN e.atributos,
           e.relaciones[ref.relacion] = d.relaciones[ref.relacion],
           e.atributos[ref.fk].clase = d.atributos[ref.fk].clase,
           e.atributos[ref.referenciado].clase = d.atributos[ref.referenciado].clase
    PROVE  Materializa(e, ref)
  BY DEF Materializa

\* What stays together when rows go: whatever stays has what it depends on,
\* the key of a reference goes with the last one, and only the relations of
\* Q may miss a reference.
LEMMA Recortar ==
    ASSUME NEW d \in Diagramas, NEW e \in Restos(d), NEW R, NEW Q, IntegroSalvo(d, R),
           \A a \in DOMAIN e.atributos :
              /\ d.atributos[a].clase \in e.clases
              /\ ForaneaPura(d.atributos[a]) =>
                    \E f \in DOMAIN e.referencias : d.referencias[f].fk = a,
           \A r \in DOMAIN e.relaciones :
              /\ Extremos(d.relaciones[r]) \subseteq e.clases
              /\ r \notin Q => r \notin R /\ ReferenciasDe(d, r) \subseteq DOMAIN e.referencias,
           \A f \in DOMAIN e.referencias :
              /\ d.referencias[f].relacion \in DOMAIN e.relaciones
              /\ {d.referencias[f].fk, d.referencias[f].referenciado} \subseteq DOMAIN e.atributos,
           \A n \in DOMAIN e.estructuras :
              /\ ClasesDe(d.estructuras[n]) \subseteq e.clases
              /\ {d.estructuras[n].relOrigen, d.estructuras[n].relDestino}
                    \subseteq DOMAIN e.relaciones
    PROVE  IntegroSalvo(e, Q)
<1>0. /\ e.clases \subseteq d.clases
      /\ DOMAIN e.atributos \subseteq DOMAIN d.atributos
      /\ DOMAIN e.relaciones \subseteq DOMAIN d.relaciones
      /\ DOMAIN e.referencias \subseteq DOMAIN d.referencias
      /\ DOMAIN e.estructuras \subseteq DOMAIN d.estructuras
      /\ \A x \in DOMAIN e.atributos : e.atributos[x] = d.atributos[x]
      /\ \A x \in DOMAIN e.relaciones : e.relaciones[x] = d.relaciones[x]
      /\ \A x \in DOMAIN e.referencias : e.referencias[x] = d.referencias[x]
      /\ \A x \in DOMAIN e.estructuras : e.estructuras[x] = d.estructuras[x]
  BY RestoDe
<1>1. ASSUME NEW a \in DOMAIN e.atributos PROVE AtributoBien(e, a) /\ ForaneaBien(e, a)
  <2>1. AtributoBien(e, a)
    BY <1>0 DEF AtributoBien
  <2>2. ForaneaBien(e, a)
    BY <1>0 DEF ForaneaBien
  <2>. QED BY <2>1, <2>2
<1>2. ASSUME NEW r \in DOMAIN e.relaciones, r \notin Q PROVE Materializada(e, r)
  <2>1. r \in DOMAIN d.relaciones /\ e.relaciones[r] = d.relaciones[r]
    BY <1>0
  <2>2. Materializada(d, r)
    BY <1>2, <2>1 DEF IntegroSalvo
  <2>3. CASE ~RequiereMaterializacion(d.relaciones[r])
    BY <2>1, <2>3 DEF Materializada
  <2>4. CASE \E f \in ReferenciasDe(d, r) : Materializa(d, d.referencias[f])
    <3>1. PICK f \in ReferenciasDe(d, r) : Materializa(d, d.referencias[f])
      BY <2>4
    <3>2. f \in DOMAIN e.referencias /\ e.referencias[f] = d.referencias[f]
      BY <1>0, <1>2
    <3>3. d.referencias[f].relacion = r
      BY <3>1 DEF ReferenciasDe
    <3>4. {d.referencias[f].fk, d.referencias[f].referenciado} \subseteq DOMAIN e.atributos
      BY <3>2
    <3>5. /\ e.atributos[d.referencias[f].fk] = d.atributos[d.referencias[f].fk]
          /\ e.atributos[d.referencias[f].referenciado] = d.atributos[d.referencias[f].referenciado]
      BY <1>0, <3>4
    <3>7. Materializa(e, d.referencias[f])
      BY <2>1, <3>1, <3>3, <3>4, <3>5, MismaMateria
    <3>6. f \in ReferenciasDe(e, r)
      BY <3>2, <3>3 DEF ReferenciasDe
    <3>. QED BY <3>2, <3>6, <3>7 DEF Materializada
  <2>. QED BY <2>2, <2>3, <2>4 DEF Materializada
<1>3. ASSUME NEW r \in DOMAIN e.relaciones PROVE Extremos(e.relaciones[r]) \subseteq e.clases
  BY <1>0
<1>4. ASSUME NEW f \in DOMAIN e.referencias PROVE ReferenciaBien(e, f)
  <2>1. f \in DOMAIN d.referencias /\ e.referencias[f] = d.referencias[f] /\ ReferenciaBien(d, f)
    BY <1>0 DEF IntegroSalvo
  <2>2. /\ d.referencias[f].relacion \in DOMAIN e.relaciones
        /\ {d.referencias[f].fk, d.referencias[f].referenciado} \subseteq DOMAIN e.atributos
    OBVIOUS
  <2>. QED BY <1>0, <2>1, <2>2 DEF ReferenciaBien
<1>5. ASSUME NEW n \in DOMAIN e.estructuras PROVE EstructuraBien(e, n)
  <2>1. n \in DOMAIN d.estructuras /\ e.estructuras[n] = d.estructuras[n] /\ EstructuraBien(d, n)
    BY <1>0 DEF IntegroSalvo
  <2>2. /\ ClasesDe(d.estructuras[n]) \subseteq e.clases
        /\ {d.estructuras[n].relOrigen, d.estructuras[n].relDestino} \subseteq DOMAIN e.relaciones
    OBVIOUS
  <2>. QED BY <1>0, <2>1, <2>2 DEF EstructuraBien
<1>. QED BY <1>1, <1>2, <1>3, <1>4, <1>5 DEF IntegroSalvo

(***************************************************************************)
(* One reference, with the key that only it used.                          *)
(***************************************************************************)
\* Each table without some rows, and as it is, is a piece of itself.
LEMMA Campos ==
    ASSUME NEW d \in Diagramas
    PROVE  /\ \A A : Sin(d.atributos, A) \in Trozos(d.atributos)
           /\ \A R : Sin(d.relaciones, R) \in Trozos(d.relaciones)
           /\ \A F : Sin(d.referencias, F) \in Trozos(d.referencias)
           /\ \A N : Sin(d.estructuras, N) \in Trozos(d.estructuras)
           /\ d.atributos \in Trozos(d.atributos) /\ d.relaciones \in Trozos(d.relaciones)
           /\ d.referencias \in Trozos(d.referencias) /\ d.estructuras \in Trozos(d.estructuras)
<1>1. /\ d.atributos \in Tablas(Atributos, Atributo)
      /\ d.relaciones \in Tablas(Relaciones, Relacion)
      /\ d.referencias \in Tablas(Referencias, Referencia)
      /\ d.estructuras \in Tablas(Estructuras, Estructura)
  BY DEF Diagramas
<1>. QED BY <1>1, TablaSin, TrozoPropio

LEMMA SinReferencias ==
    ASSUME NEW d \in Diagramas, NEW F
    PROVE  [d EXCEPT !.referencias = Sin(@, F)] \in Restos(d)
BY Campos DEF Restos, Diagramas

LEMMA SinAtributos ==
    ASSUME NEW d \in Diagramas, NEW A
    PROVE  [d EXCEPT !.atributos = Sin(@, A)] \in Restos(d)
BY Campos DEF Restos, Diagramas

LEMMA SinRelaciones ==
    ASSUME NEW d \in Diagramas, NEW R
    PROVE  [d EXCEPT !.relaciones = Sin(@, R)] \in Restos(d)
BY Campos DEF Restos, Diagramas

LEMMA SinEstructuras ==
    ASSUME NEW d \in Diagramas, NEW N
    PROVE  [d EXCEPT !.estructuras = Sin(@, N)] \in Restos(d)
BY Campos DEF Restos, Diagramas

\* Whatever relation is left in e has the references it has in d.
RefsSiguen(d, e) ==
    \A r \in DOMAIN e.relaciones : ReferenciasDe(d, r) \subseteq DOMAIN e.referencias

LEMMA SiguenSiempre ==
    ASSUME NEW d \in Diagramas, NEW e \in Restos(d), RefsSiguen(d, e),
           NEW x \in Restos(e), RefsSiguen(e, x)
    PROVE  RefsSiguen(d, x)
<1>1. /\ \A f \in DOMAIN e.referencias : e.referencias[f] = d.referencias[f]
      /\ DOMAIN x.relaciones \subseteq DOMAIN e.relaciones
  BY RestoDe
<1>. QED BY <1>1 DEF RefsSiguen, ReferenciasDe

LEMMA SiguenPropias == ASSUME NEW d PROVE RefsSiguen(d, d)
  BY DEF RefsSiguen, ReferenciasDe

(***************************************************************************)
(* What a cascade takes: nothing but what its start drags along, which is  *)
(* said of any set of rows that lacks nothing its rows drag.               *)
(***************************************************************************)
Cerrado(d, Y) ==
    /\ \A n \in DOMAIN d.estructuras \cap Y.estructuras :
          /\ d.estructuras[n].intermedia \in Y.clases
          /\ Relacionadas(d.estructuras[n]) \subseteq Y.relaciones
    /\ \A a \in DOMAIN d.atributos :
          d.atributos[a].clase \in Y.clases \/ SinUso(d, Y, a) => a \in Y.atributos
    /\ \A r \in DOMAIN d.relaciones :
          Extremos(d.relaciones[r]) \cap Y.clases # {} \/ SinMateria(d, Y, r) => r \in Y.relaciones
    /\ \A f \in DOMAIN d.referencias :
          \/ d.referencias[f].relacion \in Y.relaciones
          \/ {d.referencias[f].fk, d.referencias[f].referenciado} \cap Y.atributos # {}
          => f \in Y.referencias
    /\ \A n \in DOMAIN d.estructuras :
          \/ ClasesDe(d.estructuras[n]) \cap Y.clases # {}
          \/ Relacionadas(d.estructuras[n]) \cap Y.relaciones # {}
          => n \in Y.estructuras

\* All that e has lost of d is in Y.
Dentro(d, e, Y) ==
    /\ d.clases \ e.clases \subseteq Y.clases
    /\ DOMAIN d.atributos \ DOMAIN e.atributos \subseteq Y.atributos
    /\ DOMAIN d.relaciones \ DOMAIN e.relaciones \subseteq Y.relaciones
    /\ DOMAIN d.referencias \ DOMAIN e.referencias \subseteq Y.referencias
    /\ DOMAIN d.estructuras \ DOMAIN e.estructuras \subseteq Y.estructuras

Toma(d, e, Y) == Cerrado(d, Y) => Dentro(d, e, Y)

\* What drags nothing in d drags nothing in what is left outside it: a row
\* that seems to stand alone in e has lost what it depended on to Y.
LEMMA CerradoSigue ==
    ASSUME NEW d \in Diagramas, NEW e \in Restos(d), NEW R, IntegroSalvo(e, R),
           NEW Y, Cerrado(d, Y), Dentro(d, e, Y)
    PROVE  Cerrado(e, Y)
<1>1. /\ DOMAIN e.atributos \subseteq DOMAIN d.atributos
      /\ DOMAIN e.relaciones \subseteq DOMAIN d.relaciones
      /\ DOMAIN e.referencias \subseteq DOMAIN d.referencias
      /\ DOMAIN e.estructuras \subseteq DOMAIN d.estructuras
      /\ \A x \in DOMAIN e.atributos : e.atributos[x] = d.atributos[x]
      /\ \A x \in DOMAIN e.relaciones : e.relaciones[x] = d.relaciones[x]
      /\ \A x \in DOMAIN e.referencias : e.referencias[x] = d.referencias[x]
      /\ \A x \in DOMAIN e.estructuras : e.estructuras[x] = d.estructuras[x]
  BY RestoDe
<1>2. DOMAIN d.referencias \ DOMAIN e.referencias \subseteq Y.referencias
  BY DEF Dentro
<1>3. ASSUME NEW a \in DOMAIN e.atributos, d.atributos[a].clase \in Y.clases \/ SinUso(e, Y, a)
      PROVE  a \in Y.atributos
  <2>1. SinUso(e, Y, a) => SinUso(d, Y, a)
    BY <1>1, <1>2 DEF SinUso, ReferenciasCon
  <2>. QED BY <1>1, <1>3, <2>1 DEF Cerrado
<1>4. ASSUME NEW r \in DOMAIN e.relaciones,
             Extremos(d.relaciones[r]) \cap Y.clases # {} \/ SinMateria(e, Y, r)
      PROVE  r \in Y.relaciones
  <2>1. ASSUME SinMateria(e, Y, r), NEW f \in ReferenciasDe(d, r) \ Y.referencias,
               Materializa(d, d.referencias[f])
        PROVE  FALSE
    <3>1. f \in DOMAIN e.referencias /\ e.referencias[f] = d.referencias[f]
          /\ d.referencias[f].relacion = r
      BY <1>1, <1>2 DEF ReferenciasDe
    <3>2. ReferenciaBien(e, f)
      BY <3>1 DEF IntegroSalvo
    <3>3. {d.referencias[f].fk, d.referencias[f].referenciado} \subseteq DOMAIN e.atributos
      BY <3>1, <3>2 DEF ReferenciaBien
    <3>4. Materializa(e, d.referencias[f])
      BY <1>1, <2>1, <3>1, <3>3, MismaMateria
    <3>. QED BY <2>1, <3>1, <3>4 DEF SinMateria, ReferenciasDe
  <2>2. SinMateria(e, Y, r) => SinMateria(d, Y, r)
    BY <1>1, <2>1 DEF SinMateria
  <2>. QED BY <1>1, <1>4, <2>2 DEF Cerrado
<1>5. \A f \in DOMAIN e.referencias :
        \/ d.referencias[f].relacion \in Y.relaciones
        \/ {d.referencias[f].fk, d.referencias[f].referenciado} \cap Y.atributos # {}
        => f \in Y.referencias
  BY <1>1 DEF Cerrado
<1>6. \A n \in DOMAIN e.estructuras :
        /\ n \in Y.estructuras => /\ d.estructuras[n].intermedia \in Y.clases
                                  /\ Relacionadas(d.estructuras[n]) \subseteq Y.relaciones
        /\ \/ ClasesDe(d.estructuras[n]) \cap Y.clases # {}
           \/ Relacionadas(d.estructuras[n]) \cap Y.relaciones # {}
           => n \in Y.estructuras
  BY <1>1 DEF Cerrado
<1>. QED BY <1>1, <1>3, <1>4, <1>5, <1>6 DEF Cerrado

\* One step after another.
LEMMA TomaSiempre ==
    ASSUME NEW d \in Diagramas, NEW e \in Restos(d), NEW x \in Restos(e),
           NEW R, IntegroSalvo(e, R), NEW Y, Toma(d, e, Y), Toma(e, x, Y)
    PROVE  Toma(d, x, Y)
<1>1. SUFFICES ASSUME Cerrado(d, Y) PROVE Dentro(d, x, Y)
  BY DEF Toma
<1>2. Dentro(d, e, Y) /\ Cerrado(e, Y)
  BY <1>1, CerradoSigue DEF Toma
<1>3. Dentro(e, x, Y)
  BY <1>2 DEF Toma
<1>. QED BY <1>2, <1>3 DEF Dentro

LEMMA TomaPropia == ASSUME NEW d, NEW Y PROVE Toma(d, d, Y)
  BY DEF Toma, Dentro

\* No structure is lost without its two relations and its class.
NmEnteras(d, e) ==
    \A n \in DOMAIN d.estructuras \ DOMAIN e.estructuras :
        /\ d.estructuras[n].intermedia \notin e.clases
        /\ Relacionadas(d.estructuras[n]) \cap DOMAIN e.relaciones = {}

LEMMA EnterasSiempre ==
    ASSUME NEW d \in Diagramas, NEW e \in Restos(d), NmEnteras(d, e),
           NEW x \in Restos(e), NmEnteras(e, x)
    PROVE  NmEnteras(d, x)
<1>1. /\ \A n \in DOMAIN e.estructuras : e.estructuras[n] = d.estructuras[n]
      /\ x.clases \subseteq e.clases /\ DOMAIN x.relaciones \subseteq DOMAIN e.relaciones
  BY RestoDe
<1>. QED BY <1>1 DEF NmEnteras

\* The relation of the reference is the only one that may be left without
\* its materialization, and the key goes when it was the last reference to
\* use it: another that is over it keeps it, for none points to it.
LEMMA QuitarReferenciaBien ==
    ASSUME NEW d \in Diagramas, NEW R, IntegroSalvo(d, R), NEW f \in DOMAIN d.referencias,
           NEW e, e = QuitarReferencia(f, d)
    PROVE  /\ e \in Restos(d)
           /\ e.clases = d.clases /\ e.relaciones = d.relaciones /\ e.estructuras = d.estructuras
           /\ DOMAIN e.referencias = DOMAIN d.referencias \ {f}
           /\ IntegroSalvo(e, R \cup {d.referencias[f].relacion})
           /\ \A Y : f \in Y.referencias => Toma(d, e, Y)
<1>. DEFINE x == SinReferencia(d, f)
            a == d.referencias[f].fk
            sobra == a \in DOMAIN x.atributos /\ x.atributos[a].procedencia = "sistema_fk"
                     /\ ReferenciasCon(x, a) = {}
<1>1. /\ x \in Restos(d) /\ x \in Diagramas
      /\ x.clases = d.clases /\ x.relaciones = d.relaciones /\ x.estructuras = d.estructuras
      /\ x.atributos = d.atributos /\ x.referencias = Sin(d.referencias, {f})
      /\ DOMAIN x.referencias = DOMAIN d.referencias \ {f}
  <2>1. x \in Restos(d)
    BY SinReferencias DEF SinReferencia
  <2>2. x \in Diagramas
    BY <2>1, RestoDe
  <2>3. DOMAIN Sin(d.referencias, {f}) = DOMAIN d.referencias \ {f}
    BY DEF Sin
  <2>. QED BY <2>1, <2>2, <2>3 DEF SinReferencia, Diagramas
<1>2. /\ e = IF sobra THEN SinAtributo(x, a) ELSE x
  BY DEF QuitarReferencia, LimpiarFk
<1>3. /\ SinAtributo(x, a) \in Restos(x)
      /\ SinAtributo(x, a).clases = d.clases /\ SinAtributo(x, a).relaciones = d.relaciones
      /\ SinAtributo(x, a).estructuras = d.estructuras
      /\ SinAtributo(x, a).referencias = x.referencias
      /\ DOMAIN SinAtributo(x, a).atributos = DOMAIN d.atributos \ {a}
  <2>1. SinAtributo(x, a) \in Restos(x)
    BY <1>1, SinAtributos DEF SinAtributo
  <2>2. DOMAIN Sin(d.atributos, {a}) = DOMAIN d.atributos \ {a}
    BY DEF Sin
  <2>. QED BY <1>1, <2>1, <2>2 DEF SinAtributo, Diagramas
<1>. HIDE DEF x
<1>4. /\ e \in Restos(d)
      /\ e.clases = d.clases /\ e.relaciones = d.relaciones /\ e.estructuras = d.estructuras
      /\ DOMAIN e.referencias = DOMAIN d.referencias \ {f}
      /\ DOMAIN e.atributos = IF sobra THEN DOMAIN d.atributos \ {a} ELSE DOMAIN d.atributos
  <2>1. SinAtributo(x, a) \in Restos(d)
    BY <1>1, <1>3, RestoDeResto
  <2>. QED BY <1>1, <1>2, <1>3, <2>1
<1>5. \A g \in DOMAIN d.referencias : ReferenciaBien(d, g)
  BY DEF IntegroSalvo
<1>6. ASSUME NEW g \in DOMAIN e.referencias
      PROVE  /\ d.referencias[g].relacion \in DOMAIN e.relaciones
             /\ {d.referencias[g].fk, d.referencias[g].referenciado} \subseteq DOMAIN e.atributos
  <2>1. g \in DOMAIN d.referencias /\ g \in DOMAIN x.referencias /\ ReferenciaBien(d, g)
    BY <1>1, <1>4, <1>5
  <2>2. x.referencias[g] = d.referencias[g]
    BY <1>1, <2>1, RestoDe
  <2>3. sobra => a \notin {d.referencias[g].fk, d.referencias[g].referenciado}
    BY <2>1, <2>2 DEF ReferenciasCon, Toca
  <2>. QED BY <1>4, <2>1, <2>3 DEF ReferenciaBien
<1>7. ASSUME NEW b \in DOMAIN e.atributos, ForaneaPura(d.atributos[b])
      PROVE  \E g \in DOMAIN e.referencias : d.referencias[g].fk = b
  <2>1. PICK g \in DOMAIN d.referencias : d.referencias[g].fk = b
    BY <1>4, <1>7 DEF IntegroSalvo, ForaneaBien
  <2>2. CASE g # f
    BY <1>4, <2>1, <2>2
  <2>3. CASE g = f
    <3>1. b = a /\ ~sobra
      BY <1>4, <2>1, <2>3
    <3>2. d.atributos[b].procedencia = "sistema_fk" /\ b \in DOMAIN d.atributos
      BY <1>4, <1>7 DEF ForaneaPura
    <3>3. PICK h \in ReferenciasCon(x, a) : TRUE
      BY <1>1, <3>1, <3>2
    <3>4. h \in DOMAIN d.referencias \ {f} /\ Toca(d.referencias[h], a)
      BY <1>1, <3>3, RestoDe DEF ReferenciasCon
    <3>5. d.referencias[h].referenciado # b
      BY <1>5, <1>7, <3>4 DEF ReferenciaBien
    <3>. QED BY <1>4, <3>1, <3>4, <3>5 DEF Toca
  <2>. QED BY <2>2, <2>3
<1>8. \A b \in DOMAIN e.atributos : d.atributos[b].clase \in e.clases
  BY <1>4 DEF IntegroSalvo, AtributoBien
<1>9. ASSUME NEW r \in DOMAIN e.relaciones
      PROVE  /\ Extremos(d.relaciones[r]) \subseteq e.clases
             /\ r \notin R \cup {d.referencias[f].relacion} =>
                   r \notin R /\ ReferenciasDe(d, r) \subseteq DOMAIN e.referencias
  BY <1>4 DEF IntegroSalvo, ReferenciasDe
<1>10. ASSUME NEW n \in DOMAIN e.estructuras
       PROVE  /\ ClasesDe(d.estructuras[n]) \subseteq e.clases
              /\ {d.estructuras[n].relOrigen, d.estructuras[n].relDestino}
                    \subseteq DOMAIN e.relaciones
  <2>1. n \in DOMAIN d.estructuras /\ EstructuraBien(d, n)
    BY <1>4 DEF IntegroSalvo
  <2>. QED BY <1>4, <2>1 DEF EstructuraBien
<1>11. IntegroSalvo(e, R \cup {d.referencias[f].relacion})
  <2>1. e \in Restos(d)
    BY <1>4
  <2>. HIDE DEF a, sobra
  <2>2. \A b \in DOMAIN e.atributos :
           /\ d.atributos[b].clase \in e.clases
           /\ ForaneaPura(d.atributos[b]) =>
                 \E g \in DOMAIN e.referencias : d.referencias[g].fk = b
    BY <1>7, <1>8
  <2>3. \A r \in DOMAIN e.relaciones :
           /\ Extremos(d.relaciones[r]) \subseteq e.clases
           /\ r \notin R \cup {d.referencias[f].relacion} =>
                 r \notin R /\ ReferenciasDe(d, r) \subseteq DOMAIN e.referencias
    BY <1>9
  <2>. QED BY <2>1, <2>2, <2>3, <1>6, <1>10, Recortar
<1>12. ASSUME NEW Y, f \in Y.referencias, Cerrado(d, Y) PROVE Dentro(d, e, Y)
  <2>1. ASSUME sobra PROVE a \in Y.atributos
    <3>1. /\ a \in DOMAIN d.atributos /\ d.atributos[a].procedencia = "sistema_fk"
          /\ f \in ReferenciasCon(d, a) /\ d.referencias[f].fk = a
      BY <1>1, <2>1 DEF ReferenciasCon, Toca
    <3>2. \A g \in DOMAIN x.referencias : x.referencias[g] = d.referencias[g]
      BY <1>1, RestoDe
    <3>3. ReferenciasCon(d, a) \subseteq {f}
      BY <1>1, <2>1, <3>2 DEF ReferenciasCon
    <3>4. SinUso(d, Y, a)
      BY <1>12, <3>1, <3>3 DEF SinUso
    <3>. QED BY <1>12, <3>1, <3>4 DEF Cerrado
  <2>. QED BY <1>4, <1>12, <2>1 DEF Dentro
<1>13. \A Y : f \in Y.referencias => Toma(d, e, Y)
  BY <1>12 DEF Toma
<1>. QED BY <1>4, <1>11, <1>13

\* A relation that is part of no structure goes with its references.
SinNm(d, r) ==
    \A n \in DOMAIN d.estructuras : r \notin {d.estructuras[n].relOrigen, d.estructuras[n].relDestino}

LEMMA QuitarRelacionBien ==
    ASSUME NEW d \in Diagramas, NEW R, IntegroSalvo(d, R), NEW r, SinNm(d, r),
           NEW e, e = QuitarRelacion(r, d)
    PROVE  /\ e \in Restos(d)
           /\ e.clases = d.clases /\ e.estructuras = d.estructuras
           /\ DOMAIN e.relaciones = DOMAIN d.relaciones \ {r}
           /\ IntegroSalvo(e, R \ {r})
           /\ RefsSiguen(d, e)
           /\ \A Y : r \in Y.relaciones => Toma(d, e, Y)
<1>. DEFINE S == ReferenciasDe(d, r)
            Q == R \cup {r}
            I == [T \in SUBSET S |->
                    {x \in Restos(d) :
                        /\ x.clases = d.clases /\ x.relaciones = d.relaciones
                        /\ x.estructuras = d.estructuras
                        /\ DOMAIN x.referencias = DOMAIN d.referencias \ T
                        /\ IntegroSalvo(x, Q)
                        /\ \A Y : T \subseteq Y.referencias => Toma(d, x, Y)}]
            y == FoldSet(QuitarReferencia, d, S)
<1>1. S \subseteq DOMAIN d.referencias /\ IsFiniteSet(S)
  BY IdsAssumption, FilasBien, FS_Subset DEF ReferenciasDe
<1>2. d \in I[{}]
  BY RestoPropio, SalvoMas, TomaPropia
<1>3. ASSUME NEW T \in SUBSET S, NEW f \in S \ T, NEW x \in I[T]
      PROVE  PorReferencia(0, f, x) \in I[T \cup {f}]
  <2>1. /\ x \in Restos(d) /\ x \in Diagramas /\ IntegroSalvo(x, Q)
        /\ x.clases = d.clases /\ x.relaciones = d.relaciones /\ x.estructuras = d.estructuras
        /\ DOMAIN x.referencias = DOMAIN d.referencias \ T
        /\ \A Y : T \subseteq Y.referencias => Toma(d, x, Y)
    BY RestoDe
  <2>2. f \in DOMAIN x.referencias /\ x.referencias[f] = d.referencias[f]
    BY <1>1, <2>1, RestoDe
  <2>3. x.referencias[f].relacion = r
    BY <2>2 DEF ReferenciasDe
  <2>. DEFINE w == QuitarReferencia(f, x)
  <2>4. /\ w \in Restos(x)
        /\ w.clases = x.clases /\ w.relaciones = x.relaciones /\ w.estructuras = x.estructuras
        /\ DOMAIN w.referencias = DOMAIN x.referencias \ {f}
        /\ IntegroSalvo(w, Q \cup {x.referencias[f].relacion})
        /\ \A Y : f \in Y.referencias => Toma(x, w, Y)
    BY <2>1, <2>2, QuitarReferenciaBien
  <2>. HIDE DEF w
  <2>5. Q \cup {x.referencias[f].relacion} = Q
    BY <2>3
  <2>6. w \in Restos(d)
    BY <2>1, <2>4, RestoDeResto
  <2>8. ASSUME NEW Y, T \cup {f} \subseteq Y.referencias PROVE Toma(d, w, Y)
    BY <2>1, <2>4, <2>8, TomaSiempre
  <2>7. w \in I[T \cup {f}]
    BY <2>1, <2>4, <2>5, <2>6, <2>8
  <2>. QED BY <2>7 DEF w, PorReferencia
<1>4. y \in I[S]
  <2>1. y = PlRef!Fold(0, d, S)
    BY DEF FoldSet, MapThenFoldSet, PlRef!Fold, PlRef!FoldSet, PlRef!MapThenFoldSet, PorReferencia
  <2>2. PlRef!IsFiniteSet(S)
    BY <1>1 DEF PlRef!IsFiniteSet, IsFiniteSet
  <2>. HIDE DEF I, S, y
  <2>. QED BY <1>2, <1>3, <2>1, <2>2, PlRef!Invariante
<1>5. e = [y EXCEPT !.relaciones = Sin(@, {r})]
  BY DEF QuitarRelacion
<1>. HIDE DEF y
<1>6. /\ y \in Restos(d) /\ y \in Diagramas /\ IntegroSalvo(y, Q)
      /\ y.clases = d.clases /\ y.relaciones = d.relaciones /\ y.estructuras = d.estructuras
      /\ DOMAIN y.referencias = DOMAIN d.referencias \ S
      /\ \A Y : S \subseteq Y.referencias => Toma(d, y, Y)
  BY <1>4, RestoDe
<1>7. /\ e \in Restos(y)
      /\ e.clases = y.clases /\ e.atributos = y.atributos /\ e.referencias = y.referencias
      /\ e.estructuras = y.estructuras
      /\ DOMAIN e.relaciones = DOMAIN y.relaciones \ {r}
  <2>1. DOMAIN Sin(y.relaciones, {r}) = DOMAIN y.relaciones \ {r}
    BY DEF Sin
  <2>2. e \in Restos(y)
    BY <1>5, <1>6, SinRelaciones
  <2>. QED BY <1>5, <1>6, <2>1, <2>2 DEF Diagramas
<1>8. e \in Restos(d)
  BY <1>6, <1>7, RestoDeResto
<1>9. IntegroSalvo(e, R \ {r})
  <2>1. ASSUME NEW f \in DOMAIN e.referencias
        PROVE  /\ y.referencias[f].relacion \in DOMAIN e.relaciones
               /\ {y.referencias[f].fk, y.referencias[f].referenciado} \subseteq DOMAIN e.atributos
    <3>1. ReferenciaBien(y, f)
      BY <1>6, <1>7 DEF IntegroSalvo
    <3>2. f \in DOMAIN d.referencias /\ f \notin S /\ y.referencias[f] = d.referencias[f]
      BY <1>6, <1>7, RestoDe
    <3>3. y.referencias[f].relacion # r
      BY <3>2 DEF ReferenciasDe
    <3>. QED BY <1>7, <3>1, <3>3 DEF ReferenciaBien
  <2>2. ASSUME NEW n \in DOMAIN e.estructuras
        PROVE  /\ ClasesDe(y.estructuras[n]) \subseteq e.clases
               /\ {y.estructuras[n].relOrigen, y.estructuras[n].relDestino} \subseteq DOMAIN e.relaciones
    <3>1. EstructuraBien(y, n)
      BY <1>6, <1>7 DEF IntegroSalvo
    <3>2. r \notin {y.estructuras[n].relOrigen, y.estructuras[n].relDestino}
      BY <1>6, <1>7 DEF SinNm
    <3>. QED BY <1>7, <3>1, <3>2 DEF EstructuraBien
  <2>3. ASSUME NEW a \in DOMAIN e.atributos
        PROVE  /\ y.atributos[a].clase \in e.clases
               /\ ForaneaPura(y.atributos[a]) =>
                    \E f \in DOMAIN e.referencias : y.referencias[f].fk = a
    BY <1>6, <1>7 DEF IntegroSalvo, AtributoBien, ForaneaBien
  <2>4. ASSUME NEW t \in DOMAIN e.relaciones
        PROVE  /\ Extremos(y.relaciones[t]) \subseteq e.clases
               /\ t \notin R \ {r} => t \notin Q /\ ReferenciasDe(y, t) \subseteq DOMAIN e.referencias
    BY <1>6, <1>7 DEF IntegroSalvo, ReferenciasDe
  <2>. HIDE DEF Q
  <2>. QED BY <1>6, <1>7, <2>1, <2>2, <2>3, <2>4, Recortar
<1>10. RefsSiguen(d, e)
  BY <1>6, <1>7 DEF RefsSiguen, ReferenciasDe
<1>11. ASSUME NEW Y, r \in Y.relaciones, Cerrado(d, Y) PROVE Dentro(d, e, Y)
  <2>1. S \subseteq Y.referencias
    BY <1>11 DEF Cerrado, ReferenciasDe
  <2>. HIDE DEF S
  <2>2. Dentro(d, y, Y)
    BY <1>6, <1>11, <2>1 DEF Toma
  <2>. QED BY <1>6, <1>7, <1>11, <2>2 DEF Dentro
<1>12. \A Y : r \in Y.relaciones => Toma(d, e, Y)
  BY <1>11 DEF Toma
<1>. QED BY <1>6, <1>7, <1>8, <1>9, <1>10, <1>12

\* A class that no relation touches goes with its attributes, which no
\* reference touches.
LEMMA QuitarClaseBien ==
    ASSUME NEW d \in Diagramas, NEW R, IntegroSalvo(d, R), NEW c, RelacionesDe(d, c) = {},
           NEW e, e = QuitarClase(c, d)
    PROVE  /\ e \in Restos(d)
           /\ e.relaciones = d.relaciones /\ e.estructuras = d.estructuras
           /\ DOMAIN e.referencias = DOMAIN d.referencias
           /\ IntegroSalvo(e, R)
           /\ RefsSiguen(d, e)
           /\ \A Y : c \in Y.clases => Toma(d, e, Y)
           /\ c \notin e.clases
<1>. DEFINE A == AtributosDe(d, c)
            F == UNION {ReferenciasCon(d, a) : a \in A}
<1>1. e = [d EXCEPT !.clases = @ \ {c}, !.atributos = Sin(@, A), !.referencias = Sin(@, F)]
  BY DEF QuitarClase
<1>2. ASSUME NEW f \in DOMAIN d.referencias, NEW a \in A, f \in ReferenciasCon(d, a) PROVE FALSE
  <2>1. ReferenciaBien(d, f)
    BY DEF IntegroSalvo
  <2>2. d.referencias[f].relacion \in DOMAIN d.relaciones
    BY <2>1 DEF ReferenciaBien
  <2>3. d.atributos[a].clase = c /\ a \in {d.referencias[f].fk, d.referencias[f].referenciado}
    BY <1>2 DEF AtributosDe, ReferenciasCon, Toca
  <2>4. c \in Extremos(d.relaciones[d.referencias[f].relacion])
    BY <2>1, <2>3 DEF ReferenciaBien
  <2>. QED BY <2>2, <2>4 DEF RelacionesDe
<1>3. F = {}
  BY <1>2 DEF ReferenciasCon
<1>4. ASSUME NEW n \in DOMAIN d.estructuras PROVE c \notin ClasesDe(d.estructuras[n])
  <2>1. EstructuraBien(d, n)
    BY DEF IntegroSalvo
  <2>. QED BY <2>1 DEF EstructuraBien, ClasesDe, RelacionesDe
<1>. HIDE DEF A, F
<1>5. /\ e \in Restos(d)
      /\ e.clases = d.clases \ {c} /\ e.relaciones = d.relaciones /\ e.estructuras = d.estructuras
      /\ DOMAIN e.referencias = DOMAIN d.referencias
      /\ DOMAIN e.atributos = DOMAIN d.atributos \ A
  <2>1. e \in Restos(d)
    <3>1. /\ Sin(d.atributos, A) \in Trozos(d.atributos)
          /\ Sin(d.referencias, F) \in Trozos(d.referencias)
          /\ d.relaciones \in Trozos(d.relaciones) /\ d.estructuras \in Trozos(d.estructuras)
      BY Campos
    <3>2. d.clases \ {c} \in SUBSET d.clases
      OBVIOUS
    <3>. QED BY <1>1, <3>1, <3>2 DEF Restos, Diagramas
  <2>2. DOMAIN Sin(d.atributos, A) = DOMAIN d.atributos \ A
        /\ DOMAIN Sin(d.referencias, F) = DOMAIN d.referencias
    BY <1>3 DEF Sin
  <2>. QED BY <1>1, <2>1, <2>2 DEF Diagramas
<1>6. ASSUME NEW f \in DOMAIN e.referencias
      PROVE  /\ d.referencias[f].relacion \in DOMAIN e.relaciones
             /\ {d.referencias[f].fk, d.referencias[f].referenciado} \subseteq DOMAIN e.atributos
  <2>1. ReferenciaBien(d, f) /\ f \in DOMAIN d.referencias
    BY <1>5 DEF IntegroSalvo
  <2>2. \A a \in A : a \notin {d.referencias[f].fk, d.referencias[f].referenciado}
    BY <1>2, <2>1 DEF ReferenciasCon, Toca
  <2>. QED BY <1>5, <2>1, <2>2 DEF ReferenciaBien
<1>7. ASSUME NEW a \in DOMAIN e.atributos
      PROVE  /\ d.atributos[a].clase \in e.clases
             /\ ForaneaPura(d.atributos[a]) => \E f \in DOMAIN e.referencias : d.referencias[f].fk = a
  BY <1>5 DEF A, AtributosDe, IntegroSalvo, AtributoBien, ForaneaBien
<1>8. ASSUME NEW r \in DOMAIN e.relaciones
      PROVE  /\ Extremos(d.relaciones[r]) \subseteq e.clases
             /\ r \notin R => r \notin R /\ ReferenciasDe(d, r) \subseteq DOMAIN e.referencias
  BY <1>5 DEF IntegroSalvo, RelacionesDe, ReferenciasDe
<1>9. ASSUME NEW n \in DOMAIN e.estructuras
      PROVE  /\ ClasesDe(d.estructuras[n]) \subseteq e.clases
             /\ {d.estructuras[n].relOrigen, d.estructuras[n].relDestino} \subseteq DOMAIN e.relaciones
  BY <1>4, <1>5 DEF IntegroSalvo, EstructuraBien
<1>10. IntegroSalvo(e, R)
  BY <1>5, <1>6, <1>7, <1>8, <1>9, Recortar
<1>11. RefsSiguen(d, e)
  BY <1>5 DEF RefsSiguen, ReferenciasDe
<1>12. ASSUME NEW Y, c \in Y.clases, Cerrado(d, Y) PROVE Dentro(d, e, Y)
  BY <1>5, <1>12 DEF Dentro, Cerrado, A, AtributosDe
<1>13. \A Y : c \in Y.clases => Toma(d, e, Y)
  BY <1>12 DEF Toma
<1>. QED BY <1>5, <1>10, <1>11, <1>13

(***************************************************************************)
(* The two cascades that call one another: "cierre" closes a structure of  *)
(* any diagram left of d that has at most k of them.                       *)
(***************************************************************************)
\* No relation is of two structures.
RelPropias(d) ==
    \A n, m \in DOMAIN d.estructuras :
        n # m => Relacionadas(d.estructuras[n]) \cap Relacionadas(d.estructuras[m]) = {}

\* x is what is left of e once n is closed.
NmCerrada(x, e, n, R) ==
    /\ x \in Restos(e) /\ IntegroSalvo(x, R) /\ RefsSiguen(e, x)
    /\ n \notin DOMAIN x.estructuras
    /\ n \in DOMAIN e.estructuras => Relacionadas(e.estructuras[n]) \cap DOMAIN x.relaciones = {}
    /\ NmEnteras(e, x) /\ \A Y : n \in Y.estructuras => Toma(e, x, Y)

BuenCierre(cierre, d, k) ==
    \A n \in DOMAIN d.estructuras, e \in Restos(d), R \in SUBSET Relaciones :
        IntegroSalvo(e, R) /\ Cardinality(DOMAIN e.estructuras) <= k
            => NmCerrada(cierre[n][e], e, n, R)

\* What is left shares no more relations than what there was.
LEMMA RelPropiasResto ==
    ASSUME NEW d \in Diagramas, RelPropias(d), NEW e \in Restos(d)
    PROVE  RelPropias(e)
<1>1. /\ DOMAIN e.estructuras \subseteq DOMAIN d.estructuras
      /\ \A n \in DOMAIN e.estructuras : e.estructuras[n] = d.estructuras[n]
  BY RestoDe
<1>. QED BY <1>1 DEF RelPropias

\* A table of the structures is no larger than the one it is left of.
LEMMA CuantasNm ==
    ASSUME NEW d \in Diagramas, NEW e \in Restos(d)
    PROVE  /\ IsFiniteSet(DOMAIN d.estructuras)
           /\ Cardinality(DOMAIN d.estructuras) \in Nat
           /\ Cardinality(DOMAIN e.estructuras) \in Nat
           /\ Cardinality(DOMAIN e.estructuras) <= Cardinality(DOMAIN d.estructuras)
<1>1. IsFiniteSet(Estructuras)
  BY IdsAssumption
<1>2. DOMAIN d.estructuras \subseteq Estructuras
  BY FilasBien
<1>3. IsFiniteSet(DOMAIN d.estructuras)
  BY <1>1, <1>2, FS_Subset
<1>4. DOMAIN e.estructuras \subseteq DOMAIN d.estructuras
  BY RestoDe
<1>5. IsFiniteSet(DOMAIN e.estructuras)
  BY <1>3, <1>4, FS_Subset
<1>. QED BY <1>3, <1>4, <1>5, FS_Subset, FS_CardinalityType

\* Of a diagram that fits together, every structure is listed.
LEMMA Listadas ==
    ASSUME NEW d, NEW R, IntegroSalvo(d, R), NEW r
    PROVE  /\ EstructurasListadas(d) = DOMAIN d.estructuras
           /\ EstructurasPor(d, r) = {} => SinNm(d, r)
           /\ EstructurasPor(d, r) \subseteq DOMAIN d.estructuras
           /\ \A n \in EstructurasPor(d, r) : r \in Relacionadas(d.estructuras[n])
<1>1. EstructurasListadas(d) = DOMAIN d.estructuras
  BY DEF IntegroSalvo, EstructuraBien, EstructurasListadas
<1>. QED BY <1>1 DEF EstructurasPor, SinNm, Relacionadas

\* cerrar_por_relacion leaves a piece that fits together, without the
\* relation, if the closure of the structures does its part.
LEMMA CerrarRelacionConBien ==
    ASSUME NEW d \in Diagramas, NEW cierre, NEW k \in Nat, BuenCierre(cierre, d, k),
           NEW e \in Restos(d), NEW R \in SUBSET Relaciones, IntegroSalvo(e, R),
           Cardinality(DOMAIN e.estructuras) <= k, NEW r,
           NEW x, x = CerrarRelacionCon(cierre, r, e)
    PROVE  /\ x \in Restos(e) /\ IntegroSalvo(x, R) /\ RefsSiguen(e, x)
           /\ r \notin DOMAIN x.relaciones
           /\ NmEnteras(e, x) /\ \A Y : r \in Y.relaciones => Toma(e, x, Y)
<1>1. e \in Diagramas
  BY RestoDe
<1>2. CASE r \notin DOMAIN e.relaciones
  <2>1. x = e
    BY <1>2 DEF CerrarRelacionCon
  <2>. QED BY <1>1, <1>2, <2>1, RestoPropio, SiguenPropias, TomaPropia DEF NmEnteras
<1>3. CASE r \in DOMAIN e.relaciones /\ EstructurasPor(e, r) # {}
  <2>1. PICK n \in EstructurasPor(e, r) : x = cierre[n][e]
    BY <1>3 DEF CerrarRelacionCon
  <2>2. n \in DOMAIN e.estructuras /\ r \in Relacionadas(e.estructuras[n])
    BY Listadas
  <2>3. n \in DOMAIN d.estructuras
    BY <2>2, RestoDe
  <2>4. NmCerrada(cierre[n][e], e, n, R)
    BY <2>3 DEF BuenCierre
  <2>5. ASSUME NEW Y, r \in Y.relaciones PROVE Toma(e, x, Y)
    <3>1. SUFFICES ASSUME Cerrado(e, Y) PROVE Dentro(e, x, Y)
      BY DEF Toma
    <3>2. n \in Y.estructuras
      BY <2>2, <2>5, <3>1 DEF Cerrado
    <3>. QED BY <2>1, <2>4, <3>1, <3>2 DEF NmCerrada, Toma
  <2>6. /\ x \in Restos(e) /\ IntegroSalvo(x, R) /\ RefsSiguen(e, x)
        /\ r \notin DOMAIN x.relaciones /\ NmEnteras(e, x)
    BY <2>1, <2>2, <2>4 DEF NmCerrada
  <2>. QED BY <2>5, <2>6
<1>4. CASE r \in DOMAIN e.relaciones /\ EstructurasPor(e, r) = {}
  <2>1. SinNm(e, r)
    BY <1>4, Listadas
  <2>2. x = QuitarRelacion(r, e)
    BY <1>4 DEF CerrarRelacionCon
  <2>3. /\ x \in Restos(e) /\ DOMAIN x.relaciones = DOMAIN e.relaciones \ {r}
        /\ IntegroSalvo(x, R \ {r}) /\ RefsSiguen(e, x)
        /\ \A Y : r \in Y.relaciones => Toma(e, x, Y)
    BY <1>1, <2>1, <2>2, QuitarRelacionBien
  <2>4. IntegroSalvo(x, R)
    BY <2>3, SalvoMas
  <2>5. NmEnteras(e, x)
    <3>1. ASSUME NEW y \in Diagramas, NEW Q, IntegroSalvo(y, Q), NEW q, SinNm(y, q),
                 NEW w, w = QuitarRelacion(q, y)
          PROVE  w.clases = y.clases /\ w.estructuras = y.estructuras
      BY ZenonT(30), <3>1, QuitarRelacionBien
    <3>2. x.estructuras = e.estructuras
      BY <1>1, <2>1, <2>2, <3>1
    <3>. QED BY <3>2 DEF NmEnteras
  <2>. QED BY <2>3, <2>4, <2>5
<1>. QED BY <1>2, <1>3, <1>4

\* cerrar_por_estructura_nm does with one structure more what the closure
\* of the structures it calls does.
LEMMA CerrarNmConBien ==
    ASSUME NEW d \in Diagramas, RelPropias(d), NEW cierre, NEW k \in Nat, BuenCierre(cierre, d, k),
           NEW e \in Restos(d), NEW R \in SUBSET Relaciones, IntegroSalvo(e, R),
           Cardinality(DOMAIN e.estructuras) <= k + 1, NEW n,
           NEW x, x = CerrarNmCon(cierre, n, e)
    PROVE  NmCerrada(x, e, n, R)
<1>1. e \in Diagramas /\ RelPropias(e)
  BY RestoDe, RelPropiasResto
<1>2. CASE n \notin DOMAIN e.estructuras
  <2>1. x = e
    BY <1>2 DEF CerrarNmCon
  <2>2. NmEnteras(e, x) /\ \A Y : Toma(e, x, Y)
    BY <2>1, TomaPropia DEF NmEnteras
  <2>. QED BY <1>1, <1>2, <2>1, <2>2, RestoPropio, SiguenPropias DEF NmCerrada
<1>3. CASE n \in DOMAIN e.estructuras
  <2>. DEFINE nm == e.estructuras[n]
              sinNm == [e EXCEPT !.estructuras = Sin(@, {n})]
              P == {nm.relOrigen, nm.relDestino}
              sinPropias == FoldSet(QuitarRelacion, sinNm, P)
              A == RelacionesDe(sinPropias, nm.intermedia)
              sinAjenas == FoldSet(LAMBDA r, y : CerrarRelacionCon(cierre, r, y), sinPropias, A)
  <2>1. x = QuitarClase(nm.intermedia, sinAjenas)
    BY <1>3 DEF CerrarNmCon
  <2>2. /\ sinNm \in Restos(e) /\ sinNm \in Diagramas
        /\ sinNm.clases = e.clases /\ sinNm.atributos = e.atributos
        /\ sinNm.relaciones = e.relaciones /\ sinNm.referencias = e.referencias
        /\ DOMAIN sinNm.estructuras = DOMAIN e.estructuras \ {n}
        /\ \A m \in DOMAIN sinNm.estructuras : sinNm.estructuras[m] = e.estructuras[m]
    <3>1. sinNm \in Restos(e)
      BY <1>1, SinEstructuras
    <3>2. DOMAIN Sin(e.estructuras, {n}) = DOMAIN e.estructuras \ {n}
      BY DEF Sin
    <3>3. sinNm \in Diagramas /\ \A m \in DOMAIN sinNm.estructuras : sinNm.estructuras[m] = e.estructuras[m]
      BY <1>1, <3>1, RestoDe
    <3>. QED BY <1>1, <3>1, <3>2, <3>3 DEF Diagramas
  <2>. HIDE DEF sinNm
  <2>3. IntegroSalvo(sinNm, R)
    <3>1. \A a \in DOMAIN sinNm.atributos :
            /\ e.atributos[a].clase \in sinNm.clases
            /\ ForaneaPura(e.atributos[a]) =>
                  \E f \in DOMAIN sinNm.referencias : e.referencias[f].fk = a
      BY <2>2 DEF IntegroSalvo, AtributoBien, ForaneaBien
    <3>2. \A r \in DOMAIN sinNm.relaciones :
            /\ Extremos(e.relaciones[r]) \subseteq sinNm.clases
            /\ r \notin R => r \notin R /\ ReferenciasDe(e, r) \subseteq DOMAIN sinNm.referencias
      BY <2>2 DEF IntegroSalvo, ReferenciasDe
    <3>3. \A f \in DOMAIN sinNm.referencias :
            /\ e.referencias[f].relacion \in DOMAIN sinNm.relaciones
            /\ {e.referencias[f].fk, e.referencias[f].referenciado} \subseteq DOMAIN sinNm.atributos
      BY <2>2 DEF IntegroSalvo, ReferenciaBien
    <3>4. \A m \in DOMAIN sinNm.estructuras :
            /\ ClasesDe(e.estructuras[m]) \subseteq sinNm.clases
            /\ {e.estructuras[m].relOrigen, e.estructuras[m].relDestino}
                  \subseteq DOMAIN sinNm.relaciones
      BY <2>2 DEF IntegroSalvo, EstructuraBien
    <3>. QED BY <1>1, <2>2, <3>1, <3>2, <3>3, <3>4, Recortar
  <2>4. Cardinality(DOMAIN sinNm.estructuras) <= k
    <3>1. IsFiniteSet(DOMAIN e.estructuras) /\ Cardinality(DOMAIN e.estructuras) \in Nat
      BY <1>1, RestoPropio, CuantasNm
    <3>2. Cardinality(DOMAIN e.estructuras \ {n}) = Cardinality(DOMAIN e.estructuras) - 1
      BY <1>3, <3>1, FS_RemoveElement
    <3>. QED BY <2>2, <3>1, <3>2
  <2>5. \A r \in P : SinNm(sinNm, r)
    BY <1>1, <1>3, <2>2 DEF RelPropias, Relacionadas, SinNm
  <2>6. /\ sinPropias \in Restos(sinNm) /\ IntegroSalvo(sinPropias, R)
        /\ RefsSiguen(sinNm, sinPropias)
        /\ sinPropias.estructuras = sinNm.estructuras
        /\ DOMAIN sinPropias.relaciones = DOMAIN sinNm.relaciones \ P
        /\ \A Y : P \subseteq Y.relaciones => Toma(sinNm, sinPropias, Y)
    <3>. DEFINE I == [T \in SUBSET P |->
                       {y \in Restos(sinNm) :
                           /\ y.estructuras = sinNm.estructuras
                           /\ DOMAIN y.relaciones = DOMAIN sinNm.relaciones \ T
                           /\ IntegroSalvo(y, R) /\ RefsSiguen(sinNm, y)
                           /\ \A Y : T \subseteq Y.relaciones => Toma(sinNm, y, Y)}]
    <3>1. sinNm \in I[{}]
      BY <2>2, <2>3, RestoPropio, SiguenPropias, TomaPropia
    <3>2. ASSUME NEW T \in SUBSET P, NEW r \in P \ T, NEW y \in I[T]
          PROVE  PorRelacion(0, r, y) \in I[T \cup {r}]
      <4>1. /\ y \in Restos(sinNm) /\ y \in Diagramas /\ IntegroSalvo(y, R)
            /\ y.estructuras = sinNm.estructuras /\ RefsSiguen(sinNm, y)
            /\ DOMAIN y.relaciones = DOMAIN sinNm.relaciones \ T
            /\ \A Y : T \subseteq Y.relaciones => Toma(sinNm, y, Y)
        BY <2>2, RestoDe
      <4>2. SinNm(y, r)
        BY <2>5, <4>1 DEF SinNm
      <4>. DEFINE w == QuitarRelacion(r, y)
      <4>7. w = QuitarRelacion(r, y)
        OBVIOUS
      <4>. HIDE DEF w, P, I, sinPropias
      <4>3. /\ w \in Restos(y) /\ w.estructuras = y.estructuras
            /\ DOMAIN w.relaciones = DOMAIN y.relaciones \ {r} /\ IntegroSalvo(w, R \ {r})
            /\ RefsSiguen(y, w) /\ \A Y : r \in Y.relaciones => Toma(y, w, Y)
        BY <4>1, <4>2, <4>7, QuitarRelacionBien
      <4>6. ASSUME NEW Y, T \cup {r} \subseteq Y.relaciones PROVE Toma(sinNm, w, Y)
        BY <2>2, <4>1, <4>3, <4>6, TomaSiempre
      <4>. USE DEF I
      <4>4. w \in Restos(sinNm) /\ IntegroSalvo(w, R) /\ RefsSiguen(sinNm, w)
        BY <2>2, <4>1, <4>3, RestoDeResto, SalvoMas, SiguenSiempre
      <4>5. w \in I[T \cup {r}]
        BY <4>1, <4>3, <4>4, <4>6
      <4>. QED BY <4>5 DEF w, PorRelacion
    <3>3. sinPropias = PlRel!Fold(0, sinNm, P)
      BY DEF FoldSet, MapThenFoldSet, PlRel!Fold, PlRel!FoldSet, PlRel!MapThenFoldSet, PorRelacion
    <3>4. PlRel!IsFiniteSet(P)
      <4>1. e.estructuras[n] \in Estructura
        BY <1>1, <1>3, FilasBien
      <4>2. P \subseteq Relaciones
        BY <4>1 DEF Estructura
      <4>3. IsFiniteSet(P)
        BY <4>2, IdsAssumption, FS_Subset
      <4>. QED BY <4>3 DEF PlRel!IsFiniteSet, IsFiniteSet
    <3>5. sinPropias \in I[P]
      <4>. HIDE DEF I, P, sinPropias
      <4>. QED BY <3>1, <3>2, <3>3, <3>4, PlRel!Invariante
    <3>. QED BY <3>5
  <2>. HIDE DEF sinPropias
  <2>7. sinPropias \in Diagramas /\ sinPropias \in Restos(d) /\ sinPropias \in Restos(e)
    BY <1>1, <2>2, <2>6, RestoDe, RestoDeResto
  <2>8. /\ sinAjenas \in Restos(sinPropias) /\ IntegroSalvo(sinAjenas, R)
        /\ RefsSiguen(sinPropias, sinAjenas) /\ NmEnteras(sinPropias, sinAjenas)
        /\ A \cap DOMAIN sinAjenas.relaciones = {}
        /\ \A Y : A \subseteq Y.relaciones => Toma(sinPropias, sinAjenas, Y)
    <3>. DEFINE I == [T \in SUBSET A |->
                       {y \in Restos(sinPropias) :
                           /\ IntegroSalvo(y, R) /\ RefsSiguen(sinPropias, y)
                           /\ T \cap DOMAIN y.relaciones = {} /\ NmEnteras(sinPropias, y)
                           /\ \A Y : T \subseteq Y.relaciones => Toma(sinPropias, y, Y)}]
    <3>1. sinPropias \in I[{}]
      <4>1. NmEnteras(sinPropias, sinPropias)
        BY DEF NmEnteras
      <4>. QED BY <2>6, <2>7, <4>1, RestoPropio, SiguenPropias, TomaPropia
    <3>2. ASSUME NEW T \in SUBSET A, NEW r \in A \ T, NEW y \in I[T]
          PROVE  CerrarRelacionCon(cierre, r, y) \in I[T \cup {r}]
      <4>1. /\ y \in Restos(sinPropias) /\ y \in Diagramas /\ y \in Restos(d)
            /\ IntegroSalvo(y, R) /\ T \cap DOMAIN y.relaciones = {}
            /\ RefsSiguen(sinPropias, y) /\ NmEnteras(sinPropias, y)
            /\ \A Y : T \subseteq Y.relaciones => Toma(sinPropias, y, Y)
        BY <2>7, RestoDe, RestoDeResto
      <4>2. Cardinality(DOMAIN y.estructuras) <= k
        <5>1. /\ Cardinality(DOMAIN y.estructuras) <= Cardinality(DOMAIN sinPropias.estructuras)
              /\ Cardinality(DOMAIN y.estructuras) \in Nat
              /\ Cardinality(DOMAIN sinPropias.estructuras) \in Nat
          BY <2>7, <4>1, CuantasNm
        <5>. QED BY <2>4, <2>6, <5>1
      <4>. DEFINE w == CerrarRelacionCon(cierre, r, y)
      <4>3. /\ w \in Restos(y) /\ IntegroSalvo(w, R) /\ r \notin DOMAIN w.relaciones
            /\ RefsSiguen(y, w) /\ NmEnteras(y, w)
            /\ \A Y : r \in Y.relaciones => Toma(y, w, Y)
        BY <4>1, <4>2, CerrarRelacionConBien
      <4>. HIDE DEF w
      <4>4. /\ w \in Restos(sinPropias) /\ DOMAIN w.relaciones \subseteq DOMAIN y.relaciones
            /\ RefsSiguen(sinPropias, w) /\ NmEnteras(sinPropias, w)
        BY <2>7, <4>1, <4>3, RestoDe, RestoDeResto, SiguenSiempre, EnterasSiempre
      <4>6. ASSUME NEW Y, T \cup {r} \subseteq Y.relaciones PROVE Toma(sinPropias, w, Y)
        BY <2>7, <4>1, <4>3, <4>6, TomaSiempre
      <4>5. w \in I[T \cup {r}]
        BY <4>1, <4>3, <4>4, <4>6
      <4>. QED BY <4>5 DEF w
    <3>3. sinAjenas = PlCon!Fold(cierre, sinPropias, A)
      BY DEF FoldSet, MapThenFoldSet, PlCon!Fold, PlCon!FoldSet, PlCon!MapThenFoldSet
    <3>4. PlCon!IsFiniteSet(A)
      <4>1. IsFiniteSet(A)
        BY <2>7, IdsAssumption, FilasBien, FS_Subset DEF RelacionesDe
      <4>. QED BY <4>1 DEF PlCon!IsFiniteSet, IsFiniteSet
    <3>5. sinAjenas \in I[A]
      <4>. HIDE DEF I, A, sinAjenas
      <4>. QED BY <3>1, <3>2, <3>3, <3>4, PlCon!Invariante
    <3>. QED BY <3>5
  <2>. HIDE DEF sinAjenas
  <2>9. sinAjenas \in Diagramas /\ sinAjenas \in Restos(e)
    BY <1>1, <2>7, <2>8, RestoDe, RestoDeResto
  <2>10. RelacionesDe(sinAjenas, nm.intermedia) = {}
    <3>1. /\ DOMAIN sinAjenas.relaciones \subseteq DOMAIN sinPropias.relaciones
          /\ \A r \in DOMAIN sinAjenas.relaciones : sinAjenas.relaciones[r] = sinPropias.relaciones[r]
      BY <2>7, <2>8, RestoDe
    <3>. QED BY <2>8, <3>1 DEF RelacionesDe
  <2>11. /\ x \in Restos(sinAjenas) /\ IntegroSalvo(x, R)
         /\ x.relaciones = sinAjenas.relaciones /\ x.estructuras = sinAjenas.estructuras
         /\ RefsSiguen(sinAjenas, x) /\ nm.intermedia \notin x.clases
         /\ \A Y : nm.intermedia \in Y.clases => Toma(sinAjenas, x, Y)
    BY <2>1, <2>8, <2>9, <2>10, QuitarClaseBien
  <2>12. x \in Restos(e)
    BY <1>1, <2>9, <2>11, RestoDeResto
  <2>13. n \notin DOMAIN x.estructuras
    BY <2>2, <2>6, <2>7, <2>8, <2>11, RestoDe
  <2>14. P \cap DOMAIN x.relaciones = {}
    BY <2>2, <2>6, <2>7, <2>8, <2>11, RestoDe
  <2>15. RefsSiguen(e, sinNm)
    BY <2>2 DEF RefsSiguen, ReferenciasDe
  <2>16. RefsSiguen(e, sinPropias)
    BY <1>1, <2>2, <2>6, <2>15, SiguenSiempre
  <2>17. RefsSiguen(e, sinAjenas)
    BY <1>1, <2>7, <2>8, <2>16, SiguenSiempre
  <2>18. RefsSiguen(e, x)
    BY <1>1, <2>9, <2>11, <2>17, SiguenSiempre
  <2>19. NmEnteras(e, x)
    <3>1. NmEnteras(sinNm, sinPropias) /\ NmEnteras(sinAjenas, x)
      BY <2>6, <2>11 DEF NmEnteras
    <3>2. NmEnteras(sinNm, sinAjenas) /\ sinAjenas \in Restos(sinNm)
      BY <2>2, <2>6, <2>8, <3>1, EnterasSiempre, RestoDeResto
    <3>3. NmEnteras(sinNm, x)
      BY <2>2, <2>11, <3>1, <3>2, EnterasSiempre
    <3>. QED BY <2>2, <2>11, <2>14, <3>3 DEF NmEnteras, Relacionadas
  <2>20. ASSUME NEW Y, n \in Y.estructuras, Cerrado(e, Y) PROVE Dentro(e, x, Y)
    <3>1. nm.intermedia \in Y.clases /\ P \subseteq Y.relaciones
      BY <1>3, <2>20 DEF Cerrado, Relacionadas
    <3>2. Dentro(e, sinNm, Y)
      BY <2>2, <2>20 DEF Dentro
    <3>3. Toma(e, sinNm, Y) /\ Toma(sinNm, sinPropias, Y)
      BY <2>6, <3>1, <3>2 DEF Toma
    <3>4. Toma(e, sinPropias, Y)
      BY <1>1, <2>2, <2>3, <2>6, <3>3, TomaSiempre
    <3>5. Cerrado(sinPropias, Y)
      <4>1. Dentro(e, sinPropias, Y)
        BY <2>20, <3>4 DEF Toma
      <4>. QED BY <1>1, <2>6, <2>7, <2>20, <4>1, CerradoSigue
    <3>6. A \subseteq Y.relaciones
      BY <3>1, <3>5 DEF Cerrado, RelacionesDe
    <3>7. Toma(e, sinAjenas, Y)
      <4>1. Toma(sinPropias, sinAjenas, Y)
        BY <2>8, <3>6
      <4>. QED BY <1>1, <2>6, <2>7, <2>8, <3>4, <4>1, TomaSiempre
    <3>8. Toma(sinAjenas, x, Y)
      BY <2>11, <3>1
    <3>9. Toma(e, x, Y)
      BY <1>1, <2>8, <2>9, <2>11, <3>7, <3>8, TomaSiempre
    <3>. QED BY <2>20, <3>9 DEF Toma
  <2>21. \A Y : n \in Y.estructuras => Toma(e, x, Y)
    BY <2>20 DEF Toma
  <2>. QED BY <2>11, <2>12, <2>13, <2>14, <2>18, <2>19, <2>21 DEF NmCerrada, Relacionadas
<1>. QED BY <1>2, <1>3

(***************************************************************************)
(* The closure as the model defines it: as many steps as structures.       *)
(***************************************************************************)
PasoCierre(d, c) == [n \in DOMAIN d.estructuras |-> [e \in Restos(d) |-> CerrarNmCon(c, n, e)]]
Serie == INSTANCE Recursion WITH Siguiente <- PasoCierre

\* By induction on the steps: after as many as there are structures, the
\* closure does its part whatever is left of the diagram.
LEMMA CierreBien ==
    ASSUME NEW d \in Diagramas, RelPropias(d)
    PROVE  BuenCierre(Cierre(d), d, Cardinality(DOMAIN d.estructuras))
<1>. DEFINE D == DOMAIN d.estructuras
            base == [n \in D |-> [e \in Restos(d) |-> e]]
            Cuerpo(c) == [k \in Nat |-> [n \in D |-> [e \in Restos(d) |->
                             IF k = 0 THEN e ELSE CerrarNmCon(c[k - 1], n, e)]]]
            c == CHOOSE c : c = Cuerpo(c)
<1>1. PICK g : Serie!EsSerie(g, Nat, d, base)
  <2>. HIDE DEF base
  <2>. QED BY Serie!Existe
<1>2. g = Cuerpo(g)
  <2>1. g = [k \in Nat |-> IF k = 0 THEN base ELSE PasoCierre(d, g[k - 1])]
    <3>. HIDE DEF base
    <3>. QED BY <1>1 DEF Serie!EsSerie
  <2>2. \A k \in Nat : (IF k = 0 THEN base ELSE PasoCierre(d, g[k - 1])) = Cuerpo(g)[k]
    <3>1. ASSUME NEW k \in Nat, k = 0 PROVE base = Cuerpo(g)[k]
      BY <3>1
    <3>2. ASSUME NEW k \in Nat, k # 0 PROVE PasoCierre(d, g[k - 1]) = Cuerpo(g)[k]
      BY <3>2 DEF PasoCierre
    <3>. HIDE DEF base, Cuerpo
    <3>. QED BY <3>1, <3>2
  <2>3. Cuerpo(g) = [k \in Nat |-> Cuerpo(g)[k]]
    OBVIOUS
  <2>. HIDE DEF base, Cuerpo
  <2>. QED BY <2>1, <2>2, <2>3
<1>3. c = Cuerpo(c)
  <2>. HIDE DEF Cuerpo
  <2>. QED BY <1>2
<1>4. Cierre(d) = c[Cardinality(D)]
  BY DEF Cierre
<1>. HIDE DEF c
<1>5. ASSUME NEW k \in Nat, NEW n \in D, NEW e \in Restos(d)
      PROVE  c[k][n][e] = IF k = 0 THEN e ELSE CerrarNmCon(c[k - 1], n, e)
  <2>1. c[k] = Cuerpo(c)[k]
    <3>. HIDE DEF Cuerpo
    <3>. QED BY <1>3
  <2>2. Cuerpo(c)[k][n][e] = IF k = 0 THEN e ELSE CerrarNmCon(c[k - 1], n, e)
    OBVIOUS
  <2>. QED BY <2>1, <2>2
<1>. DEFINE M == {k \in Nat : BuenCierre(c[k], d, k)}
<1>6. 0 \in M
  <2>1. ASSUME NEW n \in D, NEW e \in Restos(d), NEW R \in SUBSET Relaciones,
               IntegroSalvo(e, R), Cardinality(DOMAIN e.estructuras) <= 0
        PROVE  NmCerrada(c[0][n][e], e, n, R)
    <3>1. e \in Diagramas
      BY RestoDe
    <3>2. IsFiniteSet(DOMAIN e.estructuras) /\ Cardinality(DOMAIN e.estructuras) \in Nat
      BY <3>1, RestoPropio, CuantasNm
    <3>3. DOMAIN e.estructuras = {}
      BY <2>1, <3>2, FS_EmptySet
    <3>4. c[0][n][e] = e
      BY <1>5
    <3>5. e \in Restos(e)
      BY <3>1, RestoPropio
    <3>6. NmEnteras(e, e) /\ \A Y : Toma(e, e, Y)
      BY TomaPropia DEF NmEnteras
    <3>. QED BY <2>1, <3>3, <3>4, <3>5, <3>6, SiguenPropias DEF NmCerrada
  <2>. QED BY <2>1 DEF BuenCierre
<1>7. ASSUME NEW k \in M PROVE k + 1 \in M
  <2>0. k \in Nat /\ k + 1 \in Nat /\ k + 1 # 0 /\ (k + 1) - 1 = k /\ BuenCierre(c[k], d, k)
    BY <1>7
  <2>1. ASSUME NEW n \in D, NEW e \in Restos(d), NEW R \in SUBSET Relaciones,
               IntegroSalvo(e, R), Cardinality(DOMAIN e.estructuras) <= k + 1
        PROVE  NmCerrada(c[k + 1][n][e], e, n, R)
    <3>1. c[k + 1][n][e] = CerrarNmCon(c[k], n, e)
      BY <1>5, <2>0
    <3>. QED BY <2>0, <2>1, <3>1, CerrarNmConBien
  <2>2. BuenCierre(c[k + 1], d, k + 1)
    BY <2>1 DEF BuenCierre
  <2>. QED BY <2>0, <2>2
<1>8. M = Nat
  <2>. HIDE DEF M
  <2>1. M \in SUBSET Nat BY DEF M
  <2>. QED BY <1>6, <1>7, <2>1, Serie!Induccion
<1>9. Cardinality(D) \in Nat
  BY RestoPropio, CuantasNm
<1>. QED BY <1>4, <1>8, <1>9

\* So the two cascades of the model do, from any diagram.
LEMMA CerrarNmBien ==
    ASSUME NEW d \in Diagramas, RelPropias(d), NEW R \in SUBSET Relaciones, IntegroSalvo(d, R),
           NEW n, NEW x, x = CerrarNm(n, d)
    PROVE  NmCerrada(x, d, n, R)
<1>. DEFINE k == Cardinality(DOMAIN d.estructuras)
<1>1. d \in Restos(d) /\ k \in Nat /\ BuenCierre(Cierre(d), d, k)
  BY RestoPropio, CuantasNm, CierreBien
<1>2. x = CerrarNmCon(Cierre(d), n, d)
  BY DEF CerrarNm
<1>3. k <= k + 1
  BY <1>1
<1>. HIDE DEF k
<1>4. Cardinality(DOMAIN d.estructuras) <= k + 1
  BY <1>3 DEF k
<1>. QED BY <1>1, <1>2, <1>4, CerrarNmConBien

LEMMA CerrarRelacionBien ==
    ASSUME NEW d \in Diagramas, RelPropias(d), NEW R \in SUBSET Relaciones, IntegroSalvo(d, R),
           NEW r, NEW x, x = CerrarRelacion(r, d)
    PROVE  /\ x \in Restos(d) /\ IntegroSalvo(x, R) /\ RefsSiguen(d, x)
           /\ r \notin DOMAIN x.relaciones
           /\ NmEnteras(d, x) /\ \A Y : r \in Y.relaciones => Toma(d, x, Y)
<1>. DEFINE k == Cardinality(DOMAIN d.estructuras)
<1>1. d \in Restos(d) /\ k \in Nat /\ BuenCierre(Cierre(d), d, k)
  BY RestoPropio, CuantasNm, CierreBien
<1>2. x = CerrarRelacionCon(Cierre(d), r, d)
  BY DEF CerrarRelacion
<1>3. k <= k
  BY <1>1
<1>. HIDE DEF k
<1>4. Cardinality(DOMAIN d.estructuras) <= k
  BY <1>3 DEF k
<1>. QED BY <1>1, <1>2, <1>4, CerrarRelacionConBien

(***************************************************************************)
(* The cascades of a class, a reference and an attribute.  Each leaves a   *)
(* piece of the diagram that fits together.                                *)
(***************************************************************************)
LEMMA CerrarClaseBien ==
    ASSUME NEW d \in Diagramas, RelPropias(d), IntegroSalvo(d, {}), NEW c,
           NEW x, x = CerrarClase(c, d)
    PROVE  /\ x \in Restos(d) /\ IntegroSalvo(x, {}) /\ RefsSiguen(d, x)
           /\ NmEnteras(d, x) /\ c \notin x.clases
           /\ \A Y : c \in Y.clases => Toma(d, x, Y)
<1>. DEFINE S == {n \in EstructurasListadas(d) : c \in ClasesDe(d.estructuras[n])}
            sinNm == FoldSet(CerrarNm, d, S)
            A == RelacionesDe(sinNm, c)
            sinRel == FoldSet(CerrarRelacion, sinNm, A)
<1>1. x = QuitarClase(c, sinRel)
  BY DEF CerrarClase
<1>2. /\ sinNm \in Restos(d) /\ IntegroSalvo(sinNm, {}) /\ RefsSiguen(d, sinNm)
      /\ NmEnteras(d, sinNm) /\ \A Y : S \subseteq Y.estructuras => Toma(d, sinNm, Y)
  <2>. DEFINE I == [T \in SUBSET S |->
                     {y \in Restos(d) :
                         /\ IntegroSalvo(y, {}) /\ RefsSiguen(d, y) /\ NmEnteras(d, y)
                         /\ \A Y : T \subseteq Y.estructuras => Toma(d, y, Y)}]
  <2>1. d \in I[{}]
    <3>1. NmEnteras(d, d)
      BY DEF NmEnteras
    <3>. QED BY <3>1, RestoPropio, SiguenPropias, TomaPropia
  <2>2. ASSUME NEW T \in SUBSET S, NEW n \in S \ T, NEW y \in I[T]
        PROVE  PorNm(0, n, y) \in I[T \cup {n}]
    <3>1. /\ y \in Restos(d) /\ y \in Diagramas /\ IntegroSalvo(y, {}) /\ RelPropias(y)
          /\ RefsSiguen(d, y) /\ NmEnteras(d, y)
          /\ \A Y : T \subseteq Y.estructuras => Toma(d, y, Y)
      BY RestoDe, RelPropiasResto
    <3>. DEFINE w == CerrarNm(n, y)
    <3>2. NmCerrada(w, y, n, {})
      BY <3>1, CerrarNmBien
    <3>. HIDE DEF w
    <3>3. w \in Restos(d) /\ IntegroSalvo(w, {}) /\ RefsSiguen(d, w) /\ NmEnteras(d, w)
      BY <3>1, <3>2, RestoDeResto, SiguenSiempre, EnterasSiempre DEF NmCerrada
    <3>4. ASSUME NEW Y, T \cup {n} \subseteq Y.estructuras PROVE Toma(d, w, Y)
      <4>1. w \in Restos(y) /\ Toma(y, w, Y) /\ Toma(d, y, Y)
        BY <3>1, <3>2, <3>4 DEF NmCerrada
      <4>. QED BY <3>1, <4>1, TomaSiempre
    <3>. QED BY <3>3, <3>4 DEF w, PorNm
  <2>3. sinNm = PlNm!Fold(0, d, S)
    BY DEF FoldSet, MapThenFoldSet, PlNm!Fold, PlNm!FoldSet, PlNm!MapThenFoldSet, PorNm
  <2>4. PlNm!IsFiniteSet(S)
    <3>1. IsFiniteSet(DOMAIN d.estructuras) /\ S \subseteq DOMAIN d.estructuras
      BY RestoPropio, CuantasNm DEF EstructurasListadas
    <3>2. IsFiniteSet(S)
      BY <3>1, FS_Subset
    <3>. QED BY <3>2 DEF PlNm!IsFiniteSet, IsFiniteSet
  <2>5. sinNm \in I[S]
    <3>. HIDE DEF I, S, sinNm
    <3>. QED BY <2>1, <2>2, <2>3, <2>4, PlNm!Invariante
  <2>. QED BY <2>5
<1>. HIDE DEF sinNm
<1>3. sinNm \in Diagramas /\ RelPropias(sinNm)
  BY <1>2, RestoDe, RelPropiasResto
<1>4. /\ sinRel \in Restos(sinNm) /\ IntegroSalvo(sinRel, {}) /\ RefsSiguen(sinNm, sinRel)
      /\ A \cap DOMAIN sinRel.relaciones = {} /\ NmEnteras(sinNm, sinRel)
      /\ \A Y : A \subseteq Y.relaciones => Toma(sinNm, sinRel, Y)
  <2>. DEFINE I == [T \in SUBSET A |->
                     {y \in Restos(sinNm) :
                         /\ IntegroSalvo(y, {}) /\ RefsSiguen(sinNm, y) /\ NmEnteras(sinNm, y)
                         /\ T \cap DOMAIN y.relaciones = {}
                         /\ \A Y : T \subseteq Y.relaciones => Toma(sinNm, y, Y)}]
  <2>1. sinNm \in I[{}]
    <3>1. NmEnteras(sinNm, sinNm)
      BY DEF NmEnteras
    <3>. QED BY <1>2, <1>3, <3>1, RestoPropio, SiguenPropias, TomaPropia
  <2>2. ASSUME NEW T \in SUBSET A, NEW r \in A \ T, NEW y \in I[T]
        PROVE  PorCierre(0, r, y) \in I[T \cup {r}]
    <3>1. /\ y \in Restos(sinNm) /\ y \in Diagramas /\ RelPropias(y)
          /\ IntegroSalvo(y, {}) /\ T \cap DOMAIN y.relaciones = {}
          /\ RefsSiguen(sinNm, y) /\ NmEnteras(sinNm, y)
          /\ \A Y : T \subseteq Y.relaciones => Toma(sinNm, y, Y)
      BY <1>3, RestoDe, RelPropiasResto
    <3>. DEFINE w == CerrarRelacion(r, y)
    <3>2. /\ w \in Restos(y) /\ IntegroSalvo(w, {}) /\ r \notin DOMAIN w.relaciones
          /\ RefsSiguen(y, w) /\ NmEnteras(y, w)
          /\ \A Y : r \in Y.relaciones => Toma(y, w, Y)
      BY <3>1, CerrarRelacionBien
    <3>. HIDE DEF w
    <3>3. /\ w \in Restos(sinNm) /\ DOMAIN w.relaciones \subseteq DOMAIN y.relaciones
          /\ RefsSiguen(sinNm, w) /\ NmEnteras(sinNm, w)
      BY <1>3, <3>1, <3>2, RestoDe, RestoDeResto, SiguenSiempre, EnterasSiempre
    <3>5. ASSUME NEW Y, T \cup {r} \subseteq Y.relaciones PROVE Toma(sinNm, w, Y)
      BY <1>3, <3>1, <3>2, <3>5, TomaSiempre
    <3>4. w \in I[T \cup {r}]
      BY <3>1, <3>2, <3>3, <3>5
    <3>. QED BY <3>4 DEF w, PorCierre
  <2>3. sinRel = PlCie!Fold(0, sinNm, A)
    BY DEF FoldSet, MapThenFoldSet, PlCie!Fold, PlCie!FoldSet, PlCie!MapThenFoldSet, PorCierre
  <2>4. PlCie!IsFiniteSet(A)
    <3>1. IsFiniteSet(A)
      BY <1>3, IdsAssumption, FilasBien, FS_Subset DEF RelacionesDe
    <3>. QED BY <3>1 DEF PlCie!IsFiniteSet, IsFiniteSet
  <2>5. sinRel \in I[A]
    <3>. HIDE DEF I, A, sinRel
    <3>. QED BY <2>1, <2>2, <2>3, <2>4, PlCie!Invariante
  <2>. QED BY <2>5
<1>. HIDE DEF sinRel
<1>5. RelacionesDe(sinRel, c) = {}
  <2>1. /\ DOMAIN sinRel.relaciones \subseteq DOMAIN sinNm.relaciones
        /\ \A r \in DOMAIN sinRel.relaciones : sinRel.relaciones[r] = sinNm.relaciones[r]
    BY <1>3, <1>4, RestoDe
  <2>. QED BY <1>4, <2>1 DEF RelacionesDe
<1>6. sinRel \in Diagramas /\ sinRel \in Restos(d)
  BY <1>2, <1>3, <1>4, RestoDe, RestoDeResto
<1>7. /\ x \in Restos(sinRel) /\ IntegroSalvo(x, {}) /\ RefsSiguen(sinRel, x)
      /\ x.estructuras = sinRel.estructuras /\ c \notin x.clases
      /\ \A Y : c \in Y.clases => Toma(sinRel, x, Y)
  BY <1>1, <1>4, <1>5, <1>6, QuitarClaseBien
<1>8. RefsSiguen(d, sinRel) /\ NmEnteras(d, sinRel)
  BY <1>2, <1>4, SiguenSiempre, EnterasSiempre
<1>9. x \in Restos(d) /\ RefsSiguen(d, x)
  BY <1>6, <1>7, <1>8, RestoDeResto, SiguenSiempre
<1>10. NmEnteras(d, x)
  <2>1. NmEnteras(sinRel, x)
    BY <1>7 DEF NmEnteras
  <2>. QED BY <1>6, <1>7, <1>8, <2>1, EnterasSiempre
<1>11. ASSUME NEW Y, c \in Y.clases, Cerrado(d, Y) PROVE Toma(d, x, Y)
  <2>1. S \subseteq Y.estructuras
    BY <1>11 DEF Cerrado, EstructurasListadas
  <2>. HIDE DEF S
  <2>2. Toma(d, sinNm, Y)
    BY <1>2, <2>1
  <2>3. Cerrado(sinNm, Y)
    <3>1. Dentro(d, sinNm, Y)
      BY <1>11, <2>2 DEF Toma
    <3>. QED BY <1>2, <1>11, <3>1, CerradoSigue
  <2>4. A \subseteq Y.relaciones
    BY <1>11, <2>3 DEF Cerrado, RelacionesDe
  <2>. HIDE DEF A
  <2>5. Toma(d, sinRel, Y)
    <3>1. Toma(sinNm, sinRel, Y)
      BY <1>4, <2>4
    <3>. QED BY <1>2, <1>4, <2>2, <3>1, TomaSiempre
  <2>6. Toma(sinRel, x, Y)
    BY <1>7, <1>11
  <2>. QED BY <1>4, <1>6, <1>7, <2>5, <2>6, TomaSiempre
<1>12. \A Y : c \in Y.clases => Toma(d, x, Y)
  BY <1>11 DEF Toma
<1>. QED BY <1>7, <1>9, <1>10, <1>12

\* A relation that keeps the reference it needs, or needs none, is no
\* exception any more.
LEMMA SalvoMaterial ==
    ASSUME NEW d, NEW r, IntegroSalvo(d, {r}),
           r \in DOMAIN d.relaciones => Materializada(d, r)
    PROVE  IntegroSalvo(d, {})
  BY DEF IntegroSalvo

LEMMA CerrarReferenciaBien ==
    ASSUME NEW d \in Diagramas, RelPropias(d), IntegroSalvo(d, {}), NEW f,
           NEW x, x = CerrarReferencia(f, d)
    PROVE  /\ x \in Restos(d) /\ IntegroSalvo(x, {}) /\ f \notin DOMAIN x.referencias
           /\ NmEnteras(d, x) /\ \A Y : f \in Y.referencias => Toma(d, x, Y)
<1>1. CASE f \notin DOMAIN d.referencias
  <2>1. x = d
    BY <1>1 DEF CerrarReferencia
  <2>. QED BY <1>1, <2>1, RestoPropio, TomaPropia DEF NmEnteras
<1>2. CASE f \in DOMAIN d.referencias
  <2>. DEFINE r == d.referencias[f].relacion
              y == QuitarReferencia(f, d)
              cae == r \in DOMAIN d.relaciones /\ ~Materializada(y, r)
  <2>1. x = IF cae THEN CerrarRelacion(r, y) ELSE y
    BY <1>2 DEF CerrarReferencia
  <2>2. y = QuitarReferencia(f, d)
    OBVIOUS
  <2>. HIDE DEF y
  <2>3. /\ y \in Restos(d) /\ y.relaciones = d.relaciones
        /\ DOMAIN y.referencias = DOMAIN d.referencias \ {f}
        /\ IntegroSalvo(y, {} \cup {r}) /\ y.estructuras = d.estructuras
        /\ \A Y : f \in Y.referencias => Toma(d, y, Y)
    BY <1>2, <2>2, QuitarReferenciaBien
  <2>4. NmEnteras(d, y)
    BY <2>3 DEF NmEnteras
  <2>5. {} \cup {r} = {r} /\ {r} \in SUBSET Relaciones
    BY <1>2, FilasBien DEF Referencia
  <2>6. y \in Diagramas /\ RelPropias(y) /\ IntegroSalvo(y, {r})
    BY <2>3, <2>5, RestoDe, RelPropiasResto
  <2>7. CASE cae
    <3>1. x = CerrarRelacion(r, y)
      BY <2>1, <2>7
    <3>. HIDE DEF r
    <3>2. /\ x \in Restos(y) /\ IntegroSalvo(x, {r}) /\ r \notin DOMAIN x.relaciones
          /\ NmEnteras(y, x) /\ \A Y : r \in Y.relaciones => Toma(y, x, Y)
      BY <2>5, <2>6, <3>1, CerrarRelacionBien
    <3>3. IntegroSalvo(x, {})
      BY <3>2, SalvoMaterial
    <3>4. x \in Restos(d) /\ DOMAIN x.referencias \subseteq DOMAIN y.referencias
      BY <2>3, <2>6, <3>2, RestoDe, RestoDeResto
    <3>5. NmEnteras(d, x)
      BY <2>3, <2>4, <3>2, EnterasSiempre
    <3>6. ASSUME NEW Y, f \in Y.referencias, Cerrado(d, Y) PROVE Toma(d, x, Y)
      <4>1. Toma(d, y, Y)
        BY <2>3, <3>6
      <4>2. Cerrado(y, Y)
        <5>1. Dentro(d, y, Y)
          BY <3>6, <4>1 DEF Toma
        <5>. QED BY <2>3, <2>6, <3>6, <5>1, CerradoSigue
      <4>3. SinMateria(y, Y, r) /\ r \in DOMAIN y.relaciones
        BY <2>3, <2>7 DEF SinMateria, Materializada
      <4>4. r \in Y.relaciones
        BY <4>2, <4>3 DEF Cerrado
      <4>. QED BY <2>3, <2>6, <3>2, <4>1, <4>4, TomaSiempre
    <3>7. \A Y : f \in Y.referencias => Toma(d, x, Y)
      BY <3>6 DEF Toma
    <3>. QED BY <2>3, <3>3, <3>4, <3>5, <3>7
  <2>8. CASE ~cae
    <3>1. x = y
      BY <2>1, <2>8
    <3>2. r \in DOMAIN y.relaciones => Materializada(y, r)
      BY <2>3, <2>8
    <3>. HIDE DEF r
    <3>3. IntegroSalvo(y, {})
      BY <2>6, <3>2, SalvoMaterial
    <3>. QED BY <2>3, <2>4, <3>1, <3>3
  <2>. QED BY <2>7, <2>8
<1>. QED BY <1>1, <1>2

\* The route that does not look at the structures, of a relation that is
\* part of none.
LEMMA CerrarReferenciaCiegaBien ==
    ASSUME NEW d \in Diagramas, IntegroSalvo(d, {}), NEW f \in DOMAIN d.referencias,
           SinNm(d, d.referencias[f].relacion), NEW x, x = CerrarReferenciaCiega(f, d)
    PROVE  /\ x \in Restos(d) /\ IntegroSalvo(x, {}) /\ f \notin DOMAIN x.referencias
           /\ x.estructuras = d.estructuras
           /\ NmEnteras(d, x) /\ \A Y : f \in Y.referencias => Toma(d, x, Y)
<1>. DEFINE r == d.referencias[f].relacion
            y == QuitarReferencia(f, d)
<1>1. x = IF Materializada(y, r) THEN y ELSE QuitarRelacion(r, y)
  BY DEF CerrarReferenciaCiega
<1>2. y = QuitarReferencia(f, d)
  OBVIOUS
<1>. HIDE DEF y
<1>3. /\ y \in Restos(d) /\ y.estructuras = d.estructuras
      /\ DOMAIN y.referencias = DOMAIN d.referencias \ {f}
      /\ IntegroSalvo(y, {} \cup {r}) /\ y.relaciones = d.relaciones
      /\ \A Y : f \in Y.referencias => Toma(d, y, Y)
  <2>1. y \in Restos(d)
    BY <1>2, QuitarReferenciaBien
  <2>2. y.relaciones = d.relaciones /\ y.estructuras = d.estructuras
    BY <1>2 DEF QuitarReferencia, LimpiarFk, SinReferencia, SinAtributo, Diagramas
  <2>3. DOMAIN y.referencias = DOMAIN d.referencias \ {f}
    BY <1>2, QuitarReferenciaBien
  <2>4. IntegroSalvo(y, {} \cup {d.referencias[f].relacion})
    BY <1>2, QuitarReferenciaBien
  <2>5. \A Y : f \in Y.referencias => Toma(d, y, Y)
    BY <1>2, QuitarReferenciaBien
  <2>. QED BY <2>1, <2>2, <2>3, <2>4, <2>5
<1>4. y \in Diagramas /\ IntegroSalvo(y, {r}) /\ SinNm(y, r)
  <2>1. {} \cup {r} = {r}
    OBVIOUS
  <2>2. SinNm(y, r)
    BY <1>3 DEF SinNm
  <2>. QED BY <1>3, <2>1, <2>2, RestoDe
<1>5. r \in DOMAIN d.relaciones
  BY DEF IntegroSalvo, ReferenciaBien
<1>. HIDE DEF r
<1>6. NmEnteras(d, y)
  BY <1>3 DEF NmEnteras
<1>7. CASE Materializada(y, r)
  <2>1. x = y
    BY <1>1, <1>7
  <2>2. IntegroSalvo(y, {})
    BY <1>4, <1>7, SalvoMaterial
  <2>. QED BY <1>3, <1>6, <2>1, <2>2
<1>8. CASE ~Materializada(y, r)
  <2>1. x = QuitarRelacion(r, y)
    BY <1>1, <1>8
  <2>2. x \in Restos(y) /\ IntegroSalvo(x, {r} \ {r})
    BY <1>4, <2>1, QuitarRelacionBien
  <2>5. x.estructuras = y.estructuras /\ \A Y : r \in Y.relaciones => Toma(y, x, Y)
    <3>1. ASSUME NEW e \in Diagramas, NEW R, IntegroSalvo(e, R), NEW q, SinNm(e, q),
                 NEW w, w = QuitarRelacion(q, e)
          PROVE  w.estructuras = e.estructuras /\ \A Y : q \in Y.relaciones => Toma(e, w, Y)
      BY <3>1, QuitarRelacionBien
    <3>. QED BY <1>4, <2>1, <3>1
  <2>3. {r} \ {r} = {}
    OBVIOUS
  <2>4. x \in Restos(d) /\ DOMAIN x.referencias \subseteq DOMAIN y.referencias
    BY <1>3, <1>4, <2>2, RestoDe, RestoDeResto
  <2>6. NmEnteras(d, x)
    BY <1>3, <2>5 DEF NmEnteras
  <2>7. ASSUME NEW Y, f \in Y.referencias, Cerrado(d, Y) PROVE Toma(d, x, Y)
    <3>1. Toma(d, y, Y)
      BY <1>3, <2>7
    <3>2. Cerrado(y, Y)
      <4>1. Dentro(d, y, Y)
        BY <2>7, <3>1 DEF Toma
      <4>. QED BY <1>3, <1>4, <2>7, <4>1, CerradoSigue
    <3>3. SinMateria(y, Y, r) /\ r \in DOMAIN y.relaciones
      BY <1>3, <1>8, <1>5 DEF SinMateria, Materializada
    <3>4. r \in Y.relaciones
      BY <3>2, <3>3 DEF Cerrado
    <3>. QED BY <1>3, <1>4, <2>2, <2>5, <3>1, <3>4, TomaSiempre
  <2>8. \A Y : f \in Y.referencias => Toma(d, x, Y)
    BY <2>7 DEF Toma
  <2>. QED BY <1>3, <2>2, <2>3, <2>4, <2>5, <2>6, <2>8
<1>. QED BY <1>7, <1>8

\* An attribute goes when no reference touches it any more.
LEMMA SinAtributoBien ==
    ASSUME NEW d \in Diagramas, IntegroSalvo(d, {}), NEW a, ReferenciasCon(d, a) = {},
           NEW x, x = SinAtributo(d, a)
    PROVE  /\ x \in Restos(d) /\ IntegroSalvo(x, {})
           /\ a \notin DOMAIN x.atributos /\ NmEnteras(d, x)
           /\ \A Y : a \in Y.atributos => Toma(d, x, Y)
<1>1. /\ x \in Restos(d) /\ x.clases = d.clases /\ x.relaciones = d.relaciones
      /\ x.referencias = d.referencias /\ x.estructuras = d.estructuras
      /\ DOMAIN x.atributos = DOMAIN d.atributos \ {a}
  <2>1. DOMAIN Sin(d.atributos, {a}) = DOMAIN d.atributos \ {a}
    BY DEF Sin
  <2>2. x \in Restos(d)
    BY SinAtributos DEF SinAtributo
  <2>. QED BY <2>1, <2>2 DEF SinAtributo, Diagramas
<1>2. ASSUME NEW f \in DOMAIN x.referencias
      PROVE  /\ d.referencias[f].relacion \in DOMAIN x.relaciones
             /\ {d.referencias[f].fk, d.referencias[f].referenciado} \subseteq DOMAIN x.atributos
  <2>1. ReferenciaBien(d, f)
    BY <1>1 DEF IntegroSalvo
  <2>2. a \notin {d.referencias[f].fk, d.referencias[f].referenciado}
    BY <1>1 DEF ReferenciasCon, Toca
  <2>. QED BY <1>1, <2>1, <2>2 DEF ReferenciaBien
<1>3. \A b \in DOMAIN x.atributos :
        /\ d.atributos[b].clase \in x.clases
        /\ ForaneaPura(d.atributos[b]) => \E f \in DOMAIN x.referencias : d.referencias[f].fk = b
  BY <1>1 DEF IntegroSalvo, AtributoBien, ForaneaBien
<1>4. \A r \in DOMAIN x.relaciones :
        /\ Extremos(d.relaciones[r]) \subseteq x.clases
        /\ r \notin {} => r \notin {} /\ ReferenciasDe(d, r) \subseteq DOMAIN x.referencias
  BY <1>1 DEF IntegroSalvo, ReferenciasDe
<1>5. \A n \in DOMAIN x.estructuras :
        /\ ClasesDe(d.estructuras[n]) \subseteq x.clases
        /\ {d.estructuras[n].relOrigen, d.estructuras[n].relDestino} \subseteq DOMAIN x.relaciones
  BY <1>1 DEF IntegroSalvo, EstructuraBien
<1>6. IntegroSalvo(x, {})
  BY <1>1, <1>2, <1>3, <1>4, <1>5, Recortar
<1>7. \A Y : a \in Y.atributos => Toma(d, x, Y)
  BY <1>1 DEF Toma, Dentro
<1>. QED BY <1>1, <1>6, <1>7 DEF NmEnteras

\* Once the references that touched an attribute are gone, none does.
LEMMA NadieToca ==
    ASSUME NEW d \in Diagramas, NEW x \in Restos(d), NEW a,
           ReferenciasCon(d, a) \cap DOMAIN x.referencias = {}
    PROVE  ReferenciasCon(x, a) = {}
<1>1. /\ DOMAIN x.referencias \subseteq DOMAIN d.referencias
      /\ \A f \in DOMAIN x.referencias : x.referencias[f] = d.referencias[f]
  BY RestoDe
<1>. QED BY <1>1 DEF ReferenciasCon

LEMMA CerrarAtributoBien ==
    ASSUME NEW d \in Diagramas, RelPropias(d), IntegroSalvo(d, {}), NEW a,
           NEW x, x = CerrarAtributo(a, d)
    PROVE  /\ x \in Restos(d) /\ IntegroSalvo(x, {})
           /\ a \notin DOMAIN x.atributos /\ NmEnteras(d, x)
           /\ \A Y : a \in Y.atributos => Toma(d, x, Y)
<1>. DEFINE S == ReferenciasCon(d, a)
            y == FoldSet(CerrarReferencia, d, S)
            I == [T \in SUBSET S |->
                   {e \in Restos(d) :
                       /\ IntegroSalvo(e, {}) /\ T \cap DOMAIN e.referencias = {}
                       /\ NmEnteras(d, e) /\ \A Y : T \subseteq Y.referencias => Toma(d, e, Y)}]
<1>1. d \in I[{}]
  <2>1. NmEnteras(d, d)
    BY DEF NmEnteras
  <2>. QED BY <2>1, RestoPropio, TomaPropia
<1>2. ASSUME NEW T \in SUBSET S, NEW f \in S \ T, NEW e \in I[T]
      PROVE  PorFk(0, f, e) \in I[T \cup {f}]
  <2>1. /\ e \in Restos(d) /\ e \in Diagramas /\ RelPropias(e) /\ IntegroSalvo(e, {})
        /\ T \cap DOMAIN e.referencias = {} /\ NmEnteras(d, e)
        /\ \A Y : T \subseteq Y.referencias => Toma(d, e, Y)
    BY RestoDe, RelPropiasResto
  <2>. DEFINE w == CerrarReferencia(f, e)
  <2>2. /\ w \in Restos(e) /\ IntegroSalvo(w, {}) /\ f \notin DOMAIN w.referencias
        /\ NmEnteras(e, w) /\ \A Y : f \in Y.referencias => Toma(e, w, Y)
    BY <2>1, CerrarReferenciaBien
  <2>. HIDE DEF w
  <2>3. /\ w \in Restos(d) /\ DOMAIN w.referencias \subseteq DOMAIN e.referencias
        /\ NmEnteras(d, w)
    BY <2>1, <2>2, RestoDe, RestoDeResto, EnterasSiempre
  <2>5. ASSUME NEW Y, T \cup {f} \subseteq Y.referencias PROVE Toma(d, w, Y)
    BY <2>1, <2>2, <2>5, TomaSiempre
  <2>4. w \in I[T \cup {f}]
    BY <2>1, <2>2, <2>3, <2>5
  <2>. QED BY <2>4 DEF w, PorFk
<1>3. y = PlFk!Fold(0, d, S)
  BY DEF FoldSet, MapThenFoldSet, PlFk!Fold, PlFk!FoldSet, PlFk!MapThenFoldSet, PorFk
<1>4. PlFk!IsFiniteSet(S)
  <2>1. IsFiniteSet(S)
    BY IdsAssumption, FilasBien, FS_Subset DEF ReferenciasCon
  <2>. QED BY <2>1 DEF PlFk!IsFiniteSet, IsFiniteSet
<1>5. y \in I[S]
  <2>. HIDE DEF I, S, y
  <2>. QED BY <1>1, <1>2, <1>3, <1>4, PlFk!Invariante
<1>6. x = SinAtributo(y, a)
  BY DEF CerrarAtributo
<1>. HIDE DEF y
<1>7. /\ y \in Restos(d) /\ y \in Diagramas /\ IntegroSalvo(y, {}) /\ ReferenciasCon(y, a) = {}
      /\ NmEnteras(d, y) /\ \A Y : S \subseteq Y.referencias => Toma(d, y, Y)
  BY <1>5, RestoDe, NadieToca
<1>8. /\ x \in Restos(y) /\ IntegroSalvo(x, {})
      /\ a \notin DOMAIN x.atributos /\ NmEnteras(y, x)
      /\ \A Y : a \in Y.atributos => Toma(y, x, Y)
  BY <1>6, <1>7, SinAtributoBien
<1>9. x \in Restos(d) /\ NmEnteras(d, x)
  BY <1>7, <1>8, RestoDeResto, EnterasSiempre
<1>10. ASSUME NEW Y, a \in Y.atributos, Cerrado(d, Y) PROVE Toma(d, x, Y)
  <2>1. S \subseteq Y.referencias
    BY <1>10 DEF Cerrado, ReferenciasCon, Toca
  <2>. HIDE DEF S
  <2>2. Toma(d, y, Y) /\ Toma(y, x, Y)
    BY <1>7, <1>8, <1>10, <2>1
  <2>. QED BY <1>7, <1>8, <2>2, TomaSiempre
<1>11. \A Y : a \in Y.atributos => Toma(d, x, Y)
  BY <1>10 DEF Toma
<1>. QED BY <1>8, <1>9, <1>11

LEMMA CerrarAtributoCiegoBien ==
    ASSUME NEW d \in Diagramas, IntegroSalvo(d, {}), NEW a,
           \A f \in ReferenciasCon(d, a) : SinNm(d, d.referencias[f].relacion),
           NEW x, x = CerrarAtributoCiego(a, d)
    PROVE  /\ x \in Restos(d) /\ IntegroSalvo(x, {})
           /\ a \notin DOMAIN x.atributos /\ NmEnteras(d, x)
           /\ \A Y : a \in Y.atributos => Toma(d, x, Y)
<1>. DEFINE S == ReferenciasCon(d, a)
            y == FoldSet(SiSigue, d, S)
            I == [T \in SUBSET S |->
                   {e \in Restos(d) :
                       /\ IntegroSalvo(e, {}) /\ T \cap DOMAIN e.referencias = {}
                       /\ NmEnteras(d, e) /\ \A Y : T \subseteq Y.referencias => Toma(d, e, Y)}]
<1>1. d \in I[{}]
  <2>1. NmEnteras(d, d)
    BY DEF NmEnteras
  <2>. QED BY <2>1, RestoPropio, TomaPropia
<1>2. ASSUME NEW T \in SUBSET S, NEW f \in S \ T, NEW e \in I[T]
      PROVE  PorCiega(0, f, e) \in I[T \cup {f}]
  <2>1. /\ e \in Restos(d) /\ e \in Diagramas /\ IntegroSalvo(e, {})
        /\ T \cap DOMAIN e.referencias = {} /\ NmEnteras(d, e)
        /\ \A Y : T \subseteq Y.referencias => Toma(d, e, Y)
        /\ DOMAIN e.estructuras \subseteq DOMAIN d.estructuras
        /\ \A n \in DOMAIN e.estructuras : e.estructuras[n] = d.estructuras[n]
        /\ \A g \in DOMAIN e.referencias : e.referencias[g] = d.referencias[g]
    BY RestoDe
  <2>. DEFINE w == SiSigue(f, e)
  <2>2. /\ w \in Restos(e) /\ IntegroSalvo(w, {}) /\ f \notin DOMAIN w.referencias
        /\ NmEnteras(e, w) /\ \A Y : f \in Y.referencias => Toma(e, w, Y)
    <3>1. CASE f \notin DOMAIN e.referencias
      <4>1. w = e
        BY <3>1 DEF SiSigue
      <4>2. NmEnteras(e, e)
        BY DEF NmEnteras
      <4>. QED BY <2>1, <3>1, <4>1, <4>2, RestoPropio, TomaPropia
    <3>2. CASE f \in DOMAIN e.referencias
      <4>1. w = CerrarReferenciaCiega(f, e)
        BY <3>2 DEF SiSigue
      <4>2. SinNm(d, e.referencias[f].relacion)
        BY <2>1, <3>2
      <4>3. SinNm(e, e.referencias[f].relacion)
        BY <2>1, <4>2 DEF SinNm
      <4>. HIDE DEF w
      <4>. QED BY <2>1, <3>2, <4>1, <4>3, CerrarReferenciaCiegaBien
    <3>. QED BY <3>1, <3>2
  <2>. HIDE DEF w
  <2>3. /\ w \in Restos(d) /\ DOMAIN w.referencias \subseteq DOMAIN e.referencias
        /\ NmEnteras(d, w)
    BY <2>1, <2>2, RestoDe, RestoDeResto, EnterasSiempre
  <2>5. ASSUME NEW Y, T \cup {f} \subseteq Y.referencias PROVE Toma(d, w, Y)
    BY <2>1, <2>2, <2>5, TomaSiempre
  <2>4. w \in I[T \cup {f}]
    BY <2>1, <2>2, <2>3, <2>5
  <2>. QED BY <2>4 DEF w, PorCiega
<1>3. y = PlCiega!Fold(0, d, S)
  BY DEF FoldSet, MapThenFoldSet, PlCiega!Fold, PlCiega!FoldSet, PlCiega!MapThenFoldSet, PorCiega
<1>4. PlCiega!IsFiniteSet(S)
  <2>1. IsFiniteSet(S)
    BY IdsAssumption, FilasBien, FS_Subset DEF ReferenciasCon
  <2>. QED BY <2>1 DEF PlCiega!IsFiniteSet, IsFiniteSet
<1>5. y \in I[S]
  <2>. HIDE DEF I, S, y
  <2>. QED BY <1>1, <1>2, <1>3, <1>4, PlCiega!Invariante
<1>6. x = SinAtributo(y, a)
  BY DEF CerrarAtributoCiego
<1>. HIDE DEF y
<1>7. /\ y \in Restos(d) /\ y \in Diagramas /\ IntegroSalvo(y, {}) /\ ReferenciasCon(y, a) = {}
      /\ NmEnteras(d, y) /\ \A Y : S \subseteq Y.referencias => Toma(d, y, Y)
  BY <1>5, RestoDe, NadieToca
<1>8. /\ x \in Restos(y) /\ IntegroSalvo(x, {})
      /\ a \notin DOMAIN x.atributos /\ NmEnteras(y, x)
      /\ \A Y : a \in Y.atributos => Toma(y, x, Y)
  BY <1>6, <1>7, SinAtributoBien
<1>9. x \in Restos(d) /\ NmEnteras(d, x)
  BY <1>7, <1>8, RestoDeResto, EnterasSiempre
<1>10. ASSUME NEW Y, a \in Y.atributos, Cerrado(d, Y) PROVE Toma(d, x, Y)
  <2>1. S \subseteq Y.referencias
    BY <1>10 DEF Cerrado, ReferenciasCon, Toca
  <2>. HIDE DEF S
  <2>2. Toma(d, y, Y) /\ Toma(y, x, Y)
    BY <1>7, <1>8, <1>10, <2>1
  <2>. QED BY <1>7, <1>8, <2>2, TomaSiempre
<1>11. \A Y : a \in Y.atributos => Toma(d, x, Y)
  BY <1>10 DEF Toma
<1>. QED BY <1>8, <1>9, <1>11

(***************************************************************************)
(* The abstract diagram, whose definitions these instances repeat.         *)
(***************************************************************************)
\* The queries of the two, one by one, are the same.
LEMMA MismaBase ==
    /\ \A e, x : Abstracto!ReferenciasDe(e, x) = ReferenciasDe(e, x)
    /\ \A e, x : Abstracto!ReferenciasCon(e, x) = ReferenciasCon(e, x)
    /\ \A x : Abstracto!ForaneaPura(x) <=> ForaneaPura(x)
    /\ \A x : Abstracto!Extremos(x) = Extremos(x)
    /\ \A x : Abstracto!ClasesDe(x) = ClasesDe(x)
    /\ \A x : Abstracto!RequiereMaterializacion(x) <=> RequiereMaterializacion(x)
    /\ \A e, x : Abstracto!Materializa(e, x) <=> Materializa(e, x)
    /\ \A x, u : Abstracto!Manual(x, u) = Manual(x, u)
<1>1. \A x : Abstracto!ForaneaPura(x) <=> ForaneaPura(x)
  BY DEF Abstracto!ForaneaPura, ForaneaPura, Abstracto!Referenciable, Referenciable
<1>2. \A x : Abstracto!Extremos(x) = Extremos(x)
  BY DEF Abstracto!Extremos, Extremos
<1>3. \A x : Abstracto!ClasesDe(x) = ClasesDe(x)
  BY DEF Abstracto!ClasesDe, ClasesDe
<1>4. \A x : Abstracto!RequiereMaterializacion(x) <=> RequiereMaterializacion(x)
  BY DEF Abstracto!RequiereMaterializacion, RequiereMaterializacion
<1>5. \A e, x : Abstracto!Materializa(e, x) <=> Materializa(e, x)
  BY DEF Abstracto!Materializa, Materializa, Abstracto!LadoCorrecto, LadoCorrecto,
         Abstracto!Extremos, Extremos
<1>6. \A e, x : Abstracto!ReferenciasDe(e, x) = ReferenciasDe(e, x)
  BY DEF Abstracto!ReferenciasDe, ReferenciasDe
<1>7. \A e, x : Abstracto!ReferenciasCon(e, x) = ReferenciasCon(e, x)
  BY DEF Abstracto!ReferenciasCon, ReferenciasCon, Abstracto!Toca, Toca
<1>8. \A x, u : Abstracto!Manual(x, u) = Manual(x, u)
  BY DEF Abstracto!Manual, Manual
<1>. QED BY <1>1, <1>2, <1>3, <1>4, <1>5, <1>6, <1>7, <1>8

\* And so is what it means to fit.
LEMMA MismoBien ==
    /\ \A e : Abstracto!EsDiagrama(e) <=> EsDiagrama(e)
    /\ \A e, x : Abstracto!AtributoBien(e, x) <=> AtributoBien(e, x)
    /\ \A e, x : Abstracto!ForaneaBien(e, x) <=> ForaneaBien(e, x)
    /\ \A e, x : Abstracto!RelacionBien(e, x) <=> RelacionBien(e, x)
    /\ \A e, x : Abstracto!ReferenciaBien(e, x) <=> ReferenciaBien(e, x)
    /\ \A e, x : Abstracto!EstructuraBien(e, x) <=> EstructuraBien(e, x)
<1>1. \A e : Abstracto!EsDiagrama(e) <=> EsDiagrama(e)
  BY DEF Abstracto!EsDiagrama, EsDiagrama, Abstracto!Vacio, Vacio, Abstracto!Tabla, Tabla,
         Abstracto!Atributo, Atributo, Abstracto!Relacion, Relacion,
         Abstracto!Referencia, Referencia, Abstracto!Estructura, Estructura,
         Abstracto!Procedencias, Procedencias, Abstracto!Formas, Formas
<1>2. \A e, x : Abstracto!AtributoBien(e, x) <=> AtributoBien(e, x)
  BY DEF Abstracto!AtributoBien, AtributoBien
<1>3. \A e, x : Abstracto!ForaneaBien(e, x) <=> ForaneaBien(e, x)
  BY MismaBase DEF Abstracto!ForaneaBien, ForaneaBien
<1>4. \A e, x : Abstracto!RelacionBien(e, x) <=> RelacionBien(e, x)
  BY MismaBase DEF Abstracto!RelacionBien, RelacionBien, Abstracto!Materializada, Materializada
<1>5. \A e, x : Abstracto!ReferenciaBien(e, x) <=> ReferenciaBien(e, x)
  BY MismaBase DEF Abstracto!ReferenciaBien, ReferenciaBien
<1>6. \A e, x : Abstracto!EstructuraBien(e, x) <=> EstructuraBien(e, x)
  BY MismaBase DEF Abstracto!EstructuraBien, EstructuraBien
<1>. QED BY <1>1, <1>2, <1>3, <1>4, <1>5, <1>6

\* A piece of the diagram that fits together is what Quitar allows.
LEMMA QuitarBien ==
    ASSUME diagrama \in Diagramas, diagrama' \in Restos(diagrama), IntegroSalvo(diagrama', {})
    PROVE  Abstracto!Quitar
<1>. DEFINE d == diagrama
            e == diagrama'
<1>1. /\ e \in Diagramas /\ e.clases \subseteq d.clases
      /\ DOMAIN e.atributos \subseteq DOMAIN d.atributos
      /\ DOMAIN e.relaciones \subseteq DOMAIN d.relaciones
      /\ DOMAIN e.referencias \subseteq DOMAIN d.referencias
      /\ DOMAIN e.estructuras \subseteq DOMAIN d.estructuras
      /\ \A x \in DOMAIN e.atributos : e.atributos[x] = d.atributos[x]
      /\ \A x \in DOMAIN e.relaciones : e.relaciones[x] = d.relaciones[x]
      /\ \A x \in DOMAIN e.referencias : e.referencias[x] = d.referencias[x]
      /\ \A x \in DOMAIN e.estructuras : e.estructuras[x] = d.estructuras[x]
  BY RestoDe
<1>2. /\ \A a \in DOMAIN e.atributos   : AtributoBien(e, a) /\ ForaneaBien(e, a)
      /\ \A r \in DOMAIN e.relaciones  : Extremos(e.relaciones[r]) \subseteq e.clases
                                         /\ Materializada(e, r)
      /\ \A f \in DOMAIN e.referencias : ReferenciaBien(e, f)
      /\ \A n \in DOMAIN e.estructuras : EstructuraBien(e, n)
  BY DEF IntegroSalvo
<1>3. DOMAIN e = DOMAIN d
  BY <1>1 DEF Diagramas
<1>. HIDE DEF e, d
<1>4. Abstracto!Recorta(e)
  BY <1>1, <1>3 DEF Abstracto!Recorta, Abstracto!Extiende, d
<1>5. Abstracto!NadaCuelga(e)
  <2>1. \A a \in DOMAIN e.atributos : d.atributos[a].clase \in e.clases
    BY <1>1, <1>2 DEF AtributoBien
  <2>2. \A r \in DOMAIN e.relaciones : Abstracto!Extremos(d.relaciones[r]) \subseteq e.clases
    BY <1>1, <1>2, MismaBase
  <2>3. \A f \in DOMAIN e.referencias :
          /\ d.referencias[f].relacion \in DOMAIN e.relaciones
          /\ {d.referencias[f].fk, d.referencias[f].referenciado} \subseteq DOMAIN e.atributos
    BY <1>1, <1>2 DEF ReferenciaBien
  <2>4. \A n \in DOMAIN e.estructuras :
          /\ Abstracto!ClasesDe(d.estructuras[n]) \subseteq e.clases
          /\ {d.estructuras[n].relOrigen, d.estructuras[n].relDestino} \subseteq DOMAIN e.relaciones
    BY <1>1, <1>2, MismaBase DEF EstructuraBien
  <2>. QED BY <2>1, <2>2, <2>3, <2>4 DEF Abstracto!NadaCuelga, d
<1>6. Abstracto!NadaSinMaterializar(e)
  <2>1. ASSUME NEW r \in DOMAIN e.relaciones, RequiereMaterializacion(d.relaciones[r])
        PROVE  \E f \in ReferenciasDe(d, r) \cap DOMAIN e.referencias :
                  Materializa(d, d.referencias[f])
    <3>1. Materializada(e, r) /\ e.relaciones[r] = d.relaciones[r]
      BY <1>1, <1>2
    <3>2. PICK f \in ReferenciasDe(e, r) : Materializa(e, e.referencias[f])
      BY <2>1, <3>1 DEF Materializada
    <3>3. /\ f \in DOMAIN e.referencias /\ f \in DOMAIN d.referencias
          /\ e.referencias[f] = d.referencias[f] /\ d.referencias[f].relacion = r
      BY <1>1, <3>2 DEF ReferenciasDe
    <3>4. {d.referencias[f].fk, d.referencias[f].referenciado} \subseteq DOMAIN e.atributos
      BY <1>2, <3>3 DEF ReferenciaBien
    <3>5. Materializa(d, d.referencias[f])
      <4>1. Materializa(e, d.referencias[f])
        BY <3>2, <3>3
      <4>2. {d.referencias[f].fk, d.referencias[f].referenciado} \subseteq DOMAIN d.atributos
        BY <1>1, <3>4
      <4>3. /\ d.relaciones[d.referencias[f].relacion] = e.relaciones[d.referencias[f].relacion]
            /\ d.atributos[d.referencias[f].fk] = e.atributos[d.referencias[f].fk]
            /\ d.atributos[d.referencias[f].referenciado]
                  = e.atributos[d.referencias[f].referenciado]
        BY <1>1, <3>1, <3>3, <3>4
      <4>. QED BY <4>1, <4>2, <4>3, MismaMateria
    <3>6. f \in ReferenciasDe(d, r)
      BY <3>3 DEF ReferenciasDe
    <3>. QED BY <3>3, <3>5, <3>6
  <2>. QED BY <2>1, MismaBase DEF Abstracto!NadaSinMaterializar, d
<1>7. Abstracto!NadaSobra(e)
  <2>1. ASSUME NEW f \in DOMAIN d.referencias \ DOMAIN e.referencias,
               NEW a, a = d.referencias[f].fk, a \in DOMAIN e.atributos,
               ForaneaPura(d.atributos[a])
        PROVE  ReferenciasCon(d, a) \cap DOMAIN e.referencias # {}
    <3>1. PICK g \in DOMAIN e.referencias : e.referencias[g].fk = a
      BY <1>1, <1>2, <2>1 DEF ForaneaBien
    <3>2. g \in ReferenciasCon(d, a)
      BY <1>1, <3>1 DEF ReferenciasCon, Toca
    <3>. QED BY <3>1, <3>2
  <2>. QED BY <2>1, MismaBase DEF Abstracto!NadaSobra, d
<1>. QED BY <1>4, <1>5, <1>6, <1>7 DEF Abstracto!Quitar, e

(***************************************************************************)
(* What the operations that create add.                                    *)
(***************************************************************************)
\* A table with one row more is a table.
LEMMA ConTabla ==
    ASSUME NEW ids, NEW filas, NEW f \in Tablas(ids, filas), NEW x \in ids, NEW v \in filas
    PROVE  Con(f, x, v) \in Tablas(ids, filas)
<1>1. f \in [DOMAIN f -> filas] /\ DOMAIN f \in SUBSET ids
  BY TablaDe
<1>2. Con(f, x, v) \in [DOMAIN f \cup {x} -> filas]
  BY <1>1 DEF Con
<1>3. DOMAIN f \cup {x} \in SUBSET ids
  BY <1>1
<1>. QED BY <1>2, <1>3 DEF Tablas

\* g is f with a new row v.
Fila(g, f, x, v) ==
    /\ DOMAIN g = DOMAIN f \cup {x} /\ g[x] = v
    /\ \A y \in DOMAIN f : g[y] = f[y]

LEMMA ConFila ==
    ASSUME NEW f, NEW x, x \notin DOMAIN f, NEW v
    PROVE  Fila(Con(f, x, v), f, x, v)
BY DEF Con, Fila

\* e has the rows of d, as they were.
Crece(d, e) ==
    /\ d.clases \subseteq e.clases
    /\ DOMAIN d.atributos \subseteq DOMAIN e.atributos
    /\ DOMAIN d.relaciones \subseteq DOMAIN e.relaciones
    /\ DOMAIN d.referencias \subseteq DOMAIN e.referencias
    /\ DOMAIN d.estructuras \subseteq DOMAIN e.estructuras
    /\ \A x \in DOMAIN d.atributos : e.atributos[x] = d.atributos[x]
    /\ \A x \in DOMAIN d.relaciones : e.relaciones[x] = d.relaciones[x]
    /\ \A x \in DOMAIN d.referencias : e.referencias[x] = d.referencias[x]
    /\ \A x \in DOMAIN d.estructuras : e.estructuras[x] = d.estructuras[x]

\* The rows of e that d does not have fit in e.
Encajan(d, e) ==
    /\ \A a \in DOMAIN e.atributos \ DOMAIN d.atributos : AtributoBien(e, a) /\ ForaneaBien(e, a)
    /\ \A r \in DOMAIN e.relaciones \ DOMAIN d.relaciones : RelacionBien(e, r)
    /\ \A f \in DOMAIN e.referencias \ DOMAIN d.referencias : ReferenciaBien(e, f)
    /\ \A n \in DOMAIN e.estructuras \ DOMAIN d.estructuras : EstructuraBien(e, n)

\* A relation stays materialized when rows are added.
LEMMA MaterialCrece ==
    ASSUME NEW d, NEW e, IntegroSalvo(d, {}), Crece(d, e), NEW r \in DOMAIN d.relaciones
    PROVE  Materializada(e, r)
<1>1. Materializada(d, r) /\ e.relaciones[r] = d.relaciones[r]
  BY DEF IntegroSalvo, Crece
<1>2. CASE ~RequiereMaterializacion(d.relaciones[r])
  BY <1>1, <1>2 DEF Materializada
<1>3. CASE \E f \in ReferenciasDe(d, r) : Materializa(d, d.referencias[f])
  <2>1. PICK f \in ReferenciasDe(d, r) : Materializa(d, d.referencias[f])
    BY <1>3
  <2>2. f \in DOMAIN d.referencias /\ d.referencias[f].relacion = r
    BY DEF ReferenciasDe
  <2>3. f \in ReferenciasDe(e, r) /\ e.referencias[f] = d.referencias[f]
    <3>1. f \in DOMAIN e.referencias /\ e.referencias[f] = d.referencias[f]
      BY <2>2 DEF Crece
    <3>. QED BY <2>2, <3>1 DEF ReferenciasDe
  <2>4. {d.referencias[f].fk, d.referencias[f].referenciado} \subseteq DOMAIN d.atributos
    BY <2>1 DEF Materializa
  <2>5. /\ {d.referencias[f].fk, d.referencias[f].referenciado} \subseteq DOMAIN e.atributos
        /\ e.atributos[d.referencias[f].fk] = d.atributos[d.referencias[f].fk]
        /\ e.atributos[d.referencias[f].referenciado] = d.atributos[d.referencias[f].referenciado]
    BY <2>4 DEF Crece
  <2>6. Materializa(e, d.referencias[f])
    BY <1>1, <2>1, <2>2, <2>5, MismaMateria
  <2>. QED BY <2>3, <2>6 DEF Materializada
<1>. QED BY <1>1, <1>2, <1>3 DEF Materializada

\* A diagram that fits together and gains rows that fit still does.
LEMMA Ampliar ==
    ASSUME NEW d, NEW e, IntegroSalvo(d, {}), Crece(d, e), Encajan(d, e)
    PROVE  IntegroSalvo(e, {})
<1>1. ASSUME NEW a \in DOMAIN e.atributos PROVE AtributoBien(e, a) /\ ForaneaBien(e, a)
  <2>1. CASE a \notin DOMAIN d.atributos
    BY <2>1 DEF Encajan
  <2>2. CASE a \in DOMAIN d.atributos
    <3>1. AtributoBien(d, a) /\ ForaneaBien(d, a) /\ e.atributos[a] = d.atributos[a]
      BY <2>2 DEF IntegroSalvo, Crece
    <3>2. AtributoBien(e, a)
      BY <3>1 DEF AtributoBien, Crece
    <3>3. ForaneaBien(e, a)
      BY <3>1 DEF ForaneaBien, Crece
    <3>. QED BY <3>2, <3>3
  <2>. QED BY <2>1, <2>2
<1>2. ASSUME NEW r \in DOMAIN e.relaciones
      PROVE  Extremos(e.relaciones[r]) \subseteq e.clases /\ Materializada(e, r)
  <2>1. CASE r \notin DOMAIN d.relaciones
    BY <2>1 DEF Encajan, RelacionBien
  <2>2. CASE r \in DOMAIN d.relaciones
    <3>1. Extremos(d.relaciones[r]) \subseteq d.clases /\ e.relaciones[r] = d.relaciones[r]
      BY <2>2 DEF IntegroSalvo, Crece
    <3>2. Extremos(e.relaciones[r]) \subseteq e.clases
      BY <3>1 DEF Crece
    <3>. QED BY <2>2, <3>2, MaterialCrece
  <2>. QED BY <2>1, <2>2
<1>3. ASSUME NEW f \in DOMAIN e.referencias PROVE ReferenciaBien(e, f)
  <2>1. CASE f \notin DOMAIN d.referencias
    BY <2>1 DEF Encajan
  <2>2. CASE f \in DOMAIN d.referencias
    <3>1. ReferenciaBien(d, f) /\ e.referencias[f] = d.referencias[f]
      BY <2>2 DEF IntegroSalvo, Crece
    <3>. QED BY <3>1 DEF ReferenciaBien, Crece
  <2>. QED BY <2>1, <2>2
<1>4. ASSUME NEW n \in DOMAIN e.estructuras PROVE EstructuraBien(e, n)
  <2>1. CASE n \notin DOMAIN d.estructuras
    BY <2>1 DEF Encajan
  <2>2. CASE n \in DOMAIN d.estructuras
    <3>1. EstructuraBien(d, n) /\ e.estructuras[n] = d.estructuras[n]
      BY <2>2 DEF IntegroSalvo, Crece
    <3>. QED BY <3>1 DEF EstructuraBien, Crece
  <2>. QED BY <2>1, <2>2
<1>. QED BY <1>1, <1>2, <1>3, <1>4 DEF IntegroSalvo

\* Rows that fit, and no other change, are what Agregar allows.
LEMMA AgregarBien ==
    ASSUME diagrama' \in Diagramas, Crece(diagrama, diagrama'), Encajan(diagrama, diagrama')
    PROVE  Abstracto!Agregar
<1>1. Abstracto!EsDiagrama(diagrama')
  BY DiagramaBien, MismoBien
<1>2. Abstracto!Amplia(diagrama')
  BY DEF Abstracto!Amplia, Abstracto!Extiende, Crece
<1>. QED BY <1>1, <1>2, MismoBien DEF Abstracto!Agregar, Encajan

\* An attribute rewritten in its class, as one the user made.
LEMMA Reescrito ==
    ASSUME NEW d \in Diagramas, IntegroSalvo(d, {}), NEW a \in DOMAIN d.atributos,
           NEW u \in BOOLEAN, NEW e,
           e = [d EXCEPT !.atributos[a] = Manual(d.atributos[a].clase, u)]
    PROVE  /\ e \in Diagramas /\ IntegroSalvo(e, {})
           /\ e.clases = d.clases /\ e.relaciones = d.relaciones
           /\ e.referencias = d.referencias /\ e.estructuras = d.estructuras
           /\ DOMAIN e.atributos = DOMAIN d.atributos
           /\ e.atributos[a] = Manual(d.atributos[a].clase, u)
           /\ \A b \in DOMAIN d.atributos : b # a => e.atributos[b] = d.atributos[b]
<1>. DEFINE m == Manual(d.atributos[a].clase, u)
<1>1. m \in Atributo /\ m.clase = d.atributos[a].clase /\ ~ForaneaPura(m)
  <2>1. d.atributos[a] \in Atributo
    BY FilasBien
  <2>. QED BY <2>1 DEF Manual, Atributo, Procedencias, ForaneaPura
<1>. HIDE DEF m
<1>2. e = [d EXCEPT !.atributos = [d.atributos EXCEPT ![a] = m]]
  BY DEF m, Diagramas
<1>3. [d.atributos EXCEPT ![a] = m] \in Tablas(Atributos, Atributo)
  <2>1. d.atributos \in Tablas(Atributos, Atributo)
    BY DEF Diagramas
  <2>2. d.atributos \in [DOMAIN d.atributos -> Atributo] /\ DOMAIN d.atributos \in SUBSET Atributos
    BY <2>1, TablaDe
  <2>3. [d.atributos EXCEPT ![a] = m] \in [DOMAIN d.atributos -> Atributo]
    BY <1>1, <2>2
  <2>. QED BY <2>2, <2>3 DEF Tablas
<1>4. e \in Diagramas
  BY <1>2, <1>3 DEF Diagramas
<1>5. /\ e.clases = d.clases /\ e.relaciones = d.relaciones
      /\ e.referencias = d.referencias /\ e.estructuras = d.estructuras
      /\ DOMAIN e.atributos = DOMAIN d.atributos
      /\ e.atributos[a] = m
      /\ \A b \in DOMAIN d.atributos : b # a => e.atributos[b] = d.atributos[b]
  BY <1>2 DEF Diagramas
<1>6. /\ \A b \in DOMAIN d.atributos : e.atributos[b].clase = d.atributos[b].clase
      /\ \A b \in DOMAIN d.atributos : ForaneaPura(e.atributos[b]) =>
             ForaneaPura(d.atributos[b]) /\ e.atributos[b] = d.atributos[b]
  BY <1>1, <1>5
<1>7. ASSUME NEW b \in DOMAIN e.atributos PROVE AtributoBien(e, b) /\ ForaneaBien(e, b)
  <2>1. AtributoBien(d, b) /\ ForaneaBien(d, b)
    BY <1>5 DEF IntegroSalvo
  <2>2. AtributoBien(e, b)
    BY <1>5, <1>6, <2>1 DEF AtributoBien
  <2>3. ForaneaBien(e, b)
    BY <1>5, <1>6, <2>1 DEF ForaneaBien
  <2>. QED BY <2>2, <2>3
<1>8. ASSUME NEW r \in DOMAIN e.relaciones
      PROVE  Extremos(e.relaciones[r]) \subseteq e.clases /\ Materializada(e, r)
  <2>1. Extremos(d.relaciones[r]) \subseteq d.clases /\ Materializada(d, r)
    BY <1>5 DEF IntegroSalvo
  <2>2. CASE ~RequiereMaterializacion(d.relaciones[r])
    BY <1>5, <2>1, <2>2 DEF Materializada
  <2>3. CASE \E f \in ReferenciasDe(d, r) : Materializa(d, d.referencias[f])
    <3>1. PICK f \in ReferenciasDe(d, r) : Materializa(d, d.referencias[f])
      BY <2>3, Zenon
    <3>2. {d.referencias[f].fk, d.referencias[f].referenciado} \subseteq DOMAIN d.atributos
      BY <3>1 DEF Materializa
    <3>3. /\ {d.referencias[f].fk, d.referencias[f].referenciado} \subseteq DOMAIN e.atributos
          /\ e.atributos[d.referencias[f].fk].clase = d.atributos[d.referencias[f].fk].clase
          /\ e.atributos[d.referencias[f].referenciado].clase
                = d.atributos[d.referencias[f].referenciado].clase
      <4>1. /\ d.referencias[f].fk \in DOMAIN d.atributos
            /\ d.referencias[f].referenciado \in DOMAIN d.atributos
        BY <3>2
      <4>. QED BY <1>5, <1>6, <4>1, Zenon
    <3>4. Materializa(e, d.referencias[f])
      BY <1>5, <3>1, <3>3, MismaMateria
    <3>5. f \in ReferenciasDe(e, r)
      BY <1>5 DEF ReferenciasDe
    <3>6. Materializada(e, r)
      BY <1>5, <3>4, <3>5 DEF Materializada
    <3>. QED BY <1>5, <2>1, <3>6
  <2>. QED BY <2>1, <2>2, <2>3 DEF Materializada
<1>9. ASSUME NEW f \in DOMAIN e.referencias PROVE ReferenciaBien(e, f)
  <2>1. ReferenciaBien(d, f)
    BY <1>5 DEF IntegroSalvo
  <2>. QED BY <1>5, <1>6, <2>1 DEF ReferenciaBien
<1>10. ASSUME NEW n \in DOMAIN e.estructuras PROVE EstructuraBien(e, n)
  <2>1. EstructuraBien(d, n)
    BY <1>5 DEF IntegroSalvo
  <2>. QED BY <1>5, <2>1 DEF EstructuraBien
<1>11. IntegroSalvo(e, {})
  BY <1>7, <1>8, <1>9, <1>10 DEF IntegroSalvo
<1>. QED BY <1>4, <1>5, <1>11 DEF m

(***************************************************************************)
(* The invariant, kept by every operation.                                 *)
(***************************************************************************)
\* Only the key a class is born with is a key.
LlaveDeClase(d) ==
    \A a \in DOMAIN d.atributos :
        d.atributos[a].llave => d.atributos[a].procedencia = "sistema_clase"

Bien(d) == d \in Diagramas /\ IntegroSalvo(d, {}) /\ RelPropias(d) /\ LlaveDeClase(d)
IInv == diagrama \in Diagramas /\ pisado \in BOOLEAN /\ (~pisado => Bien(diagrama))

\* The diagram the project starts with.
LEMMA VacioBien == Bien(Vacio)
<1>1. <<>> \in Tablas(Atributos, Atributo) /\ <<>> \in Tablas(Relaciones, Relacion)
      /\ <<>> \in Tablas(Referencias, Referencia) /\ <<>> \in Tablas(Estructuras, Estructura)
  <2>1. \A X : <<>> \in [{} -> X]
    OBVIOUS
  <2>. QED BY <2>1 DEF Tablas
<1>2. Vacio \in Diagramas
  BY <1>1 DEF Vacio, Diagramas
<1>3. /\ Vacio.clases = {} /\ DOMAIN Vacio.atributos = {}
      /\ DOMAIN Vacio.relaciones = {} /\ DOMAIN Vacio.referencias = {}
      /\ DOMAIN Vacio.estructuras = {}
  BY DEF Vacio
<1>4. IntegroSalvo(Vacio, {}) /\ RelPropias(Vacio) /\ LlaveDeClase(Vacio)
  BY <1>3 DEF IntegroSalvo, RelPropias, LlaveDeClase
<1>. QED BY <1>2, <1>4 DEF Bien

\* A deletion.
LEMMA PasoQuitar ==
    ASSUME Bien(diagrama), diagrama' \in Restos(diagrama), IntegroSalvo(diagrama', {})
    PROVE  Bien(diagrama') /\ Abstracto!Quitar
<1>1. diagrama \in Diagramas /\ RelPropias(diagrama) /\ LlaveDeClase(diagrama)
  BY DEF Bien
<1>2. diagrama' \in Diagramas /\ RelPropias(diagrama')
  BY <1>1, RestoDe, RelPropiasResto
<1>3. LlaveDeClase(diagrama')
  <2>1. /\ DOMAIN diagrama'.atributos \subseteq DOMAIN diagrama.atributos
        /\ \A x \in DOMAIN diagrama'.atributos : diagrama'.atributos[x] = diagrama.atributos[x]
    BY <1>1, RestoDe
  <2>. QED BY <1>1, <2>1 DEF LlaveDeClase
<1>. QED BY <1>1, <1>2, <1>3, QuitarBien DEF Bien

\* A creation.
LEMMA PasoAgregarNm ==
    ASSUME Bien(diagrama), diagrama' \in Diagramas,
           Crece(diagrama, diagrama'), Encajan(diagrama, diagrama'), RelPropias(diagrama'),
           \A a \in DOMAIN diagrama'.atributos \ DOMAIN diagrama.atributos :
              diagrama'.atributos[a].llave => diagrama'.atributos[a].procedencia = "sistema_clase"
    PROVE  Bien(diagrama') /\ Abstracto!Agregar
<1>1. IntegroSalvo(diagrama', {})
  BY Ampliar DEF Bien
<1>2. LlaveDeClase(diagrama')
  BY DEF Bien, LlaveDeClase, Crece
<1>. QED BY <1>1, <1>2, AgregarBien DEF Bien

\* A creation that adds no structure.
LEMMA PasoAgregar ==
    ASSUME Bien(diagrama), diagrama' \in Diagramas,
           Crece(diagrama, diagrama'), Encajan(diagrama, diagrama'),
           diagrama'.estructuras = diagrama.estructuras,
           \A a \in DOMAIN diagrama'.atributos \ DOMAIN diagrama.atributos :
              diagrama'.atributos[a].llave => diagrama'.atributos[a].procedencia = "sistema_clase"
    PROVE  Bien(diagrama') /\ Abstracto!Agregar
<1>1. RelPropias(diagrama')
  BY DEF Bien, RelPropias
<1>. QED BY <1>1, PasoAgregarNm

\* A rewriting.
LEMMA PasoReescribir ==
    ASSUME Bien(diagrama), NEW a \in DOMAIN diagrama.atributos, NEW u \in BOOLEAN,
           diagrama' = [diagrama EXCEPT !.atributos[a] = Manual(diagrama.atributos[a].clase, u)]
    PROVE  Bien(diagrama') /\ Abstracto!Reescribir
<1>1. /\ diagrama' \in Diagramas /\ IntegroSalvo(diagrama', {})
      /\ diagrama'.estructuras = diagrama.estructuras
      /\ DOMAIN diagrama'.atributos = DOMAIN diagrama.atributos
      /\ diagrama'.atributos[a] = Manual(diagrama.atributos[a].clase, u)
      /\ \A b \in DOMAIN diagrama.atributos :
            b # a => diagrama'.atributos[b] = diagrama.atributos[b]
  BY Reescrito DEF Bien
<1>2. RelPropias(diagrama')
  BY <1>1 DEF Bien, RelPropias
<1>3. LlaveDeClase(diagrama')
  BY <1>1 DEF Bien, LlaveDeClase, Manual
<1>4. Abstracto!Reescribir
  BY MismaBase DEF Abstracto!Reescribir
<1>. QED BY <1>1, <1>2, <1>3, <1>4 DEF Bien

---------------------------------------------------------------------------
\* The fields of a diagram, which are tables.
LEMMA LasTablas ==
    ASSUME NEW d \in Diagramas
    PROVE  /\ d = [clases |-> d.clases, atributos |-> d.atributos, relaciones |-> d.relaciones,
                   referencias |-> d.referencias, estructuras |-> d.estructuras]
           /\ d.clases \in SUBSET Clases
           /\ d.atributos \in Tablas(Atributos, Atributo)
           /\ d.relaciones \in Tablas(Relaciones, Relacion)
           /\ d.referencias \in Tablas(Referencias, Referencia)
           /\ d.estructuras \in Tablas(Estructuras, Estructura)
BY DEF Diagramas

\* The key of a new class is of the class, and no foreign key.
LEMMA PasoCrearClase ==
    ASSUME Bien(diagrama), CrearClase
    PROVE  Bien(diagrama') /\ Abstracto!Agregar
<1>1. PICK c \in ClasesLibres :
        diagrama' = [diagrama EXCEPT !.clases = @ \cup {c},
                                     !.atributos = Con(@, LlaveDe[c], Llave(c))]
  BY DEF CrearClase, AlgunoDe
<1>2. /\ c \in Clases /\ LlaveDe[c] \in Atributos
      /\ LlaveDe[c] \notin DOMAIN diagrama.atributos
  BY IdsAssumption DEF ClasesLibres, Vivo
<1>3. /\ Llave(c) \in Atributo /\ ~ForaneaPura(Llave(c)) /\ Llave(c).clase = c
      /\ Llave(c).procedencia = "sistema_clase"
  BY <1>2 DEF Llave, Atributo, Procedencias, ForaneaPura
<1>. DEFINE f == Con(diagrama.atributos, LlaveDe[c], Llave(c))
<1>4. diagrama \in Diagramas
  BY DEF Bien
<1>5. f \in Tablas(Atributos, Atributo) /\ Fila(f, diagrama.atributos, LlaveDe[c], Llave(c))
  <2>1. diagrama.atributos \in Tablas(Atributos, Atributo)
    BY <1>4, LasTablas
  <2>. QED BY <1>2, <1>3, <2>1, ConTabla, ConFila
<1>. HIDE DEF f
<1>6. /\ diagrama'.clases = diagrama.clases \cup {c} /\ diagrama'.atributos = f
      /\ diagrama'.relaciones = diagrama.relaciones
      /\ diagrama'.referencias = diagrama.referencias
      /\ diagrama'.estructuras = diagrama.estructuras
      /\ diagrama' \in Diagramas
  BY <1>1, <1>2, <1>4, <1>5 DEF Diagramas, f
<1>7. Crece(diagrama, diagrama')
  BY <1>5, <1>6 DEF Crece, Fila
<1>8. Encajan(diagrama, diagrama')
  BY <1>3, <1>5, <1>6 DEF Encajan, AtributoBien, ForaneaBien, Fila
<1>9. \A a \in DOMAIN diagrama'.atributos \ DOMAIN diagrama.atributos :
        diagrama'.atributos[a].procedencia = "sistema_clase"
  BY <1>3, <1>5, <1>6 DEF Fila
<1>. QED BY <1>6, <1>7, <1>8, <1>9, PasoAgregar

LEMMA PasoCrearAtributo ==
    ASSUME Bien(diagrama), NEW c \in Clases, NEW u \in BOOLEAN, CrearAtributo(c, u)
    PROVE  Bien(diagrama') /\ Abstracto!Agregar
<1>1. PICK a \in ManualesLibres :
        diagrama' = [diagrama EXCEPT !.atributos = Con(@, a, Manual(c, u))]
  BY DEF CrearAtributo, AlgunoDe
<1>2. a \in Atributos /\ a \notin DOMAIN diagrama.atributos /\ c \in diagrama.clases
  BY IdsAssumption DEF ManualesLibres, Vivo, CrearAtributo
<1>3. /\ Manual(c, u) \in Atributo /\ ~ForaneaPura(Manual(c, u)) /\ Manual(c, u).clase = c
      /\ ~Manual(c, u).llave
  BY DEF Manual, Atributo, Procedencias, ForaneaPura
<1>. DEFINE f == Con(diagrama.atributos, a, Manual(c, u))
<1>4. diagrama \in Diagramas
  BY DEF Bien
<1>5. f \in Tablas(Atributos, Atributo) /\ Fila(f, diagrama.atributos, a, Manual(c, u))
  <2>1. diagrama.atributos \in Tablas(Atributos, Atributo)
    BY <1>4, LasTablas
  <2>. QED BY <1>2, <1>3, <2>1, ConTabla, ConFila
<1>. HIDE DEF f
<1>6. /\ diagrama'.clases = diagrama.clases /\ diagrama'.atributos = f
      /\ diagrama'.relaciones = diagrama.relaciones
      /\ diagrama'.referencias = diagrama.referencias
      /\ diagrama'.estructuras = diagrama.estructuras
      /\ diagrama' \in Diagramas
  BY <1>1, <1>4, <1>5 DEF Diagramas, f
<1>7. Crece(diagrama, diagrama')
  BY <1>5, <1>6 DEF Crece, Fila
<1>8. Encajan(diagrama, diagrama')
  BY <1>2, <1>3, <1>5, <1>6 DEF Encajan, AtributoBien, ForaneaBien, Fila
<1>9. \A b \in DOMAIN diagrama'.atributos \ DOMAIN diagrama.atributos :
        ~diagrama'.atributos[b].llave
  BY <1>3, <1>5, <1>6 DEF Fila
<1>. QED BY <1>6, <1>7, <1>8, <1>9, PasoAgregar

LEMMA ManualCambiado ==
    ASSUME NEW at \in Atributo, at.procedencia = "manual", at.llave = FALSE, NEW u \in BOOLEAN
    PROVE  [at EXCEPT !.unico = u] = Manual(at.clase, u)
<1>1. at = [clase |-> at.clase, procedencia |-> at.procedencia, llave |-> at.llave,
            unico |-> at.unico]
  BY DEF Atributo
<1>2. [at EXCEPT !.unico = u]
        = [clase |-> at.clase, procedencia |-> at.procedencia, llave |-> at.llave, unico |-> u]
  BY <1>1
<1>. QED BY <1>2, Zenon DEF Manual

LEMMA PasoActualizar ==
    ASSUME Bien(diagrama), NEW a, NEW unico, ActualizarAtributo(a, unico)
    PROVE  Bien(diagrama') /\ Abstracto!Reescribir
<1>. DEFINE at == diagrama.atributos[a]
<1>1. /\ a \in DOMAIN diagrama.atributos /\ at.procedencia = "manual"
      /\ diagrama' = [diagrama EXCEPT !.atributos[a].unico = (unico = TRUE)]
  BY DEF ActualizarAtributo
<1>2. at \in Atributo /\ at.llave = FALSE /\ diagrama \in Diagramas
  <2>1. at \in Atributo
    BY <1>1, FilasBien DEF Bien
  <2>2. ~at.llave
    BY <1>1 DEF Bien, LlaveDeClase
  <2>. QED BY <2>1, <2>2 DEF Atributo, Bien
<1>3. [at EXCEPT !.unico = (unico = TRUE)] = Manual(at.clase, unico = TRUE)
  BY <1>1, <1>2, ManualCambiado
<1>4. diagrama' = [diagrama EXCEPT !.atributos[a] = [at EXCEPT !.unico = (unico = TRUE)]]
  BY <1>1, <1>2 DEF Diagramas
<1>5. diagrama' = [diagrama EXCEPT !.atributos[a] = Manual(diagrama.atributos[a].clase, unico = TRUE)]
  BY <1>3, <1>4
<1>6. (unico = TRUE) \in BOOLEAN
  OBVIOUS
<1>. QED BY <1>1, <1>5, <1>6, PasoReescribir

LEMMA PasoRecrear ==
    ASSUME Bien(diagrama), NEW a, NEW u \in BOOLEAN, RecrearAtributo(a, u)
    PROVE  Bien(diagrama') /\ Abstracto!Reescribir
BY PasoReescribir DEF RecrearAtributo

\* A reference that the use case admits fits where it is added.
LEMMA ReferenciaAdmitida ==
    ASSUME NEW d, NEW ref, Admisible(d, ref), NEW e, NEW f, f \notin DOMAIN d.referencias,
           e.relaciones = d.relaciones, e.atributos = d.atributos,
           Fila(e.referencias, d.referencias, f, ref)
    PROVE  ReferenciaBien(e, f)
BY DEF Admisible, ReferenciaBien, Fila, ForaneaPura

LEMMA PasoCrearReferencia ==
    ASSUME Bien(diagrama), NEW ref \in Referencia, CrearReferencia(ref)
    PROVE  Bien(diagrama') /\ Abstracto!Agregar
<1>1. PICK f \in ReferenciasLibres :
        diagrama' = [diagrama EXCEPT !.referencias = Con(@, f, ref)]
  BY DEF CrearReferencia, AlgunoDe
<1>2. f \in Referencias /\ f \notin DOMAIN diagrama.referencias
  BY CotasAssumption DEF ReferenciasLibres
<1>3. diagrama \in Diagramas /\ Admisible(diagrama, ref)
  BY DEF Bien, CrearReferencia
<1>. DEFINE g == Con(diagrama.referencias, f, ref)
<1>4. g \in Tablas(Referencias, Referencia) /\ Fila(g, diagrama.referencias, f, ref)
  <2>1. diagrama.referencias \in Tablas(Referencias, Referencia)
    BY <1>3, LasTablas
  <2>. QED BY <1>2, <2>1, ConTabla, ConFila
<1>. HIDE DEF g
<1>5. /\ diagrama'.clases = diagrama.clases /\ diagrama'.atributos = diagrama.atributos
      /\ diagrama'.relaciones = diagrama.relaciones /\ diagrama'.referencias = g
      /\ diagrama'.estructuras = diagrama.estructuras
      /\ diagrama' \in Diagramas
  BY <1>1, <1>3, <1>4 DEF Diagramas, g
<1>6. Crece(diagrama, diagrama')
  BY <1>4, <1>5 DEF Crece, Fila
<1>7. ReferenciaBien(diagrama', f)
  BY <1>2, <1>3, <1>4, <1>5, ReferenciaAdmitida
<1>8. Encajan(diagrama, diagrama')
  BY <1>4, <1>5, <1>7 DEF Encajan, Fila
<1>. QED BY <1>5, <1>6, <1>8, PasoAgregar

\* A relation, with no reference.
LEMMA PasoRelacionSola ==
    ASSUME Bien(diagrama), NEW rel \in Relacion, Extremos(rel) \subseteq diagrama.clases,
           NEW r \in Relaciones, r \notin DOMAIN diagrama.relaciones,
           diagrama' = [diagrama EXCEPT !.relaciones = Con(@, r, rel)],
           Materializada(diagrama', r)
    PROVE  Bien(diagrama') /\ Abstracto!Agregar
<1>. DEFINE g == Con(diagrama.relaciones, r, rel)
<1>1. diagrama \in Diagramas
  BY DEF Bien
<1>2. g \in Tablas(Relaciones, Relacion) /\ Fila(g, diagrama.relaciones, r, rel)
  <2>1. diagrama.relaciones \in Tablas(Relaciones, Relacion)
    BY <1>1, LasTablas
  <2>. QED BY <2>1, ConTabla, ConFila
<1>. HIDE DEF g
<1>3. /\ diagrama'.clases = diagrama.clases /\ diagrama'.atributos = diagrama.atributos
      /\ diagrama'.relaciones = g /\ diagrama'.referencias = diagrama.referencias
      /\ diagrama'.estructuras = diagrama.estructuras
      /\ diagrama' \in Diagramas
  BY <1>1, <1>2 DEF Diagramas, g
<1>4. Crece(diagrama, diagrama')
  BY <1>2, <1>3 DEF Crece, Fila
<1>5. Encajan(diagrama, diagrama')
  BY <1>2, <1>3 DEF Encajan, Fila, RelacionBien
<1>. QED BY <1>3, <1>4, <1>5, PasoAgregar

\* The attributes "at" are those there were and maybe the key "fk" of a
\* class of the relation.
ConClave(at, viejos, fk, rel) ==
    /\ DOMAIN viejos \subseteq DOMAIN at
    /\ \A a \in DOMAIN viejos : at[a] = viejos[a]
    /\ \A a \in DOMAIN at \ DOMAIN viejos :
          a = fk /\ at[a].clase \in Extremos(rel) /\ ~at[a].llave

\* A relation with its reference, over an attribute there was or one made
\* for it.
LEMMA PasoRelacionCon ==
    ASSUME Bien(diagrama), NEW rel \in Relacion, Extremos(rel) \subseteq diagrama.clases,
           NEW r \in Relaciones, r \notin DOMAIN diagrama.relaciones,
           NEW f \in Referencias, f \notin DOMAIN diagrama.referencias,
           NEW at \in Tablas(Atributos, Atributo), NEW ref \in Referencia,
           ConClave(at, diagrama.atributos, ref.fk, rel),
           NEW d,
           d = [diagrama EXCEPT !.relaciones = Con(@, r, rel), !.atributos = at],
           Admisible(d, ref),
           diagrama' = [d EXCEPT !.referencias = Con(@, f, ref)],
           Materializada(diagrama', r)
    PROVE  Bien(diagrama') /\ Abstracto!Agregar
<1>. DEFINE g == Con(diagrama.relaciones, r, rel)
            h == Con(diagrama.referencias, f, ref)
<1>1. diagrama \in Diagramas
  BY DEF Bien
<1>2. g \in Tablas(Relaciones, Relacion) /\ Fila(g, diagrama.relaciones, r, rel)
  <2>1. diagrama.relaciones \in Tablas(Relaciones, Relacion)
    BY <1>1, LasTablas
  <2>. QED BY <2>1, ConTabla, ConFila
<1>3. h \in Tablas(Referencias, Referencia) /\ Fila(h, diagrama.referencias, f, ref)
  <2>1. diagrama.referencias \in Tablas(Referencias, Referencia)
    BY <1>1, LasTablas
  <2>. QED BY <2>1, ConTabla, ConFila
<1>4. /\ d.clases = diagrama.clases /\ d.atributos = at /\ d.relaciones = g
      /\ d.referencias = diagrama.referencias /\ d.estructuras = diagrama.estructuras
      /\ d \in Diagramas
  <2>. HIDE DEF h
  <2>1. d = [diagrama EXCEPT !.relaciones = g, !.atributos = at]
    OBVIOUS
  <2>. HIDE DEF g
  <2>. QED BY <1>1, <1>2, <2>1 DEF Diagramas
<1>5. diagrama' = [d EXCEPT !.referencias = h]
  BY <1>4
<1>. HIDE DEF g, h
<1>6. /\ diagrama'.clases = diagrama.clases /\ diagrama'.atributos = at
      /\ diagrama'.relaciones = g /\ diagrama'.referencias = h
      /\ diagrama'.estructuras = diagrama.estructuras
      /\ diagrama' \in Diagramas
  BY <1>3, <1>4, <1>5 DEF Diagramas
<1>7. Crece(diagrama, diagrama')
  BY <1>2, <1>3, <1>6 DEF Crece, Fila, ConClave
<1>8. ReferenciaBien(diagrama', f)
  BY <1>3, <1>4, <1>6, ReferenciaAdmitida
<1>9. RelacionBien(diagrama', r)
  BY <1>2, <1>6 DEF Fila, RelacionBien
<1>10. ASSUME NEW a \in DOMAIN at \ DOMAIN diagrama.atributos
       PROVE  AtributoBien(diagrama', a) /\ ForaneaBien(diagrama', a)
  <2>1. a = ref.fk /\ at[a].clase \in diagrama'.clases
    BY <1>6 DEF ConClave
  <2>2. f \in DOMAIN diagrama'.referencias /\ diagrama'.referencias[f].fk = a
    BY <1>3, <1>6, <2>1 DEF Fila
  <2>. QED BY <1>6, <2>1, <2>2 DEF AtributoBien, ForaneaBien
<1>11. Encajan(diagrama, diagrama')
  BY <1>2, <1>3, <1>6, <1>8, <1>9, <1>10 DEF Encajan, Fila
<1>12. \A a \in DOMAIN diagrama'.atributos \ DOMAIN diagrama.atributos :
        ~diagrama'.atributos[a].llave
  BY <1>6 DEF ConClave
<1>. QED BY <1>6, <1>7, <1>11, <1>12, PasoAgregar

LEMMA PasoCrearRelacion ==
    ASSUME Bien(diagrama), NEW rel \in RelacionPedida, CrearRelacion(rel)
    PROVE  Bien(diagrama') /\ Abstracto!Agregar
<1>. DEFINE r == AlgunoDe(RelacionesLibres)
            f == AlgunoDe(ReferenciasLibres)
            conRel == [diagrama EXCEPT !.relaciones = Con(@, r, rel)]
            Ref(fk, referenciado) == [relacion |-> r, fk |-> fk, referenciado |-> referenciado]
            ConFk(c, u) == [conRel EXCEPT !.atributos = Con(@, ForaneaDe[f], Foranea(c, u))]
<1>1. rel \in Relacion /\ Extremos(rel) \subseteq diagrama.clases
  BY CotasAssumption DEF CrearRelacion, CrearRelacionCon, RelacionPedida, Relacion
<1>2. r \in Relaciones /\ r \notin DOMAIN diagrama.relaciones
  <2>1. r \in RelacionesLibres
    BY DEF CrearRelacion, CrearRelacionCon, AlgunoDe
  <2>. QED BY <2>1 DEF RelacionesLibres
<1>. DEFINE ConRef(d, ref) == [d EXCEPT !.referencias = Con(@, f, ref)]
<1>3. \/ Materializada(conRel, r) /\ diagrama' = conRel
      \/ /\ ReferenciasLibres # {}
         /\ \E ref \in DOMAIN diagrama.atributos :
               \/ \E fk \in DOMAIN diagrama.atributos :
                    /\ Admisible(conRel, Ref(fk, ref))
                    /\ Materializada(ConRef(conRel, Ref(fk, ref)), r)
                    /\ diagrama' = ConRef(conRel, Ref(fk, ref))
               \/ \E c \in Extremos(rel), u \in BOOLEAN :
                    /\ Admisible(ConFk(c, u), Ref(ForaneaDe[f], ref))
                    /\ Materializada(ConRef(ConFk(c, u), Ref(ForaneaDe[f], ref)), r)
                    /\ diagrama' = ConRef(ConFk(c, u), Ref(ForaneaDe[f], ref))
  BY DEF CrearRelacion, CrearRelacionCon
<1>4. diagrama \in Diagramas
  BY DEF Bien
<1>. HIDE DEF r
<1>5. CASE Materializada(conRel, r) /\ diagrama' = conRel
  <2>1. Materializada(diagrama', r)
    BY <1>5
  <2>. QED BY <1>1, <1>2, <1>5, <2>1, PasoRelacionSola
<1>6. ASSUME ReferenciasLibres # {}
      PROVE  /\ f \in Referencias /\ f \notin DOMAIN diagrama.referencias
             /\ ForaneaDe[f] \in Atributos /\ ForaneaDe[f] \notin DOMAIN diagrama.atributos
  <2>1. f \in ReferenciasLibres
    BY <1>6 DEF AlgunoDe
  <2>2. f \in Referencias
    BY <2>1, CotasAssumption DEF ReferenciasLibres
  <2>. QED BY <2>1, <2>2, IdsAssumption DEF ReferenciasLibres, Vivo
<1>. HIDE DEF f
<1>7. ASSUME ReferenciasLibres # {}, NEW ref \in DOMAIN diagrama.atributos,
             NEW fk \in DOMAIN diagrama.atributos,
             Admisible(conRel, Ref(fk, ref)),
             Materializada(ConRef(conRel, Ref(fk, ref)), r),
             diagrama' = ConRef(conRel, Ref(fk, ref))
      PROVE  Bien(diagrama') /\ Abstracto!Agregar
  <2>1. diagrama.atributos \in Tablas(Atributos, Atributo)
    BY <1>4, LasTablas
  <2>2. Ref(fk, ref) \in Referencia /\ Ref(fk, ref).fk = fk
    BY <1>2, <1>4, FilasBien DEF Referencia
  <2>3. conRel = [diagrama EXCEPT !.relaciones = Con(@, r, rel), !.atributos = diagrama.atributos]
    BY <1>4 DEF Diagramas
  <2>4. ConClave(diagrama.atributos, diagrama.atributos, fk, rel)
    BY DEF ConClave
  <2>. DEFINE d == conRel
              nueva == Ref(fk, ref)
              at == diagrama.atributos
  <2>5. /\ Admisible(d, nueva) /\ diagrama' = [d EXCEPT !.referencias = Con(@, f, nueva)]
        /\ d = [diagrama EXCEPT !.relaciones = Con(@, r, rel), !.atributos = at]
        /\ Materializada(diagrama', r)
    BY <1>7, <2>3
  <2>6. nueva \in Referencia /\ ConClave(at, diagrama.atributos, nueva.fk, rel)
    BY <2>2, <2>4
  <2>7. at \in Tablas(Atributos, Atributo)
    BY <2>1
  <2>. HIDE DEF d, nueva, at, conRel
  <2>8. diagrama.atributos = at
    BY DEF at
  <2>9. ConClave(at, diagrama.atributos, nueva.fk, rel)
    BY <2>6
  <2>. QED BY <1>1, <1>2, <1>6, <1>7, <2>5, <2>6, <2>7, <2>9, PasoRelacionCon
<1>8. ASSUME ReferenciasLibres # {}, NEW ref \in DOMAIN diagrama.atributos,
             NEW c \in Extremos(rel), NEW u \in BOOLEAN,
             Admisible(ConFk(c, u), Ref(ForaneaDe[f], ref)),
             Materializada(ConRef(ConFk(c, u), Ref(ForaneaDe[f], ref)), r),
             diagrama' = ConRef(ConFk(c, u), Ref(ForaneaDe[f], ref))
      PROVE  Bien(diagrama') /\ Abstracto!Agregar
  <2>. DEFINE at == Con(diagrama.atributos, ForaneaDe[f], Foranea(c, u))
              fo == Foranea(c, u)
  <2>1. diagrama.atributos \in Tablas(Atributos, Atributo)
    BY <1>4, LasTablas
  <2>2. fo \in Atributo /\ fo.clase = c /\ ~fo.llave
    BY <1>1, <1>4, FilasBien DEF Foranea, Atributo, Procedencias
  <2>3. at \in Tablas(Atributos, Atributo) /\ Fila(at, diagrama.atributos, ForaneaDe[f], fo)
    BY <1>6, <1>8, <2>1, <2>2, ConTabla, ConFila
  <2>4. Ref(ForaneaDe[f], ref) \in Referencia /\ Ref(ForaneaDe[f], ref).fk = ForaneaDe[f]
    BY <1>2, <1>4, <1>6, <1>8, FilasBien DEF Referencia
  <2>5. ConFk(c, u) = [diagrama EXCEPT !.relaciones = Con(@, r, rel), !.atributos = at]
    BY <1>4 DEF Diagramas
  <2>6. ConClave(at, diagrama.atributos, ForaneaDe[f], rel)
    <3>. HIDE DEF at, fo
    <3>. QED BY <1>8, <2>2, <2>3 DEF Fila, ConClave
  <2>. DEFINE d == ConFk(c, u)
              nueva == Ref(ForaneaDe[f], ref)
  <2>7. /\ Admisible(d, nueva) /\ diagrama' = [d EXCEPT !.referencias = Con(@, f, nueva)]
        /\ d = [diagrama EXCEPT !.relaciones = Con(@, r, rel), !.atributos = at]
        /\ Materializada(diagrama', r)
    BY <1>8, <2>5
  <2>8. nueva \in Referencia /\ ConClave(at, diagrama.atributos, nueva.fk, rel)
    BY <2>4, <2>6
  <2>. HIDE DEF d, at, fo, nueva
  <2>. QED BY <1>1, <1>2, <1>6, <1>8, <2>3, <2>6, <2>7, <2>8, PasoRelacionCon
<1>. QED BY <1>3, <1>5, <1>7, <1>8

\* A row saved under an id that is not in use is a new row.
LEMMA GuardarNuevo ==
    ASSUME NEW f, NEW x, x \notin DOMAIN f, NEW v, NEW duenno
    PROVE  Guardar(f, x, v, duenno) = Con(f, x, v)
BY DEF Guardar

\* Under the ids it draws, the rows of a structure are all new.
NmNuevo(n, ro, rd) ==
    LET i   == FilasDe[n]
        m   == i.intermedia
        fkO == ForaneaDe[i.refOrigen]
        fkD == ForaneaDe[i.refDestino]
    IN  [clases |-> diagrama.clases \cup {m},
         atributos |-> Con(Con(Con(diagrama.atributos, LlaveDe[m], Llave(m)),
                               fkO, Foranea(m, FALSE)), fkD, Foranea(m, FALSE)),
         relaciones |->
           Con(Con(diagrama.relaciones, i.relOrigen,
                   [origen |-> diagrama.atributos[ro].clase, destino |-> m, forma |-> "1N"]),
               i.relDestino,
               [origen |-> diagrama.atributos[rd].clase, destino |-> m, forma |-> "1N"]),
         referencias |->
           Con(Con(diagrama.referencias, i.refOrigen,
                   [relacion |-> i.relOrigen, fk |-> fkO, referenciado |-> ro]),
               i.refDestino, [relacion |-> i.relDestino, fk |-> fkD, referenciado |-> rd]),
         estructuras |-> Con(diagrama.estructuras, n,
           [origen |-> diagrama.atributos[ro].clase, destino |-> diagrama.atributos[rd].clase,
            intermedia |-> m, relOrigen |-> i.relOrigen, relDestino |-> i.relDestino])]

LEMMA NmNueva ==
    ASSUME NEW n \in EstructurasLibres, NEW ro, NEW rd
    PROVE  ConEstructura(n, IdsNm(n), ro, rd) = NmNuevo(n, ro, rd)
<1>. DEFINE i == FilasDe[n]
            m == i.intermedia
            fkO == ForaneaDe[i.refOrigen]
            fkD == ForaneaDe[i.refDestino]
<1>. DEFINE l == LlaveDe[m]
            fo == Foranea(m, FALSE)
            refO == [relacion |-> i.relOrigen, fk |-> fkO, referenciado |-> ro]
            refD == [relacion |-> i.relDestino, fk |-> fkD, referenciado |-> rd]
            A1 == Con(diagrama.atributos, l, Llave(m))
            A2 == Con(A1, fkO, fo)
            A3 == Con(A2, fkD, fo)
            F1 == Con(diagrama.referencias, i.refOrigen, refO)
            F2 == Con(F1, i.refDestino, refD)
            G1 == Guardar(diagrama.atributos, l, Llave(m), "clase")
            G2 == Guardar(G1, fkO, fo, "clase")
            G3 == Guardar(G2, fkD, fo, "clase")
            H1 == Guardar(diagrama.referencias, i.refOrigen, refO, "relacion")
            H2 == Guardar(H1, i.refDestino, refD, "relacion")
<1>1. /\ n \in Estructuras /\ l \notin DOMAIN diagrama.atributos
      /\ i.refOrigen \notin DOMAIN diagrama.referencias
      /\ i.refDestino \notin DOMAIN diagrama.referencias
      /\ fkO \notin DOMAIN diagrama.atributos /\ fkD \notin DOMAIN diagrama.atributos
  BY DEF EstructurasLibres, Vivo
<1>2. /\ m \in Clases /\ i.refOrigen \in Referencias /\ i.refDestino \in Referencias
      /\ i.refOrigen # i.refDestino
  <2>1. FilasDe[n] \in FilasNm
    BY <1>1, IdsAssumption
  <2>. QED BY <1>1, <2>1, IdsAssumption DEF FilasNm
<1>3. l # fkO /\ l # fkD /\ fkO # fkD
  BY <1>2, IdsAssumption
<1>4. ConEstructura(n, IdsNm(n), ro, rd) =
             [clases |-> diagrama.clases \cup {m}, atributos |-> G3,
              relaciones |->
                Con(Con(diagrama.relaciones, i.relOrigen,
                        [origen |-> diagrama.atributos[ro].clase, destino |-> m, forma |-> "1N"]),
                    i.relDestino,
                    [origen |-> diagrama.atributos[rd].clase, destino |-> m, forma |-> "1N"]),
              referencias |-> H2,
              estructuras |-> Con(diagrama.estructuras, n,
                [origen |-> diagrama.atributos[ro].clase, destino |-> diagrama.atributos[rd].clase,
                 intermedia |-> m, relOrigen |-> i.relOrigen, relDestino |-> i.relDestino])]
  BY DEF ConEstructura, IdsNm
<1>. HIDE DEF i, m, fkO, fkD, l, fo, refO, refD
<1>5. G1 = A1 /\ H1 = F1
  BY <1>1, GuardarNuevo
<1>6. /\ fkO \notin DOMAIN A1 /\ i.refDestino \notin DOMAIN F1
      /\ DOMAIN A1 = DOMAIN diagrama.atributos \cup {l}
  BY <1>1, <1>2, <1>3 DEF Con
<1>. HIDE DEF A1, F1, G1, H1
<1>7. G2 = A2
  BY <1>5, <1>6, GuardarNuevo
<1>8. H2 = F2
  BY <1>5, <1>6, GuardarNuevo
<1>9. fkD \notin DOMAIN A2
  BY <1>1, <1>3, <1>6 DEF Con
<1>. HIDE DEF A2, G2, F2, H2
<1>10. G3 = A3
  BY <1>7, <1>9, GuardarNuevo
<1>. HIDE DEF G3, A3
<1>11. /\ A3 = Con(Con(Con(diagrama.atributos, LlaveDe[m], Llave(m)),
                       fkO, Foranea(m, FALSE)), fkD, Foranea(m, FALSE))
       /\ F2 = Con(Con(diagrama.referencias, i.refOrigen,
                       [relacion |-> i.relOrigen, fk |-> fkO, referenciado |-> ro]),
                   i.refDestino, [relacion |-> i.relDestino, fk |-> fkD, referenciado |-> rd])
  BY DEF A3, A2, A1, F2, F1, l, fo, refO, refD
<1>. QED BY <1>4, <1>8, <1>10, <1>11 DEF NmNuevo, i, m, fkO, fkD

\* A structure: an intermediate class with its key, and to each side a
\* relation with a reference and its key.
LEMMA PasoCrearNm ==
    ASSUME Bien(diagrama), NEW ro, NEW rd, CrearEstructuraNm(ro, rd)
    PROVE  Bien(diagrama') /\ Abstracto!Agregar
<1>. DEFINE n == AlgunoDe(EstructurasLibres)
            i == FilasDe[n]
            m == i.intermedia
            origen == diagrama.atributos[ro].clase
            destino == diagrama.atributos[rd].clase
            l == LlaveDe[m]
            fkO == ForaneaDe[i.refOrigen]
            fkD == ForaneaDe[i.refDestino]
            fo == Foranea(m, FALSE)
            Hacia(c) == [origen |-> c, destino |-> m, forma |-> "1N"]
            refO == [relacion |-> i.relOrigen, fk |-> fkO, referenciado |-> ro]
            refD == [relacion |-> i.relDestino, fk |-> fkD, referenciado |-> rd]
            nm == [origen |-> origen, destino |-> destino, intermedia |-> m,
                   relOrigen |-> i.relOrigen, relDestino |-> i.relDestino]
            A1 == Con(diagrama.atributos, l, Llave(m))
            A2 == Con(A1, fkO, fo)
            A3 == Con(A2, fkD, fo)
            R1 == Con(diagrama.relaciones, i.relOrigen, Hacia(origen))
            R2 == Con(R1, i.relDestino, Hacia(destino))
            F1 == Con(diagrama.referencias, i.refOrigen, refO)
            F2 == Con(F1, i.refDestino, refD)
            E1 == Con(diagrama.estructuras, n, nm)
<1>0. diagrama' = ConEstructura(n, IdsNm(n), ro, rd) /\ n \in EstructurasLibres
  BY DEF CrearEstructuraNm, PuedeNm, AlgunoDe
<1>. HIDE DEF n
<1>1. diagrama' = [clases |-> diagrama.clases \cup {m}, atributos |-> A3, relaciones |-> R2,
                   referencias |-> F2, estructuras |-> E1]
  <2>1. NmNuevo(n, ro, rd)
          = [clases |-> diagrama.clases \cup {m}, atributos |-> A3, relaciones |-> R2,
             referencias |-> F2, estructuras |-> E1]
    BY DEF NmNuevo
  <2>. QED BY <1>0, <2>1, NmNueva
<1>2. diagrama \in Diagramas /\ IntegroSalvo(diagrama, {}) /\ RelPropias(diagrama)
  BY DEF Bien
<1>3. /\ ro \in DOMAIN diagrama.atributos /\ rd \in DOMAIN diagrama.atributos
      /\ Referenciable(diagrama.atributos[ro]) /\ Referenciable(diagrama.atributos[rd])
      /\ n \in EstructurasLibres
  BY <1>0 DEF CrearEstructuraNm, PuedeNm
<1>4. /\ n \in Estructuras /\ n \notin DOMAIN diagrama.estructuras
      /\ m \notin diagrama.clases /\ l \notin DOMAIN diagrama.atributos
      /\ i.refOrigen \notin DOMAIN diagrama.referencias
      /\ i.refDestino \notin DOMAIN diagrama.referencias
      /\ fkO \notin DOMAIN diagrama.atributos /\ fkD \notin DOMAIN diagrama.atributos
      /\ i.relOrigen \notin DOMAIN diagrama.relaciones
      /\ i.relDestino \notin DOMAIN diagrama.relaciones
  BY <1>3 DEF EstructurasLibres, Vivo
<1>5. /\ m \in Clases /\ i.relOrigen \in Relaciones /\ i.relDestino \in Relaciones
      /\ i.refOrigen \in Referencias /\ i.refDestino \in Referencias
      /\ i.relOrigen # i.relDestino /\ i.refOrigen # i.refDestino
  <2>1. FilasDe[n] \in FilasNm
    BY <1>4, IdsAssumption
  <2>. QED BY <1>4, <2>1, IdsAssumption DEF FilasNm
<1>. HIDE DEF i
<1>6. /\ l \in Atributos /\ fkO \in Atributos /\ fkD \in Atributos
      /\ l # fkO /\ l # fkD /\ fkO # fkD
  BY <1>5, IdsAssumption
<1>7. origen \in diagrama.clases /\ destino \in diagrama.clases
  BY <1>2, <1>3 DEF IntegroSalvo, AtributoBien
<1>8. /\ origen \in Clases /\ destino \in Clases /\ origen # m /\ destino # m
      /\ ro \in Atributos /\ rd \in Atributos
      /\ ~ForaneaPura(diagrama.atributos[ro]) /\ ~ForaneaPura(diagrama.atributos[rd])
  BY <1>2, <1>3, <1>4, <1>7, FilasBien DEF ForaneaPura
<1>. HIDE DEF m, l, fkO, fkD, origen, destino
<1>9. /\ Llave(m) \in Atributo /\ Llave(m).clase = m /\ ~ForaneaPura(Llave(m))
      /\ Llave(m).procedencia = "sistema_clase"
      /\ fo \in Atributo /\ fo.clase = m /\ ~fo.llave
  BY <1>5 DEF Llave, Foranea, Atributo, Procedencias, ForaneaPura
<1>10. /\ Hacia(origen) \in Relacion /\ Hacia(destino) \in Relacion
       /\ refO \in Referencia /\ refD \in Referencia /\ nm \in Estructura
  BY <1>5, <1>6, <1>8 DEF Relacion, Formas, Referencia, Estructura
<1>11. /\ Fila(A1, diagrama.atributos, l, Llave(m)) /\ Fila(A2, A1, fkO, fo)
       /\ Fila(A3, A2, fkD, fo)
       /\ A3 \in Tablas(Atributos, Atributo)
  <2>. HIDE DEF fo
  <2>0. diagrama.atributos \in Tablas(Atributos, Atributo)
    BY <1>2, LasTablas
  <2>1. A1 \in Tablas(Atributos, Atributo) /\ Fila(A1, diagrama.atributos, l, Llave(m))
    BY <1>4, <1>6, <1>9, <2>0, ConTabla, ConFila
  <2>2. fkO \notin DOMAIN A1
    BY <1>4, <1>6, <2>1 DEF Fila
  <2>. HIDE DEF A1
  <2>3. A2 \in Tablas(Atributos, Atributo) /\ Fila(A2, A1, fkO, fo)
    BY <1>6, <1>9, <2>1, <2>2, ConTabla, ConFila
  <2>4. fkD \notin DOMAIN A2
    BY <1>4, <1>6, <2>1, <2>3 DEF Fila
  <2>. HIDE DEF A2
  <2>5. A3 \in Tablas(Atributos, Atributo) /\ Fila(A3, A2, fkD, fo)
    BY <1>6, <1>9, <2>3, <2>4, ConTabla, ConFila
  <2>. QED BY <2>1, <2>3, <2>5
<1>12. /\ Fila(R1, diagrama.relaciones, i.relOrigen, Hacia(origen))
       /\ Fila(R2, R1, i.relDestino, Hacia(destino))
       /\ R2 \in Tablas(Relaciones, Relacion)
  <2>. DEFINE ho == Hacia(origen)
              hd == Hacia(destino)
  <2>. HIDE DEF ho, hd
  <2>0. diagrama.relaciones \in Tablas(Relaciones, Relacion)
    BY <1>2, LasTablas
  <2>1. /\ Con(diagrama.relaciones, i.relOrigen, ho) \in Tablas(Relaciones, Relacion)
        /\ Fila(Con(diagrama.relaciones, i.relOrigen, ho), diagrama.relaciones, i.relOrigen, ho)
    <3>1. ho \in Relacion
      BY <1>10 DEF ho
    <3>. QED BY <1>4, <1>5, <2>0, <3>1, ConTabla, ConFila
  <2>2. R1 \in Tablas(Relaciones, Relacion) /\ Fila(R1, diagrama.relaciones, i.relOrigen, Hacia(origen))
    BY <2>1 DEF ho
  <2>3. i.relDestino \notin DOMAIN R1
    <3>. HIDE DEF R1
    <3>. QED BY <1>4, <1>5, <2>2 DEF Fila
  <2>. HIDE DEF R1
  <2>4. /\ Con(R1, i.relDestino, hd) \in Tablas(Relaciones, Relacion)
        /\ Fila(Con(R1, i.relDestino, hd), R1, i.relDestino, hd)
    <3>1. hd \in Relacion
      BY <1>10 DEF hd
    <3>. QED BY <1>5, <2>2, <2>3, <3>1, ConTabla, ConFila
  <2>. QED BY <2>2, <2>4 DEF hd
<1>13. /\ Fila(F1, diagrama.referencias, i.refOrigen, refO)
       /\ Fila(F2, F1, i.refDestino, refD)
       /\ F2 \in Tablas(Referencias, Referencia)
  <2>. HIDE DEF refO, refD
  <2>0. diagrama.referencias \in Tablas(Referencias, Referencia)
    BY <1>2, LasTablas
  <2>1. /\ F1 \in Tablas(Referencias, Referencia)
        /\ Fila(F1, diagrama.referencias, i.refOrigen, refO)
    BY <1>4, <1>5, <1>10, <2>0, ConTabla, ConFila
  <2>. HIDE DEF F1
  <2>2. i.refDestino \notin DOMAIN F1
    BY <1>4, <1>5, <2>1 DEF Fila
  <2>3. F2 \in Tablas(Referencias, Referencia) /\ Fila(F2, F1, i.refDestino, refD)
    BY <1>5, <1>10, <2>1, <2>2, ConTabla, ConFila
  <2>. QED BY <2>1, <2>3
<1>14. Fila(E1, diagrama.estructuras, n, nm) /\ E1 \in Tablas(Estructuras, Estructura)
  <2>. HIDE DEF nm
  <2>0. diagrama.estructuras \in Tablas(Estructuras, Estructura)
    BY <1>2, LasTablas
  <2>. QED BY <1>4, <1>10, <2>0, ConTabla, ConFila
<1>. HIDE DEF A1, A2, A3, R1, R2, F1, F2, E1
<1>15. /\ diagrama'.clases = diagrama.clases \cup {m} /\ diagrama'.atributos = A3
       /\ diagrama'.relaciones = R2 /\ diagrama'.referencias = F2
       /\ diagrama'.estructuras = E1 /\ diagrama' \in Diagramas
  <2>1. diagrama.clases \cup {m} \in SUBSET Clases
    BY <1>2, <1>5, LasTablas
  <2>. QED BY <1>1, <1>11, <1>12, <1>13, <1>14, <2>1 DEF Diagramas
<1>. HIDE DEF nm, fo, refO, refD
<1>16. /\ DOMAIN A3 = DOMAIN diagrama.atributos \cup {l, fkO, fkD}
       /\ A3[l] = Llave(m) /\ A3[fkO] = fo /\ A3[fkD] = fo
       /\ \A a \in DOMAIN diagrama.atributos : A3[a] = diagrama.atributos[a]
  BY <1>4, <1>6, <1>11 DEF Fila
<1>17. /\ DOMAIN R2 = DOMAIN diagrama.relaciones \cup {i.relOrigen, i.relDestino}
       /\ R2[i.relOrigen] = Hacia(origen) /\ R2[i.relDestino] = Hacia(destino)
       /\ \A r \in DOMAIN diagrama.relaciones : R2[r] = diagrama.relaciones[r]
  BY <1>4, <1>5, <1>12 DEF Fila
<1>18. /\ DOMAIN F2 = DOMAIN diagrama.referencias \cup {i.refOrigen, i.refDestino}
       /\ F2[i.refOrigen] = refO /\ F2[i.refDestino] = refD
       /\ \A f \in DOMAIN diagrama.referencias : F2[f] = diagrama.referencias[f]
  BY <1>4, <1>5, <1>13 DEF Fila
<1>19. Crece(diagrama, diagrama')
  BY <1>14, <1>15, <1>16, <1>17, <1>18 DEF Crece, Fila
<1>. DEFINE e == diagrama'
<1>20. \A a \in DOMAIN e.atributos \ DOMAIN diagrama.atributos :
          AtributoBien(e, a) /\ ForaneaBien(e, a)
  <2>1. F2[i.refOrigen].fk = fkO /\ F2[i.refDestino].fk = fkD
    BY <1>18 DEF refO, refD
  <2>2. i.refOrigen \in DOMAIN F2 /\ i.refDestino \in DOMAIN F2
    BY <1>18
  <2>3. AtributoBien(e, l) /\ ForaneaBien(e, l)
    BY <1>9, <1>15, <1>16 DEF AtributoBien, ForaneaBien
  <2>4. AtributoBien(e, fkO) /\ ForaneaBien(e, fkO)
    BY <1>9, <1>15, <1>16, <2>1, <2>2 DEF AtributoBien, ForaneaBien
  <2>5. AtributoBien(e, fkD) /\ ForaneaBien(e, fkD)
    BY <1>9, <1>15, <1>16, <2>1, <2>2 DEF AtributoBien, ForaneaBien
  <2>. QED BY <1>15, <1>16, <2>3, <2>4, <2>5
<1>21. ASSUME NEW c \in diagrama.clases, NEW r, NEW f, NEW fk, NEW re, c # m,
              e.relaciones[r] = Hacia(c), f \in DOMAIN e.referencias, r \in DOMAIN e.relaciones,
              e.referencias[f] = [relacion |-> r, fk |-> fk, referenciado |-> re],
              fk \in DOMAIN e.atributos, re \in DOMAIN e.atributos,
              e.atributos[fk].clase = m, e.atributos[re].clase = c,
              ~ForaneaPura(e.atributos[re])
       PROVE  RelacionBien(e, r) /\ ReferenciaBien(e, f)
  <2>1. /\ e.relaciones[r].origen = c /\ e.relaciones[r].destino = m
        /\ e.relaciones[r].forma = "1N" /\ Extremos(e.relaciones[r]) = {c, m}
    BY <1>21 DEF Extremos
  <2>2. /\ e.referencias[f].relacion = r /\ e.referencias[f].fk = fk
        /\ e.referencias[f].referenciado = re
    BY <1>21
  <2>. HIDE DEF e
  <2>3. LadoCorrecto(e.relaciones[r], m, c)
    BY <1>21, <2>1 DEF LadoCorrecto
  <2>4. Materializa(e, e.referencias[f])
    BY <1>21, <2>1, <2>2, <2>3 DEF Materializa
  <2>5. f \in ReferenciasDe(e, r)
    BY <1>21, <2>2 DEF ReferenciasDe
  <2>6. Extremos(e.relaciones[r]) \subseteq e.clases
    BY <1>15, <1>21, <2>1 DEF e
  <2>7. RelacionBien(e, r)
    BY <2>4, <2>5, <2>6 DEF RelacionBien, Materializada
  <2>8. ReferenciaBien(e, f)
    BY <1>21, <2>1, <2>2 DEF ReferenciaBien
  <2>. QED BY <2>7, <2>8
<1>22. RelacionBien(e, i.relOrigen) /\ ReferenciaBien(e, i.refOrigen)
  <2>1. e.referencias[i.refOrigen] = [relacion |-> i.relOrigen, fk |-> fkO, referenciado |-> ro]
    BY <1>15, <1>18 DEF refO
  <2>2. /\ e.atributos[fkO].clase = m /\ e.atributos[ro].clase = origen
        /\ ~ForaneaPura(e.atributos[ro])
        /\ fkO \in DOMAIN e.atributos /\ ro \in DOMAIN e.atributos
    BY <1>3, <1>8, <1>9, <1>15, <1>16 DEF origen
  <2>3. /\ e.relaciones[i.relOrigen] = Hacia(origen) /\ i.relOrigen \in DOMAIN e.relaciones
        /\ i.refOrigen \in DOMAIN e.referencias
    BY <1>15, <1>17, <1>18
  <2>. HIDE DEF e, Hacia
  <2>. QED BY <1>7, <1>8, <1>21, <2>1, <2>2, <2>3
<1>23. RelacionBien(e, i.relDestino) /\ ReferenciaBien(e, i.refDestino)
  <2>1. e.referencias[i.refDestino] = [relacion |-> i.relDestino, fk |-> fkD, referenciado |-> rd]
    BY <1>15, <1>18 DEF refD
  <2>2. /\ e.atributos[fkD].clase = m /\ e.atributos[rd].clase = destino
        /\ ~ForaneaPura(e.atributos[rd])
        /\ fkD \in DOMAIN e.atributos /\ rd \in DOMAIN e.atributos
    BY <1>3, <1>8, <1>9, <1>15, <1>16 DEF destino
  <2>3. /\ e.relaciones[i.relDestino] = Hacia(destino) /\ i.relDestino \in DOMAIN e.relaciones
        /\ i.refDestino \in DOMAIN e.referencias
    BY <1>15, <1>17, <1>18
  <2>. HIDE DEF e, Hacia
  <2>. QED BY <1>7, <1>8, <1>21, <2>1, <2>2, <2>3
<1>24. EstructuraBien(e, n)
  <2>1. e.estructuras[n] = nm
    BY <1>14, <1>15 DEF Fila
  <2>2. /\ nm.origen = origen /\ nm.destino = destino /\ nm.intermedia = m
        /\ nm.relOrigen = i.relOrigen /\ nm.relDestino = i.relDestino
    BY DEF nm
  <2>3. /\ Extremos(e.relaciones[i.relOrigen]) = {origen, m}
        /\ Extremos(e.relaciones[i.relDestino]) = {destino, m}
    BY <1>15, <1>17 DEF Extremos
  <2>4. /\ {i.relOrigen, i.relDestino} \subseteq DOMAIN e.relaciones
        /\ {origen, destino, m} \subseteq e.clases
    BY <1>7, <1>15, <1>17
  <2>. HIDE DEF e, Hacia
  <2>. QED BY <2>1, <2>2, <2>3, <2>4 DEF EstructuraBien, ClasesDe
<1>25. Encajan(diagrama, diagrama')
  <2>1. \A r \in DOMAIN e.relaciones \ DOMAIN diagrama.relaciones : RelacionBien(e, r)
    BY <1>15, <1>17, <1>22, <1>23
  <2>2. \A f \in DOMAIN e.referencias \ DOMAIN diagrama.referencias : ReferenciaBien(e, f)
    BY <1>15, <1>18, <1>22, <1>23
  <2>3. \A k \in DOMAIN e.estructuras \ DOMAIN diagrama.estructuras : EstructuraBien(e, k)
    BY <1>14, <1>15, <1>24 DEF Fila
  <2>. QED BY <1>20, <2>1, <2>2, <2>3 DEF Encajan
<1>26. RelPropias(diagrama')
  <2>1. \A k \in DOMAIN diagrama.estructuras :
          Relacionadas(diagrama.estructuras[k]) \subseteq DOMAIN diagrama.relaciones
    BY <1>2 DEF IntegroSalvo, EstructuraBien, Relacionadas
  <2>2. Relacionadas(nm) \cap DOMAIN diagrama.relaciones = {}
    BY <1>4 DEF Relacionadas, nm
  <2>. QED BY <1>2, <1>14, <1>15, <2>1, <2>2 DEF RelPropias, Fila
<1>27. \A a \in DOMAIN diagrama'.atributos \ DOMAIN diagrama.atributos :
          diagrama'.atributos[a].llave => diagrama'.atributos[a].procedencia = "sistema_clase"
  BY <1>9, <1>15, <1>16
<1>. QED BY <1>15, <1>19, <1>25, <1>26, <1>27, PasoAgregarNm

---------------------------------------------------------------------------
\* The deletions, where the routes that look at no structure are used on
\* none of their rows.
LEMMA VisibleSinNm ==
    ASSUME CiegasANm = FALSE, Bien(diagrama), NEW f, Visible(f)
    PROVE  SinNm(diagrama, diagrama.referencias[f].relacion)
BY Listadas DEF Bien, Visible

LEMMA PasoEliminar ==
    ASSUME Bien(diagrama),
           \/ \E a \in Atributos : EliminarAtributo(a)
           \/ \E r \in Relaciones : EliminarRelacion(r)
           \/ \E c \in Clases : EliminarClase(c)
           \/ \E n \in Estructuras : EliminarEstructuraNm(n)
    PROVE  Bien(diagrama') /\ Abstracto!Quitar
<1>1. diagrama \in Diagramas /\ IntegroSalvo(diagrama, {}) /\ RelPropias(diagrama)
  BY DEF Bien
<1>2. ASSUME NEW a, EliminarAtributo(a)
      PROVE  diagrama' \in Restos(diagrama) /\ IntegroSalvo(diagrama', {})
  <2>1. diagrama' = CerrarAtributo(a, diagrama)
    BY <1>2 DEF EliminarAtributo
  <2>. QED BY <1>1, <2>1, CerrarAtributoBien
<1>3. ASSUME NEW r, EliminarRelacion(r)
      PROVE  diagrama' \in Restos(diagrama) /\ IntegroSalvo(diagrama', {})
  <2>1. diagrama' = CerrarRelacion(r, diagrama)
    BY <1>3 DEF EliminarRelacion
  <2>. QED BY <1>1, <2>1, CerrarRelacionBien
<1>4. ASSUME NEW c, EliminarClase(c)
      PROVE  diagrama' \in Restos(diagrama) /\ IntegroSalvo(diagrama', {})
  <2>1. diagrama' = CerrarClase(c, diagrama)
    BY <1>4 DEF EliminarClase
  <2>. QED BY <1>1, <2>1, CerrarClaseBien
<1>5. ASSUME NEW n, EliminarEstructuraNm(n)
      PROVE  diagrama' \in Restos(diagrama) /\ IntegroSalvo(diagrama', {})
  <2>1. diagrama' = CerrarNm(n, diagrama)
    BY <1>5 DEF EliminarEstructuraNm
  <2>2. NmCerrada(diagrama', diagrama, n, {})
    BY <1>1, <2>1, CerrarNmBien
  <2>. QED BY <2>2 DEF NmCerrada
<1>. QED BY <1>2, <1>3, <1>4, <1>5, PasoQuitar

LEMMA PasoEliminarApi ==
    ASSUME CiegasANm = FALSE, Bien(diagrama),
           \/ \E a \in Atributos : EliminarAtributoApi(a)
           \/ \E f \in Referencias : EliminarReferencia(f)
    PROVE  Bien(diagrama') /\ Abstracto!Quitar
<1>1. diagrama \in Diagramas /\ IntegroSalvo(diagrama, {}) /\ RelPropias(diagrama)
  BY DEF Bien
<1>2. ASSUME NEW a, EliminarAtributoApi(a)
      PROVE  diagrama' \in Restos(diagrama) /\ IntegroSalvo(diagrama', {})
  <2>1. diagrama' = CerrarAtributoCiego(a, diagrama)
    BY <1>2 DEF EliminarAtributoApi
  <2>2. \A f \in ReferenciasCon(diagrama, a) : SinNm(diagrama, diagrama.referencias[f].relacion)
    BY <1>2, VisibleSinNm DEF EliminarAtributoApi
  <2>. QED BY <1>1, <2>1, <2>2, CerrarAtributoCiegoBien
<1>3. ASSUME NEW f, EliminarReferencia(f)
      PROVE  diagrama' \in Restos(diagrama) /\ IntegroSalvo(diagrama', {})
  <2>1. /\ diagrama' = CerrarReferenciaCiega(f, diagrama)
        /\ f \in DOMAIN diagrama.referencias /\ Visible(f)
    BY <1>3 DEF EliminarReferencia
  <2>2. SinNm(diagrama, diagrama.referencias[f].relacion)
    BY <2>1, VisibleSinNm
  <2>. QED BY <1>1, <2>1, <2>2, CerrarReferenciaCiegaBien
<1>. QED BY <1>2, <1>3, PasoQuitar

---------------------------------------------------------------------------
\* A creation under an id that is in use, or of a deleted row.

\* e has the rows of d, attributes and references with the owner they had.
Sobre(d, e) ==
    /\ d.clases \subseteq e.clases
    /\ DOMAIN d.atributos \subseteq DOMAIN e.atributos
    /\ \A a \in DOMAIN d.atributos : e.atributos[a].clase = d.atributos[a].clase
    /\ DOMAIN d.referencias \subseteq DOMAIN e.referencias
    /\ \A f \in DOMAIN d.referencias : e.referencias[f].relacion = d.referencias[f].relacion
    /\ DOMAIN d.relaciones \subseteq DOMAIN e.relaciones
    /\ DOMAIN d.estructuras \subseteq DOMAIN e.estructuras
    /\ \A n \in DOMAIN d.estructuras : e.estructuras[n] = d.estructuras[n]

LEMMA SobrePisa ==
    ASSUME diagrama' \in Diagramas, Sobre(diagrama, diagrama')
    PROVE  Abstracto!Pisar
<1>1. Abstracto!EsDiagrama(diagrama')
  BY DiagramaBien, MismoBien
<1>. QED BY <1>1 DEF Sobre, Abstracto!Pisar, Abstracto!Conserva, Abstracto!Extiende

LEMMA GuardarAtributo ==
    ASSUME NEW f \in Tablas(Atributos, Atributo), NEW a \in Atributos, NEW v \in Atributo
    PROVE  /\ Guardar(f, a, v, "clase") \in Tablas(Atributos, Atributo)
           /\ DOMAIN Guardar(f, a, v, "clase") = DOMAIN f \cup {a}
           /\ \A x \in DOMAIN f : Guardar(f, a, v, "clase")[x].clase = f[x].clase
<1>. DEFINE fila == IF a \in DOMAIN f THEN [v EXCEPT !["clase"] = f[a]["clase"]] ELSE v
<1>1. \A x \in DOMAIN f : f[x] \in Atributo
  BY TablaDe
<1>2. fila \in Atributo /\ (a \in DOMAIN f => fila.clase = f[a].clase)
  BY <1>1 DEF Atributo
<1>3. Guardar(f, a, v, "clase") = Con(f, a, fila)
  BY DEF Guardar
<1>. HIDE DEF fila
<1>4. Con(f, a, fila) \in Tablas(Atributos, Atributo)
  BY <1>2, ConTabla
<1>5. DOMAIN Con(f, a, fila) = DOMAIN f \cup {a}
  BY DEF Con
<1>6. \A x \in DOMAIN f : Con(f, a, fila)[x].clase = f[x].clase
  BY <1>2 DEF Con
<1>. QED BY <1>3, <1>4, <1>5, <1>6

LEMMA GuardarReferencia ==
    ASSUME NEW g \in Tablas(Referencias, Referencia), NEW f \in Referencias,
           NEW v \in Referencia
    PROVE  /\ Guardar(g, f, v, "relacion") \in Tablas(Referencias, Referencia)
           /\ DOMAIN Guardar(g, f, v, "relacion") = DOMAIN g \cup {f}
           /\ \A x \in DOMAIN g : Guardar(g, f, v, "relacion")[x].relacion = g[x].relacion
<1>. DEFINE fila == IF f \in DOMAIN g THEN [v EXCEPT !["relacion"] = g[f]["relacion"]] ELSE v
<1>1. \A x \in DOMAIN g : g[x] \in Referencia
  BY TablaDe
<1>2. fila \in Referencia /\ (f \in DOMAIN g => fila.relacion = g[f].relacion)
  BY <1>1 DEF Referencia
<1>3. Guardar(g, f, v, "relacion") = Con(g, f, fila)
  BY DEF Guardar
<1>. HIDE DEF fila
<1>4. Con(g, f, fila) \in Tablas(Referencias, Referencia)
  BY <1>2, ConTabla
<1>5. DOMAIN Con(g, f, fila) = DOMAIN g \cup {f}
  BY DEF Con
<1>6. \A x \in DOMAIN g : Con(g, f, fila)[x].relacion = g[x].relacion
  BY <1>2 DEF Con
<1>. QED BY <1>3, <1>4, <1>5, <1>6

LEMMA PasoPisarClase ==
    ASSUME Bien(diagrama), PisarClase
    PROVE  diagrama' \in Diagramas /\ Sobre(diagrama, diagrama')
<1>1. diagrama \in Diagramas
  BY DEF Bien
<1>2. diagrama.atributos \in Tablas(Atributos, Atributo)
  BY <1>1, LasTablas
<1>3. PICK c \in ClasesLibres :
        \/ \E a \in DOMAIN diagrama.atributos :
             diagrama' = [diagrama EXCEPT !.clases = @ \cup {c},
                             !.atributos = Guardar(@, a, Llave(c), "clase")]
        \/ diagrama' = [diagrama EXCEPT !.clases = @ \cup {c}]
        \/ diagrama' = [diagrama EXCEPT !.atributos = Con(@, LlaveDe[c], Llave(c))]
  <2>. DEFINE conClase(c) == [diagrama EXCEPT !.clases = @ \cup {c}]
  <2>1. PICK c \in ClasesLibres :
          \/ \E a \in DOMAIN diagrama.atributos :
               diagrama' = [conClase(c) EXCEPT !.atributos = Guardar(@, a, Llave(c), "clase")]
          \/ diagrama' = conClase(c)
          \/ diagrama' = [diagrama EXCEPT !.atributos = Con(@, LlaveDe[c], Llave(c))]
    BY DEF PisarClase, AlgunoDe
  <2>2. \A a : [conClase(c) EXCEPT !.atributos = Guardar(@, a, Llave(c), "clase")]
              = [diagrama EXCEPT !.clases = @ \cup {c},
                                 !.atributos = Guardar(@, a, Llave(c), "clase")]
    BY <1>1 DEF Diagramas
  <2>3. CASE \E a \in DOMAIN diagrama.atributos :
               diagrama' = [conClase(c) EXCEPT !.atributos = Guardar(@, a, Llave(c), "clase")]
    <3>1. PICK a \in DOMAIN diagrama.atributos :
            diagrama' = [conClase(c) EXCEPT !.atributos = Guardar(@, a, Llave(c), "clase")]
      BY <2>3
    <3>2. diagrama' = [diagrama EXCEPT !.clases = @ \cup {c},
                          !.atributos = Guardar(@, a, Llave(c), "clase")]
      BY <2>2, <3>1, Zenon
    <3>. QED BY <3>2
  <2>. HIDE DEF conClase
  <2>4. CASE diagrama' = [diagrama EXCEPT !.clases = @ \cup {c}]
    BY <2>4
  <2>5. CASE diagrama' = [diagrama EXCEPT !.atributos = Con(@, LlaveDe[c], Llave(c))]
    BY <2>5
  <2>. QED BY <2>1, <2>3, <2>4, <2>5 DEF conClase
<1>4. /\ c \in Clases /\ LlaveDe[c] \in Atributos
      /\ LlaveDe[c] \notin DOMAIN diagrama.atributos
  BY IdsAssumption DEF ClasesLibres, Vivo
<1>5. Llave(c) \in Atributo
  BY <1>4 DEF Llave, Atributo, Procedencias
<1>6. ASSUME NEW a \in DOMAIN diagrama.atributos,
             diagrama' = [diagrama EXCEPT !.clases = @ \cup {c},
                             !.atributos = Guardar(@, a, Llave(c), "clase")]
      PROVE  diagrama' \in Diagramas /\ Sobre(diagrama, diagrama')
  <2>. DEFINE g == Guardar(diagrama.atributos, a, Llave(c), "clase")
  <2>1. a \in Atributos
    BY <1>1, FilasBien
  <2>2. /\ g \in Tablas(Atributos, Atributo)
        /\ DOMAIN g = DOMAIN diagrama.atributos \cup {a}
        /\ \A x \in DOMAIN diagrama.atributos : g[x].clase = diagrama.atributos[x].clase
    BY <1>2, <1>5, <2>1, GuardarAtributo
  <2>3. diagrama' = [diagrama EXCEPT !.clases = @ \cup {c}, !.atributos = g]
    BY <1>6
  <2>. HIDE DEF g
  <2>. QED BY <1>1, <1>4, <2>2, <2>3 DEF Diagramas, Sobre
<1>7. CASE diagrama' = [diagrama EXCEPT !.clases = @ \cup {c}]
  BY <1>1, <1>4, <1>7 DEF Diagramas, Sobre
<1>8. CASE diagrama' = [diagrama EXCEPT !.atributos = Con(@, LlaveDe[c], Llave(c))]
  <2>. DEFINE g == Con(diagrama.atributos, LlaveDe[c], Llave(c))
  <2>1. /\ g \in Tablas(Atributos, Atributo)
        /\ Fila(g, diagrama.atributos, LlaveDe[c], Llave(c))
    BY <1>2, <1>4, <1>5, ConTabla, ConFila
  <2>2. diagrama' = [diagrama EXCEPT !.atributos = g]
    BY <1>8
  <2>. HIDE DEF g
  <2>. QED BY <1>1, <2>1, <2>2 DEF Diagramas, Sobre, Fila
<1>. QED BY <1>3, <1>6, <1>7, <1>8

LEMMA PasoPisarRelacion ==
    ASSUME Bien(diagrama), NEW rel \in RelacionPedida, PisarRelacion(rel)
    PROVE  diagrama' \in Diagramas /\ Sobre(diagrama, diagrama')
<1>. DEFINE r == AlgunoDe(RelacionesLibres)
            f == AlgunoDe(ReferenciasLibres)
            conRel == [diagrama EXCEPT !.relaciones = Con(@, r, rel)]
            ConFk(c, u) == [conRel EXCEPT !.atributos = Con(@, ForaneaDe[f], Foranea(c, u))]
<1>1. diagrama \in Diagramas
  BY DEF Bien
<1>2. rel \in Relacion /\ Extremos(rel) \subseteq diagrama.clases
  BY CotasAssumption DEF PisarRelacion, CrearRelacionCon, RelacionPedida, Relacion
<1>3. r \in Relaciones /\ r \notin DOMAIN diagrama.relaciones
  <2>1. r \in RelacionesLibres
    BY DEF PisarRelacion, CrearRelacionCon, AlgunoDe
  <2>. QED BY <2>1 DEF RelacionesLibres
<1>4. /\ ReferenciasLibres # {}
      /\ \/ diagrama' = conRel
         \/ \E c \in Extremos(rel), u \in BOOLEAN : diagrama' = ConFk(c, u)
  BY DEF PisarRelacion, CrearRelacionCon
<1>5. ForaneaDe[f] \in Atributos /\ ForaneaDe[f] \notin DOMAIN diagrama.atributos
  <2>1. f \in ReferenciasLibres
    BY <1>4 DEF AlgunoDe
  <2>2. f \in Referencias
    BY <2>1, CotasAssumption DEF ReferenciasLibres
  <2>. QED BY <2>1, <2>2, IdsAssumption DEF ReferenciasLibres, Vivo
<1>. HIDE DEF r, f
<1>. DEFINE g == Con(diagrama.relaciones, r, rel)
<1>6. g \in Tablas(Relaciones, Relacion) /\ Fila(g, diagrama.relaciones, r, rel)
  <2>1. diagrama.relaciones \in Tablas(Relaciones, Relacion)
    BY <1>1, LasTablas
  <2>. QED BY <1>2, <1>3, <2>1, ConTabla, ConFila
<1>7. conRel = [diagrama EXCEPT !.relaciones = g]
  OBVIOUS
<1>. HIDE DEF g
<1>8. conRel \in Diagramas /\ Sobre(diagrama, conRel) /\ conRel.atributos = diagrama.atributos
  <2>. HIDE DEF conRel
  <2>. QED BY <1>1, <1>6, <1>7 DEF Diagramas, Sobre, Fila
<1>9. ASSUME NEW c \in Extremos(rel), NEW u \in BOOLEAN, diagrama' = ConFk(c, u)
      PROVE  diagrama' \in Diagramas /\ Sobre(diagrama, diagrama')
  <2>. DEFINE h == Con(conRel.atributos, ForaneaDe[f], Foranea(c, u))
  <2>1. diagrama' = [conRel EXCEPT !.atributos = h]
    BY <1>9
  <2>2. Foranea(c, u) \in Atributo
    BY <1>1, <1>2, FilasBien DEF Foranea, Atributo, Procedencias
  <2>3. conRel.atributos \in Tablas(Atributos, Atributo)
    BY <1>8, LasTablas
  <2>. HIDE DEF conRel
  <2>4. /\ h \in Tablas(Atributos, Atributo)
        /\ Fila(h, conRel.atributos, ForaneaDe[f], Foranea(c, u))
    BY <1>5, <1>8, <2>2, <2>3, ConTabla, ConFila
  <2>. HIDE DEF h
  <2>5. /\ diagrama'.clases = conRel.clases /\ diagrama'.atributos = h
        /\ diagrama'.relaciones = conRel.relaciones
        /\ diagrama'.referencias = conRel.referencias
        /\ diagrama'.estructuras = conRel.estructuras
        /\ diagrama' \in Diagramas
    BY <1>8, <2>1, <2>4 DEF Diagramas
  <2>. QED BY <1>8, <2>4, <2>5 DEF Sobre, Fila
<1>. QED BY <1>4, <1>8, <1>9

IdsPosibles ==
    [intermedia : Clases, inicial : Atributos, fkOrigen : Atributos, fkDestino : Atributos,
     relOrigen : Relaciones, relDestino : Relaciones,
     refOrigen : Referencias, refDestino : Referencias]

\* The ids a structure draws.
LEMMA IdsDibujados ==
    ASSUME NEW n \in EstructurasLibres
    PROVE  /\ IdsNm(n) \in IdsPosibles
           /\ n \in Estructuras /\ n \notin DOMAIN diagrama.estructuras
           /\ IdsNm(n).intermedia \notin diagrama.clases
           /\ {IdsNm(n).inicial, IdsNm(n).fkOrigen, IdsNm(n).fkDestino}
                 \cap DOMAIN diagrama.atributos = {}
           /\ {IdsNm(n).relOrigen, IdsNm(n).relDestino} \cap DOMAIN diagrama.relaciones = {}
           /\ {IdsNm(n).refOrigen, IdsNm(n).refDestino} \cap DOMAIN diagrama.referencias = {}
<1>1. /\ n \in Estructuras /\ n \notin DOMAIN diagrama.estructuras
      /\ FilasDe[n].intermedia \notin diagrama.clases
      /\ LlaveDe[FilasDe[n].intermedia] \notin DOMAIN diagrama.atributos
      /\ \A f \in {FilasDe[n].refOrigen, FilasDe[n].refDestino} :
            f \notin DOMAIN diagrama.referencias /\ ForaneaDe[f] \notin DOMAIN diagrama.atributos
      /\ {FilasDe[n].relOrigen, FilasDe[n].relDestino} \cap DOMAIN diagrama.relaciones = {}
  BY DEF EstructurasLibres, Vivo
<1>2. FilasDe[n] \in FilasNm
  BY <1>1, IdsAssumption
<1>3. IdsNm(n) \in IdsPosibles
  BY <1>2, IdsAssumption DEF IdsNm, IdsPosibles, FilasNm
<1>. QED BY <1>1, <1>3 DEF IdsNm

\* Whatever ids its rows come under, a structure leaves the others there.
LEMMA EstructuraSobre ==
    ASSUME NEW d, d = diagrama, Bien(d), NEW ro, NEW rd, PuedeNm(ro, rd),
           NEW n \in EstructurasLibres, NEW ids \in IdsPosibles
    PROVE  /\ ConEstructura(n, ids, ro, rd) \in Diagramas
           /\ Sobre(d, ConEstructura(n, ids, ro, rd))
<1>. DEFINE i == ids.intermedia
            origen == d.atributos[ro].clase
            destino == d.atributos[rd].clase
            ll == Llave(i)
            fo == Foranea(i, FALSE)
            ho == [origen |-> origen, destino |-> i, forma |-> "1N"]
            hd == [origen |-> destino, destino |-> i, forma |-> "1N"]
            refO == [relacion |-> ids.relOrigen, fk |-> ids.fkOrigen, referenciado |-> ro]
            refD == [relacion |-> ids.relDestino, fk |-> ids.fkDestino, referenciado |-> rd]
            nm == [origen |-> origen, destino |-> destino, intermedia |-> i,
                   relOrigen |-> ids.relOrigen, relDestino |-> ids.relDestino]
            A1 == Guardar(d.atributos, ids.inicial, ll, "clase")
            A2 == Guardar(A1, ids.fkOrigen, fo, "clase")
            A3 == Guardar(A2, ids.fkDestino, fo, "clase")
            R1 == Con(d.relaciones, ids.relOrigen, ho)
            R2 == Con(R1, ids.relDestino, hd)
            F1 == Guardar(d.referencias, ids.refOrigen, refO, "relacion")
            F2 == Guardar(F1, ids.refDestino, refD, "relacion")
            E1 == Con(d.estructuras, n, nm)
            e == ConEstructura(n, ids, ro, rd)
<1>1. e = [clases |-> d.clases \cup {i}, atributos |-> A3, relaciones |-> R2,
           referencias |-> F2, estructuras |-> E1]
  BY DEF ConEstructura
<1>2. d \in Diagramas
  BY DEF Bien
<1>3. /\ d.clases \in SUBSET Clases /\ d.atributos \in Tablas(Atributos, Atributo)
      /\ d.relaciones \in Tablas(Relaciones, Relacion)
      /\ d.referencias \in Tablas(Referencias, Referencia)
      /\ d.estructuras \in Tablas(Estructuras, Estructura)
  BY <1>2, LasTablas
<1>4. /\ ro \in Atributos /\ rd \in Atributos /\ origen \in Clases /\ destino \in Clases
  <2>1. ro \in DOMAIN d.atributos /\ rd \in DOMAIN d.atributos
    BY DEF PuedeNm
  <2>2. d.atributos[ro] \in Atributo /\ d.atributos[rd] \in Atributo
    BY <1>2, <2>1, FilasBien
  <2>. QED BY <1>2, <2>1, <2>2, FilasBien DEF Atributo
<1>5. /\ i \in Clases /\ ids.inicial \in Atributos /\ ids.fkOrigen \in Atributos
      /\ ids.fkDestino \in Atributos /\ ids.relOrigen \in Relaciones
      /\ ids.relDestino \in Relaciones /\ ids.refOrigen \in Referencias
      /\ ids.refDestino \in Referencias
  BY DEF IdsPosibles
<1>6. n \in Estructuras /\ n \notin DOMAIN d.estructuras
  BY IdsDibujados
<1>. HIDE DEF i, origen, destino, e
<1>7. ll \in Atributo /\ fo \in Atributo
  BY <1>5 DEF Llave, Foranea, Atributo, Procedencias
<1>8. ho \in Relacion /\ hd \in Relacion
  BY <1>4, <1>5 DEF Relacion, Formas
<1>9. refO \in Referencia /\ refD \in Referencia
  BY <1>4, <1>5 DEF Referencia
<1>10. nm \in Estructura
  BY <1>4, <1>5 DEF Estructura
<1>. HIDE DEF ll, fo, ho, hd, refO, refD, nm
<1>a. \A f \in Tablas(Atributos, Atributo), a \in Atributos, v \in Atributo :
        DOMAIN Guardar(f, a, v, "clase") = DOMAIN f \cup {a}
  BY GuardarAtributo
<1>b. \A g \in Tablas(Referencias, Referencia), f \in Referencias, v \in Referencia :
        DOMAIN Guardar(g, f, v, "relacion") = DOMAIN g \cup {f}
  BY GuardarReferencia
<1>11. /\ A1 \in Tablas(Atributos, Atributo) /\ DOMAIN d.atributos \subseteq DOMAIN A1
       /\ \A a \in DOMAIN d.atributos : A1[a].clase = d.atributos[a].clase
  <2>1. A1 \in Tablas(Atributos, Atributo)
    BY <1>3, <1>5, <1>7, GuardarAtributo
  <2>2. DOMAIN A1 = DOMAIN d.atributos \cup {ids.inicial}
    BY <1>3, <1>5, <1>7, <1>a
  <2>3. \A a \in DOMAIN d.atributos : A1[a].clase = d.atributos[a].clase
    BY <1>3, <1>5, <1>7, GuardarAtributo
  <2>. QED BY <2>1, <2>2, <2>3
<1>. HIDE DEF A1
<1>12. /\ A2 \in Tablas(Atributos, Atributo) /\ DOMAIN A1 \subseteq DOMAIN A2
       /\ \A a \in DOMAIN A1 : A2[a].clase = A1[a].clase
  <2>1. A2 \in Tablas(Atributos, Atributo)
    BY <1>5, <1>7, <1>11, GuardarAtributo
  <2>2. DOMAIN A2 = DOMAIN A1 \cup {ids.fkOrigen}
    BY <1>5, <1>7, <1>11, <1>a
  <2>3. \A a \in DOMAIN A1 : A2[a].clase = A1[a].clase
    BY <1>5, <1>7, <1>11, GuardarAtributo
  <2>. QED BY <2>1, <2>2, <2>3
<1>. HIDE DEF A2
<1>13. /\ A3 \in Tablas(Atributos, Atributo) /\ DOMAIN A2 \subseteq DOMAIN A3
       /\ \A a \in DOMAIN A2 : A3[a].clase = A2[a].clase
  <2>1. A3 \in Tablas(Atributos, Atributo)
    BY <1>5, <1>7, <1>12, GuardarAtributo
  <2>2. DOMAIN A3 = DOMAIN A2 \cup {ids.fkDestino}
    BY <1>5, <1>7, <1>12, <1>a
  <2>3. \A a \in DOMAIN A2 : A3[a].clase = A2[a].clase
    BY <1>5, <1>7, <1>12, GuardarAtributo
  <2>. QED BY <2>1, <2>2, <2>3
<1>. HIDE DEF A3
<1>14. R1 \in Tablas(Relaciones, Relacion) /\ DOMAIN d.relaciones \subseteq DOMAIN R1
  BY <1>3, <1>5, <1>8, ConTabla DEF Con
<1>. HIDE DEF R1
<1>15. R2 \in Tablas(Relaciones, Relacion) /\ DOMAIN R1 \subseteq DOMAIN R2
  BY <1>5, <1>8, <1>14, ConTabla DEF Con
<1>. HIDE DEF R2
<1>16. /\ F1 \in Tablas(Referencias, Referencia) /\ DOMAIN d.referencias \subseteq DOMAIN F1
       /\ \A f \in DOMAIN d.referencias : F1[f].relacion = d.referencias[f].relacion
  <2>1. F1 \in Tablas(Referencias, Referencia)
    BY <1>3, <1>5, <1>9, GuardarReferencia
  <2>2. DOMAIN F1 = DOMAIN d.referencias \cup {ids.refOrigen}
    BY <1>3, <1>5, <1>9, <1>b
  <2>3. \A f \in DOMAIN d.referencias : F1[f].relacion = d.referencias[f].relacion
    BY <1>3, <1>5, <1>9, GuardarReferencia
  <2>. QED BY <2>1, <2>2, <2>3
<1>. HIDE DEF F1
<1>17. /\ F2 \in Tablas(Referencias, Referencia) /\ DOMAIN F1 \subseteq DOMAIN F2
       /\ \A f \in DOMAIN F1 : F2[f].relacion = F1[f].relacion
  <2>1. F2 \in Tablas(Referencias, Referencia)
    BY <1>5, <1>9, <1>16, GuardarReferencia
  <2>2. DOMAIN F2 = DOMAIN F1 \cup {ids.refDestino}
    BY <1>5, <1>9, <1>16, <1>b
  <2>3. \A f \in DOMAIN F1 : F2[f].relacion = F1[f].relacion
    BY <1>5, <1>9, <1>16, GuardarReferencia
  <2>. QED BY <2>1, <2>2, <2>3
<1>. HIDE DEF F2
<1>18. E1 \in Tablas(Estructuras, Estructura) /\ Fila(E1, d.estructuras, n, nm)
  BY <1>3, <1>6, <1>10, ConTabla, ConFila
<1>. HIDE DEF E1
<1>19. e \in Diagramas
  <2>1. d.clases \cup {i} \in SUBSET Clases
    BY <1>3, <1>5
  <2>. QED BY <1>1, <1>13, <1>15, <1>17, <1>18, <2>1 DEF Diagramas
<1>20. Sobre(d, e)
  <2>1. /\ d.clases \subseteq e.clases /\ e.atributos = A3 /\ e.relaciones = R2
        /\ e.referencias = F2 /\ e.estructuras = E1
    BY <1>1
  <2>2. /\ DOMAIN d.atributos \subseteq DOMAIN A3
        /\ \A a \in DOMAIN d.atributos : A3[a].clase = d.atributos[a].clase
    BY <1>11, <1>12, <1>13
  <2>3. DOMAIN d.relaciones \subseteq DOMAIN R2
    BY <1>14, <1>15
  <2>4. /\ DOMAIN d.referencias \subseteq DOMAIN F2
        /\ \A f \in DOMAIN d.referencias : F2[f].relacion = d.referencias[f].relacion
    BY <1>16, <1>17
  <2>. QED BY <1>18, <2>1, <2>2, <2>3, <2>4 DEF Sobre, Fila
<1>. QED BY <1>19, <1>20 DEF e

\* A table without one of its rows.
LEMMA SinTabla ==
    ASSUME NEW ids, NEW filas, NEW f \in Tablas(ids, filas), NEW x
    PROVE  /\ Sin(f, {x}) \in Tablas(ids, filas) /\ DOMAIN Sin(f, {x}) = DOMAIN f \ {x}
           /\ \A y \in DOMAIN f \ {x} : Sin(f, {x})[y] = f[y]
<1>1. f \in [DOMAIN f -> filas] /\ DOMAIN f \in SUBSET ids
  BY TablaDe
<1>2. Sin(f, {x}) \in [DOMAIN f \ {x} -> filas]
  BY <1>1 DEF Sin
<1>3. DOMAIN f \ {x} \in SUBSET ids
  BY <1>1
<1>4. Sin(f, {x}) \in Tablas(ids, filas)
  BY <1>2, <1>3 DEF Tablas
<1>. QED BY <1>4 DEF Sin

\* What is over a diagram is over it without a row that was not there.
LEMMA SinFilaSobre ==
    ASSUME NEW d, NEW e \in Diagramas, Sobre(d, e), NEW x, NEW t,
           \/ t = "clases" /\ x \notin d.clases
           \/ t = "atributos" /\ x \notin DOMAIN d.atributos
           \/ t = "relaciones" /\ x \notin DOMAIN d.relaciones
           \/ t = "referencias" /\ x \notin DOMAIN d.referencias
    PROVE  SinFila(e, t, x) \in Diagramas /\ Sobre(d, SinFila(e, t, x))
<1>1. /\ e.atributos \in Tablas(Atributos, Atributo) /\ e.relaciones \in Tablas(Relaciones, Relacion)
      /\ e.referencias \in Tablas(Referencias, Referencia)
  BY LasTablas
<1>2. CASE t = "clases" /\ x \notin d.clases
  <2>1. SinFila(e, t, x) = [e EXCEPT !.clases = e.clases \ {x}]
    BY <1>2 DEF SinFila
  <2>. QED BY <1>2, <2>1 DEF Diagramas, Sobre
<1>3. CASE t = "atributos" /\ x \notin DOMAIN d.atributos
  <2>. DEFINE g == Sin(e.atributos, {x})
  <2>1. SinFila(e, t, x) = [e EXCEPT !.atributos = g]
    BY <1>3 DEF SinFila
  <2>2. /\ g \in Tablas(Atributos, Atributo) /\ DOMAIN g = DOMAIN e.atributos \ {x}
        /\ \A y \in DOMAIN e.atributos \ {x} : g[y] = e.atributos[y]
    <3>1. g \in Tablas(Atributos, Atributo)
      BY <1>1, SinTabla
    <3>. QED BY <3>1 DEF Sin
  <2>. HIDE DEF g
  <2>. QED BY <1>3, <2>1, <2>2 DEF Diagramas, Sobre
<1>4. CASE t = "relaciones" /\ x \notin DOMAIN d.relaciones
  <2>. DEFINE g == Sin(e.relaciones, {x})
  <2>1. SinFila(e, t, x) = [e EXCEPT !.relaciones = g]
    BY <1>4 DEF SinFila
  <2>2. /\ g \in Tablas(Relaciones, Relacion) /\ DOMAIN g = DOMAIN e.relaciones \ {x}
    <3>1. g \in Tablas(Relaciones, Relacion)
      BY <1>1, SinTabla
    <3>. QED BY <3>1 DEF Sin
  <2>. HIDE DEF g
  <2>. QED BY <1>4, <2>1, <2>2 DEF Diagramas, Sobre
<1>5. CASE t = "referencias" /\ x \notin DOMAIN d.referencias
  <2>. DEFINE g == Sin(e.referencias, {x})
  <2>1. SinFila(e, t, x) = [e EXCEPT !.referencias = g]
    BY <1>5 DEF SinFila
  <2>2. /\ g \in Tablas(Referencias, Referencia) /\ DOMAIN g = DOMAIN e.referencias \ {x}
        /\ \A y \in DOMAIN e.referencias \ {x} : g[y] = e.referencias[y]
    <3>1. g \in Tablas(Referencias, Referencia)
      BY <1>1, SinTabla
    <3>. QED BY <3>1 DEF Sin
  <2>. HIDE DEF g
  <2>. QED BY <1>5, <2>1, <2>2 DEF Diagramas, Sobre
<1>. QED BY <1>2, <1>3, <1>4, <1>5

LEMMA PasoPisarNm ==
    ASSUME Bien(diagrama), NEW ro, NEW rd, PisarEstructuraNm(ro, rd)
    PROVE  diagrama' \in Diagramas /\ Sobre(diagrama, diagrama')
<1>. DEFINE n == AlgunoDe(EstructurasLibres)
            ids == IdsNm(n)
            EnUso(k) == DOMAIN diagrama[EnTabla[k]]
                        \cup {ids[j] : j \in {i \in DOMAIN ids : EnTabla[i] = EnTabla[k]}}
            Claves == {"intermedia", "inicial", "fkOrigen", "fkDestino",
                       "relOrigen", "relDestino", "refOrigen", "refDestino"}
<1>1. /\ PuedeNm(ro, rd) /\ n \in EstructurasLibres
      /\ \/ \E k \in DOMAIN ids \ {"intermedia"} : \E x \in EnUso(k) \ {ids[k]} :
               diagrama' = ConEstructura(n, [ids EXCEPT ![k] = x], ro, rd)
         \/ \E k \in DOMAIN ids :
               diagrama' = SinFila(ConEstructura(n, ids, ro, rd), EnTabla[k], ids[k])
  BY DEF PisarEstructuraNm, PuedeNm, AlgunoDe
<1>2. DOMAIN ids = Claves
  BY DEF IdsNm
<1>. HIDE DEF n
<1>3. /\ ids \in IdsPosibles /\ ids.intermedia \notin diagrama.clases
      /\ {ids.inicial, ids.fkOrigen, ids.fkDestino} \cap DOMAIN diagrama.atributos = {}
      /\ {ids.relOrigen, ids.relDestino} \cap DOMAIN diagrama.relaciones = {}
      /\ {ids.refOrigen, ids.refDestino} \cap DOMAIN diagrama.referencias = {}
  BY <1>1, IdsDibujados
<1>4. diagrama \in Diagramas
  BY DEF Bien
<1>. HIDE DEF ids
<1>5. /\ DOMAIN diagrama.atributos \subseteq Atributos
      /\ DOMAIN diagrama.relaciones \subseteq Relaciones
      /\ DOMAIN diagrama.referencias \subseteq Referencias
  BY <1>4, FilasBien
<1>6. ASSUME NEW k \in Claves \ {"intermedia"}, NEW x \in EnUso(k),
             diagrama' = ConEstructura(n, [ids EXCEPT ![k] = x], ro, rd)
      PROVE  diagrama' \in Diagramas /\ Sobre(diagrama, diagrama')
  <2>1. ASSUME k \in {"inicial", "fkOrigen", "fkDestino"} PROVE x \in Atributos
    BY <1>2, <1>3, <1>5, <1>6, <2>1 DEF EnTabla, IdsPosibles
  <2>2. ASSUME k \in {"relOrigen", "relDestino"} PROVE x \in Relaciones
    BY <1>2, <1>3, <1>5, <1>6, <2>2 DEF EnTabla, IdsPosibles
  <2>3. ASSUME k \in {"refOrigen", "refDestino"} PROVE x \in Referencias
    BY <1>2, <1>3, <1>5, <1>6, <2>3 DEF EnTabla, IdsPosibles
  <2>. DEFINE otros == [ids EXCEPT ![k] = x]
  <2>4. otros \in IdsPosibles
    BY <1>3, <1>6, <2>1, <2>2, <2>3 DEF IdsPosibles
  <2>. HIDE DEF otros
  <2>5. diagrama' = ConEstructura(n, otros, ro, rd)
    BY <1>6 DEF otros
  <2>. QED BY <1>1, <2>4, <2>5, EstructuraSobre
<1>7. ASSUME NEW k \in Claves,
             diagrama' = SinFila(ConEstructura(n, ids, ro, rd), EnTabla[k], ids[k])
      PROVE  diagrama' \in Diagramas /\ Sobre(diagrama, diagrama')
  <2>. DEFINE e == ConEstructura(n, ids, ro, rd)
              d == diagrama
              x == ids[k]
              t == EnTabla[k]
  <2>1. e \in Diagramas /\ Sobre(d, e)
    BY <1>1, <1>3, EstructuraSobre
  <2>2. \/ t = "clases" /\ x \notin d.clases
        \/ t = "atributos" /\ x \notin DOMAIN d.atributos
        \/ t = "relaciones" /\ x \notin DOMAIN d.relaciones
        \/ t = "referencias" /\ x \notin DOMAIN d.referencias
    BY <1>3, <1>7 DEF EnTabla
  <2>3. diagrama' = SinFila(e, t, x)
    BY <1>7
  <2>. HIDE DEF e, x, t
  <2>4. SinFila(e, t, x) \in Diagramas /\ Sobre(d, SinFila(e, t, x))
    BY <2>1, <2>2, SinFilaSobre
  <2>. QED BY <2>3, <2>4
<1>. QED BY <1>1, <1>2, <1>6, <1>7

\* A creation under an id that was not drawn leaves a diagram, and every row
\* of it where it was.
LEMMA PasoPisar ==
    ASSUME Bien(diagrama), Pisar
    PROVE  diagrama' \in Diagramas /\ Abstracto!Pisar
<1>1. diagrama' \in Diagramas /\ Sobre(diagrama, diagrama')
  BY PasoPisarClase, PasoPisarRelacion, PasoPisarNm DEF Pisar
<1>. QED BY <1>1, SobrePisa

\* A mutation is one the abstract diagram allows, and keeps the diagram whole.
Muta == Abstracto!Agregar \/ Abstracto!Reescribir \/ Abstracto!Quitar

LEMMA PasoMutacion ==
    ASSUME CiegasANm = FALSE, Bien(diagrama), Mutacion
    PROVE  Bien(diagrama') /\ Muta
<1>3. CASE CrearClase
  BY <1>3, PasoCrearClase DEF Muta
<1>4. ASSUME NEW c \in Clases, NEW u \in BOOLEAN, CrearAtributo(c, u)
      PROVE  Bien(diagrama') /\ Muta
  BY <1>4, PasoCrearAtributo DEF Muta
<1>5. ASSUME NEW a, NEW u, ActualizarAtributo(a, u) PROVE Bien(diagrama') /\ Muta
  BY <1>5, PasoActualizar DEF Muta
<1>6. ASSUME NEW a, NEW u \in BOOLEAN, RecrearAtributo(a, u)
      PROVE  Bien(diagrama') /\ Muta
  BY <1>6, PasoRecrear DEF Muta
<1>7. ASSUME NEW ref \in Referencia, CrearReferencia(ref)
      PROVE  Bien(diagrama') /\ Muta
  BY <1>7, PasoCrearReferencia DEF Muta
<1>8. ASSUME NEW rel \in RelacionPedida, CrearRelacion(rel)
      PROVE  Bien(diagrama') /\ Muta
  BY <1>8, PasoCrearRelacion DEF Muta
<1>9. ASSUME NEW ro, NEW rd, CrearEstructuraNm(ro, rd)
      PROVE  Bien(diagrama') /\ Muta
  BY <1>9, PasoCrearNm DEF Muta
<1>10. CASE \/ \E a \in Atributos : EliminarAtributo(a)
            \/ \E r \in Relaciones : EliminarRelacion(r)
            \/ \E c \in Clases : EliminarClase(c)
            \/ \E n \in Estructuras : EliminarEstructuraNm(n)
  BY <1>10, PasoEliminar DEF Muta
<1>11. CASE \/ \E a \in Atributos : EliminarAtributoApi(a)
            \/ \E f \in Referencias : EliminarReferencia(f)
  BY <1>11, PasoEliminarApi DEF Muta
<1>. QED BY <1>3, <1>4, <1>5, <1>6, <1>7, <1>8, <1>9, <1>10, <1>11 DEF Mutacion

\* A step of the operations is one the abstract diagram allows, and keeps
\* the invariant.
LEMMA Pasos ==
    ASSUME CiegasANm = FALSE, IInv, [Next]_vars
    PROVE  IInv' /\ [Abstracto!Next]_<<diagrama, pisado>>
<1>1. CASE UNCHANGED vars
  BY <1>1 DEF IInv, vars
<1>2. CASE ~pisado /\ Mutacion /\ UNCHANGED pisado
  <2>1. Bien(diagrama') /\ Muta
    BY <1>2, PasoMutacion DEF IInv
  <2>2. IInv'
    BY <1>2, <2>1 DEF IInv, Bien
  <2>3. Abstracto!Next
    BY <1>2, <2>1 DEF Abstracto!Next, Muta
  <2>. QED BY <2>2, <2>3
<1>3. CASE ~pisado /\ Pisar /\ pisado' = TRUE
  <2>1. diagrama' \in Diagramas /\ Abstracto!Pisar
    BY <1>3, PasoPisar DEF IInv
  <2>2. IInv'
    BY <1>3, <2>1 DEF IInv
  <2>3. Abstracto!Next
    BY <1>3, <2>1 DEF Abstracto!Next
  <2>. QED BY <2>2, <2>3
<1>. QED BY <1>1, <1>2, <1>3 DEF Next

\* Where the blind routes are not used on the rows of a structure, the
\* invariant holds of every diagram the operations reach.
THEOREM Inductivo == ASSUME CiegasANm = FALSE PROVE Spec => []IInv
<1>1. Init => IInv
  BY VacioBien DEF Init, IInv, Bien
<1>2. IInv /\ [Next]_vars => IInv'
  BY Pasos
<1>. QED BY <1>1, <1>2, PTL DEF Spec

\* The tables of the diagram hold rows of their types, whatever the
\* cascades of cascadas_diagrama.py take away.
THEOREM Tipos == ASSUME CiegasANm = FALSE PROVE Spec => []TypeOK
<1>1. IInv => TypeOK
  BY DiagramaBien DEF IInv, TypeOK
<1>. QED BY <1>1, Inductivo, PTL

\* However the deletions call one another, no relation, reference, attribute
\* or structure is left that points to something that is gone, no relation
\* without the key that materializes it, and no key without its reference,
\* until a creation comes under an id that is in use or of a deleted row.
THEOREM SiempreIntegra == ASSUME CiegasANm = FALSE PROVE Spec => []Integridad
<1>1. IInv => Integridad
  BY SalvoNada DEF IInv, Bien, Integridad
<1>. QED BY <1>1, Inductivo, PTL

\* The operations of the use cases and of the facade, cascades included,
\* implement the abstract diagram: each adds what fits, rewrites in place, or
\* takes along all that hung from what it takes; and the first creation under
\* an id that was not drawn, whichever rows it writes over, takes no row away
\* and moves no attribute to another class nor reference to another relation.
THEOREM Implementa == ASSUME CiegasANm = FALSE PROVE Spec => EsDiagramaIntegro
<1>1. Init => Abstracto!Init
  BY DEF Init, Abstracto!Init, Vacio, Abstracto!Vacio
<1>2. IInv /\ [Next]_vars => [Abstracto!Next]_<<diagrama, pisado>>
  BY Pasos
<1>. QED BY <1>1, <1>2, Inductivo, PTL DEF Spec, EsDiagramaIntegro, Abstracto!Spec

(***************************************************************************)
(* A diagram read while it changes.                                        *)
(***************************************************************************)
\* The rows that two diagrams have in common are the same, but for an
\* attribute rewritten in its class; and a structure only one of them has
\* came with its intermediate class.
Comparten(d, e) ==
    /\ \A a \in DOMAIN d.atributos \cap DOMAIN e.atributos :
          d.atributos[a].clase = e.atributos[a].clase
    /\ \A r \in DOMAIN d.relaciones \cap DOMAIN e.relaciones : d.relaciones[r] = e.relaciones[r]
    /\ \A f \in DOMAIN d.referencias \cap DOMAIN e.referencias :
          d.referencias[f] = e.referencias[f]
    /\ \A n \in DOMAIN d.estructuras \cap DOMAIN e.estructuras :
          d.estructuras[n] = e.estructuras[n]
    /\ \A f \in DOMAIN e.referencias \ DOMAIN d.referencias :
          \A a \in DOMAIN d.atributos \cap DOMAIN e.atributos : d.atributos[a] = e.atributos[a]
    /\ \A n \in DOMAIN e.estructuras \ DOMAIN d.estructuras :
          e.estructuras[n].intermedia \notin d.clases

\* A diagram that fits together is listed whole.
LEMMA ListadoEntero ==
    ASSUME NEW d \in Diagramas, Integro(d)
    PROVE  Listado(d) = d
<1>1. d = [clases |-> d.clases, atributos |-> d.atributos, relaciones |-> d.relaciones,
           referencias |-> d.referencias, estructuras |-> d.estructuras]
  BY DEF Diagramas
<1>2. /\ d.atributos = [a \in DOMAIN d.atributos |-> d.atributos[a]]
      /\ d.referencias = [f \in DOMAIN d.referencias |-> d.referencias[f]]
      /\ d.estructuras = [n \in DOMAIN d.estructuras |-> d.estructuras[n]]
  <2>1. /\ d.atributos \in Tablas(Atributos, Atributo)
        /\ d.referencias \in Tablas(Referencias, Referencia)
        /\ d.estructuras \in Tablas(Estructuras, Estructura)
    BY DEF Diagramas
  <2>. QED BY <2>1, TablaDe
<1>3. UNION {AtributosDe(d, c) : c \in d.clases} = DOMAIN d.atributos
  BY DEF AtributosDe, Integro, AtributoBien
<1>4. UNION {ReferenciasDe(d, r) : r \in DOMAIN d.relaciones} = DOMAIN d.referencias
  BY DEF ReferenciasDe, Integro, ReferenciaBien
<1>5. EstructurasListadas(d) = DOMAIN d.estructuras
  BY DEF EstructurasListadas, Integro, EstructuraBien
<1>. QED BY <1>1, <1>2, <1>3, <1>4, <1>5 DEF Listado, De

\* What each query saw, with the mutation after the i-th.
LEMMA LecturaDe ==
    ASSUME NEW d, NEW e, NEW i \in 1 .. 4
    PROVE  LET l == Lectura(d, e, i)
           IN /\ l = [clases |-> l.clases, atributos |-> l.atributos, relaciones |-> l.relaciones,
                      referencias |-> l.referencias, estructuras |-> l.estructuras]
              /\ l.atributos = d.atributos
              /\ l.clases = IF i >= 2 THEN d.clases ELSE e.clases
              /\ l.referencias = IF i >= 3 THEN d.referencias ELSE e.referencias
              /\ l.relaciones = IF i >= 4 THEN d.relaciones ELSE e.relaciones
              /\ l.estructuras = e.estructuras
<1>. DEFINE l == Lectura(d, e, i)
            temprano == {Consultas[k] : k \in 1 .. i}
<1>1. DOMAIN Vacio = {"clases", "atributos", "relaciones", "referencias", "estructuras"}
  BY DEF Vacio
<1>2. l = [t \in DOMAIN Vacio |-> IF t \in temprano THEN d[t] ELSE e[t]]
  BY DEF Lectura
<1>3. /\ Consultas[1] = "atributos" /\ Consultas[2] = "clases" /\ Consultas[3] = "referencias"
      /\ Consultas[4] = "relaciones"
  BY DEF Consultas
<1>4. CASE i = 1
  <2>1. temprano = {"atributos"}
    BY <1>3, <1>4
  <2>. QED BY <1>1, <1>2, <1>4, <2>1
<1>5. CASE i = 2
  <2>1. temprano = {"atributos", "clases"}
    BY <1>3, <1>5
  <2>. QED BY <1>1, <1>2, <1>5, <2>1
<1>6. CASE i = 3
  <2>1. temprano = {"atributos", "clases", "referencias"}
    BY <1>3, <1>6
  <2>. QED BY <1>1, <1>2, <1>6, <2>1
<1>7. CASE i = 4
  <2>1. temprano = {"atributos", "clases", "referencias", "relaciones"}
    BY <1>3, <1>7
  <2>. QED BY <1>1, <1>2, <1>7, <2>1
<1>. QED BY <1>4, <1>5, <1>6, <1>7

\* The rows of f with the ids of S.
LEMMA DeTabla ==
    ASSUME NEW f, NEW S
    PROVE  DOMAIN De(f, S) = S /\ \A x \in S : De(f, S)[x] = f[x]
  BY DEF De

\* A reading taken over two diagrams that fit together and differ by one
\* mutation, as far as the validator lets it through.
Leido(g, d, e) ==
    /\ DOMAIN g.atributos \subseteq DOMAIN d.atributos
    /\ \A a \in DOMAIN g.atributos : g.atributos[a] = d.atributos[a]
    /\ \A r \in DOMAIN g.relaciones : \A x \in {d, e} :
          r \in DOMAIN x.relaciones => g.relaciones[r] = x.relaciones[r]
    /\ \A f \in DOMAIN g.referencias :
          /\ g.referencias[f].relacion \in DOMAIN g.relaciones
          /\ \E x \in {d, e} : f \in DOMAIN x.referencias /\ g.referencias[f] = x.referencias[f]
    \* A relation of both is read with a reference that materializes it.
    /\ \A r \in DOMAIN g.relaciones \cap DOMAIN d.relaciones :
          RequiereMaterializacion(g.relaciones[r]) =>
             \E x \in {d, e} : \E f \in DOMAIN g.referencias \cap DOMAIN x.referencias :
                /\ r \in DOMAIN x.relaciones
                /\ g.referencias[f] = x.referencias[f] /\ x.referencias[f].relacion = r
                /\ Materializa(x, x.referencias[f])
    /\ \A n \in DOMAIN g.estructuras :
          /\ n \in DOMAIN e.estructuras /\ g.estructuras[n] = e.estructuras[n]
          /\ ClasesDe(g.estructuras[n]) \subseteq g.clases
          /\ {g.estructuras[n].relOrigen, g.estructuras[n].relDestino} \subseteq DOMAIN g.relaciones

LEMMA LeidoEn ==
    ASSUME NEW d \in Diagramas, NEW e \in Diagramas, Integro(d), Integro(e), Comparten(d, e),
           NEW i \in 1 .. 4
    PROVE  Leido(Generable(Lectura(d, e, i)), d, e)
<1>. DEFINE l == Lectura(d, e, i)
            g == Generable(l)
<1>1. /\ l = [clases |-> l.clases, atributos |-> l.atributos, relaciones |-> l.relaciones,
              referencias |-> l.referencias, estructuras |-> l.estructuras]
      /\ l.atributos = d.atributos
      /\ l.clases = IF i >= 2 THEN d.clases ELSE e.clases
      /\ l.referencias = IF i >= 3 THEN d.referencias ELSE e.referencias
      /\ l.relaciones = IF i >= 4 THEN d.relaciones ELSE e.relaciones
      /\ l.estructuras = e.estructuras
  BY LecturaDe
<1>. HIDE DEF l
<1>2. /\ g.clases = l.clases /\ g.relaciones = l.relaciones
      /\ g.atributos = De(l.atributos, {a \in DOMAIN l.atributos : l.atributos[a].clase \in l.clases})
      /\ g.referencias = De(l.referencias, {f \in DOMAIN l.referencias :
                               l.referencias[f].relacion \in DOMAIN l.relaciones})
      /\ g.estructuras = De(l.estructuras, {n \in DOMAIN l.estructuras :
                               ClasesDe(l.estructuras[n]) \subseteq l.clases})
  BY <1>1 DEF Generable
<1>. HIDE DEF g
<1>3. /\ DOMAIN g.atributos \subseteq DOMAIN d.atributos
      /\ \A a \in DOMAIN g.atributos : g.atributos[a] = d.atributos[a]
  BY <1>1, <1>2, DeTabla
<1>4. \A r \in DOMAIN g.relaciones : \A x \in {d, e} :
         r \in DOMAIN x.relaciones => g.relaciones[r] = x.relaciones[r]
  BY <1>1, <1>2 DEF Comparten
<1>5. /\ DOMAIN g.referencias = {f \in DOMAIN l.referencias :
                                    l.referencias[f].relacion \in DOMAIN l.relaciones}
      /\ \A f \in DOMAIN g.referencias : g.referencias[f] = l.referencias[f]
  BY <1>2, DeTabla
<1>6. /\ DOMAIN g.estructuras = {n \in DOMAIN e.estructuras :
                                    ClasesDe(e.estructuras[n]) \subseteq l.clases}
      /\ \A n \in DOMAIN g.estructuras : g.estructuras[n] = e.estructuras[n]
  BY <1>1, <1>2, DeTabla
<1>7. \A f \in DOMAIN g.referencias :
         /\ g.referencias[f].relacion \in DOMAIN g.relaciones
         /\ \E x \in {d, e} : f \in DOMAIN x.referencias /\ g.referencias[f] = x.referencias[f]
  BY <1>1, <1>2, <1>5
<1>8. ASSUME NEW r \in DOMAIN g.relaciones \cap DOMAIN d.relaciones,
             RequiereMaterializacion(g.relaciones[r])
      PROVE  \E x \in {d, e} : \E f \in DOMAIN g.referencias \cap DOMAIN x.referencias :
                /\ r \in DOMAIN x.relaciones
                /\ g.referencias[f] = x.referencias[f] /\ x.referencias[f].relacion = r
                /\ Materializa(x, x.referencias[f])
  <2>1. PICK x \in {d, e} : l.referencias = x.referencias /\ r \in DOMAIN x.relaciones
    BY <1>1, <1>2, <1>8
  <2>2. Integro(x) /\ g.relaciones[r] = x.relaciones[r]
    BY <1>4, <1>8, <2>1
  <2>3. PICK f \in ReferenciasDe(x, r) : Materializa(x, x.referencias[f])
    BY <1>8, <2>1, <2>2 DEF Integro, RelacionBien, Materializada
  <2>4. f \in DOMAIN x.referencias /\ x.referencias[f].relacion = r
    BY <2>3 DEF ReferenciasDe
  <2>5. f \in DOMAIN g.referencias /\ g.referencias[f] = x.referencias[f]
    BY <1>2, <1>5, <1>8, <2>1, <2>4
  <2>. QED BY <2>1, <2>3, <2>4, <2>5
<1>9. ASSUME NEW n \in DOMAIN g.estructuras
      PROVE  /\ n \in DOMAIN e.estructuras /\ g.estructuras[n] = e.estructuras[n]
             /\ ClasesDe(g.estructuras[n]) \subseteq g.clases
             /\ {g.estructuras[n].relOrigen, g.estructuras[n].relDestino} \subseteq DOMAIN g.relaciones
  <2>1. n \in DOMAIN e.estructuras /\ g.estructuras[n] = e.estructuras[n]
        /\ ClasesDe(e.estructuras[n]) \subseteq l.clases
    BY <1>6
  <2>2. CASE i < 4
    <3>1. l.relaciones = e.relaciones
      BY <1>1, <2>2
    <3>2. {e.estructuras[n].relOrigen, e.estructuras[n].relDestino} \subseteq DOMAIN e.relaciones
      BY <2>1 DEF Integro, EstructuraBien
    <3>. QED BY <1>2, <2>1, <3>1, <3>2
  <2>3. CASE i = 4
    <3>1. l.relaciones = d.relaciones /\ l.clases = d.clases
      BY <1>1, <2>3
    <3>2. e.estructuras[n].intermedia \in d.clases
      BY <2>1, <3>1 DEF ClasesDe
    <3>3. n \in DOMAIN d.estructuras /\ d.estructuras[n] = e.estructuras[n]
      BY <2>1, <3>2 DEF Comparten
    <3>4. {d.estructuras[n].relOrigen, d.estructuras[n].relDestino} \subseteq DOMAIN d.relaciones
      BY <3>3 DEF Integro, EstructuraBien
    <3>. QED BY <1>2, <2>1, <3>1, <3>3, <3>4
  <2>. QED BY <2>2, <2>3
<1>10. \A r \in DOMAIN g.relaciones \cap DOMAIN d.relaciones :
          RequiereMaterializacion(g.relaciones[r]) =>
             \E x \in {d, e} : \E f \in DOMAIN g.referencias \cap DOMAIN x.referencias :
                /\ r \in DOMAIN x.relaciones
                /\ g.referencias[f] = x.referencias[f] /\ x.referencias[f].relacion = r
                /\ Materializa(x, x.referencias[f])
  BY <1>8
<1>11. Leido(g, d, e)
  BY <1>3, <1>4, <1>7, <1>9, <1>10, Zenon DEF Leido
<1>. QED BY <1>11 DEF g, l

\* What was read and validated is whole.
LEMMA EnteraSiValida ==
    ASSUME NEW d, NEW e, Integro(d), Integro(e), Comparten(d, e), NEW g, Leido(g, d, e), Valido(g)
    PROVE  /\ \A r \in DOMAIN g.relaciones \cap DOMAIN d.relaciones :
                 RelacionBien(g, r) /\ AsociacionBien(g, r)
           /\ \A f \in DOMAIN g.referencias : ReferenciaBien(g, f)
           /\ \A n \in DOMAIN g.estructuras : EstructuraBien(g, n)
\* The validator asks for the attributes of each reference.
<1>1. \A f \in DOMAIN g.referencias :
         {g.referencias[f].fk, g.referencias[f].referenciado} \subseteq DOMAIN g.atributos
  BY DEF Leido, Valido, ReferenciasDe
<1>2. \A r \in DOMAIN g.relaciones : Extremos(g.relaciones[r]) \subseteq g.clases
  BY DEF Valido
<1>3. ASSUME NEW f \in DOMAIN g.referencias PROVE ReferenciaBien(g, f)
  <2>1. PICK x \in {d, e} : /\ f \in DOMAIN x.referencias /\ g.referencias[f] = x.referencias[f]
                            /\ x = d \/ f \notin DOMAIN d.referencias
    <3>1. PICK y \in {d, e} : f \in DOMAIN y.referencias /\ g.referencias[f] = y.referencias[f]
      BY DEF Leido
    <3>2. CASE f \in DOMAIN d.referencias
      BY <3>1, <3>2 DEF Comparten
    <3>. QED BY <3>1, <3>2
  <2>. DEFINE ref == g.referencias[f]
  <2>2. /\ ref.relacion \in DOMAIN x.relaciones
        /\ {ref.fk, ref.referenciado} \subseteq DOMAIN x.atributos
        /\ {x.atributos[ref.fk].clase, x.atributos[ref.referenciado].clase}
              \subseteq Extremos(x.relaciones[ref.relacion])
        /\ ~ForaneaPura(x.atributos[ref.referenciado])
    <3>1. ReferenciaBien(x, f)
      BY <2>1 DEF Integro
    <3>. QED BY <2>1, <3>1 DEF ReferenciaBien
  <2>3. ref.relacion \in DOMAIN g.relaciones /\ g.relaciones[ref.relacion] = x.relaciones[ref.relacion]
    BY <2>2 DEF Leido
  <2>4. \A a \in {ref.fk, ref.referenciado} : g.atributos[a] = x.atributos[a]
    <3>1. \A a \in {ref.fk, ref.referenciado} :
             a \in DOMAIN d.atributos /\ g.atributos[a] = d.atributos[a]
      BY <1>1 DEF Leido
    <3>. QED BY <2>1, <2>2, <3>1 DEF Comparten
  <2>. QED BY <1>1, <2>2, <2>3, <2>4 DEF ReferenciaBien
<1>4. ASSUME NEW r \in DOMAIN g.relaciones \cap DOMAIN d.relaciones,
             RequiereMaterializacion(g.relaciones[r])
      PROVE  \E f \in ReferenciasDe(g, r) : Materializa(g, g.referencias[f])
  <2>1. PICK x \in {d, e} : \E f \in DOMAIN g.referencias \cap DOMAIN x.referencias :
           /\ r \in DOMAIN x.relaciones
           /\ g.referencias[f] = x.referencias[f] /\ x.referencias[f].relacion = r
           /\ Materializa(x, x.referencias[f])
    BY <1>4 DEF Leido
  <2>2. PICK f \in DOMAIN g.referencias \cap DOMAIN x.referencias :
           /\ r \in DOMAIN x.relaciones
           /\ g.referencias[f] = x.referencias[f] /\ x.referencias[f].relacion = r
           /\ Materializa(x, x.referencias[f])
    BY <2>1
  <2>. DEFINE ref == g.referencias[f]
  <2>3. {ref.fk, ref.referenciado} \subseteq DOMAIN g.atributos \cap DOMAIN x.atributos
    BY <1>1, <2>2 DEF Materializa
  <2>4. \A a \in {ref.fk, ref.referenciado} : g.atributos[a].clase = x.atributos[a].clase
    <3>1. \A a \in {ref.fk, ref.referenciado} :
             a \in DOMAIN d.atributos /\ g.atributos[a] = d.atributos[a]
      BY <2>3 DEF Leido
    <3>. QED BY <2>3, <3>1 DEF Comparten
  <2>5. g.relaciones[r] = x.relaciones[r]
    BY <2>2 DEF Leido
  <2>6. Materializa(g, ref)
    BY ZenonT(30), <2>2, <2>3, <2>4, <2>5, MismaMateria
  <2>. QED BY <2>2, <2>6 DEF ReferenciasDe
<1>5. ASSUME NEW r \in DOMAIN g.relaciones \cap DOMAIN d.relaciones
      PROVE  RelacionBien(g, r) /\ AsociacionBien(g, r)
  <2>1. RelacionBien(g, r)
    BY <1>2, <1>4 DEF RelacionBien, Materializada
  <2>2. ASSUME Asociada(g.relaciones[r]) PROVE Columnas(g, r) # {}
    <3>1. RequiereMaterializacion(g.relaciones[r])
      BY <2>2 DEF Asociada, RequiereMaterializacion
    <3>2. PICK f \in ReferenciasDe(g, r) : Materializa(g, g.referencias[f])
      BY <1>4, <3>1
    <3>3. f \in DOMAIN g.referencias /\ g.referencias[f].relacion = r
      BY <3>2 DEF ReferenciasDe
    <3>. DEFINE fk == g.referencias[f].fk
                rel == g.relaciones[r]
    <3>4. fk \in DOMAIN g.atributos /\ g.atributos[fk].clase = Portadora(rel)
      BY <2>2, <3>2, <3>3 DEF Materializa, LadoCorrecto, Portadora, Asociada, Extremos
    <3>5. fk \in AtributosDe(g, Portadora(rel))
      BY <3>4 DEF AtributosDe
    <3>. QED BY <3>2, <3>5 DEF Columnas
  <2>. QED BY <2>1, <2>2 DEF AsociacionBien
<1>6. ASSUME NEW n \in DOMAIN g.estructuras PROVE EstructuraBien(g, n)
  <2>. DEFINE nm == g.estructuras[n]
  <2>1. /\ n \in DOMAIN e.estructuras /\ nm = e.estructuras[n]
        /\ ClasesDe(nm) \subseteq g.clases
        /\ {nm.relOrigen, nm.relDestino} \subseteq DOMAIN g.relaciones
    BY DEF Leido
  <2>2. /\ {nm.relOrigen, nm.relDestino} \subseteq DOMAIN e.relaciones
        /\ Extremos(e.relaciones[nm.relOrigen]) = {nm.origen, nm.intermedia}
        /\ Extremos(e.relaciones[nm.relDestino]) = {nm.destino, nm.intermedia}
    <3>1. EstructuraBien(e, n)
      BY <2>1 DEF Integro
    <3>. QED BY <2>1, <3>1 DEF EstructuraBien
  <2>3. /\ g.relaciones[nm.relOrigen] = e.relaciones[nm.relOrigen]
        /\ g.relaciones[nm.relDestino] = e.relaciones[nm.relDestino]
    BY <2>1, <2>2 DEF Leido
  <2>. QED BY <2>1, <2>2, <2>3 DEF EstructuraBien
<1>. QED BY <1>3, <1>5, <1>6

\* Only the creation of a structure adds one, and with a class of its own.
LEMMA EstructurasNuevas ==
    ASSUME CiegasANm = FALSE, Bien(diagrama), Mutacion
    PROVE  \A n \in DOMAIN diagrama'.estructuras \ DOMAIN diagrama.estructuras :
              diagrama'.estructuras[n].intermedia \notin diagrama.clases
<1>0. diagrama \in Diagramas
  BY DEF Bien
<1>1. ASSUME diagrama'.estructuras = diagrama.estructuras
      PROVE  DOMAIN diagrama'.estructuras \ DOMAIN diagrama.estructuras = {}
  BY <1>1
<1>2. ASSUME Abstracto!Quitar
      PROVE  DOMAIN diagrama'.estructuras \ DOMAIN diagrama.estructuras = {}
  BY <1>2 DEF Abstracto!Quitar, Abstracto!Recorta, Abstracto!Extiende
<1>. DEFINE Resto == Trozos(diagrama.estructuras)
<1>3. CASE CrearClase
  <2>1. diagrama'.estructuras = diagrama.estructuras
    BY <1>0, <1>3 DEF CrearClase, Diagramas
  <2>. QED BY <1>1, <2>1
<1>4. ASSUME NEW c, NEW u, CrearAtributo(c, u)
      PROVE  diagrama'.estructuras = diagrama.estructuras
  BY <1>0, <1>4 DEF CrearAtributo, Diagramas
<1>5. ASSUME NEW a, NEW u, ActualizarAtributo(a, u)
      PROVE  diagrama'.estructuras = diagrama.estructuras
  BY <1>0, <1>5 DEF ActualizarAtributo, Diagramas
<1>6. ASSUME NEW a, NEW u, RecrearAtributo(a, u)
      PROVE  diagrama'.estructuras = diagrama.estructuras
  BY <1>0, <1>6 DEF RecrearAtributo, Diagramas
<1>7. ASSUME NEW ref, CrearReferencia(ref)
      PROVE  diagrama'.estructuras = diagrama.estructuras
  BY <1>0, <1>7 DEF CrearReferencia, Diagramas
<1>8. ASSUME NEW rel, CrearRelacion(rel)
      PROVE  diagrama'.estructuras = diagrama.estructuras
  BY <1>0, <1>8 DEF CrearRelacion, CrearRelacionCon, Diagramas
<1>9. ASSUME NEW ro, NEW rd, CrearEstructuraNm(ro, rd)
      PROVE  \A n \in DOMAIN diagrama'.estructuras \ DOMAIN diagrama.estructuras :
                diagrama'.estructuras[n].intermedia \notin diagrama.clases
  <2>. DEFINE m == AlgunoDe(EstructurasLibres)
              nm == [origen |-> diagrama.atributos[ro].clase,
                     destino |-> diagrama.atributos[rd].clase,
                     intermedia |-> FilasDe[m].intermedia,
                     relOrigen |-> FilasDe[m].relOrigen, relDestino |-> FilasDe[m].relDestino]
  <2>1. diagrama'.estructuras = Con(diagrama.estructuras, m, nm) /\ m \in EstructurasLibres
    BY <1>9 DEF CrearEstructuraNm, ConEstructura, IdsNm, PuedeNm, AlgunoDe
  <2>2. FilasDe[m].intermedia \notin diagrama.clases
    BY <2>1 DEF EstructurasLibres
  <2>. HIDE DEF m
  <2>3. /\ DOMAIN diagrama'.estructuras = DOMAIN diagrama.estructuras \cup {m}
        /\ diagrama'.estructuras[m] = nm
    BY <2>1 DEF Con
  <2>. QED BY <2>2, <2>3
<1>10. CASE \/ \E a \in Atributos : EliminarAtributo(a)
            \/ \E r \in Relaciones : EliminarRelacion(r)
            \/ \E c \in Clases : EliminarClase(c)
            \/ \E n \in Estructuras : EliminarEstructuraNm(n)
  BY <1>0, <1>2, <1>10, PasoEliminar
<1>11. CASE \/ \E a \in Atributos : EliminarAtributoApi(a)
            \/ \E f \in Referencias : EliminarReferencia(f)
  BY <1>0, <1>2, <1>11, PasoEliminarApi
<1>. QED BY <1>1, <1>3, <1>4, <1>5, <1>6, <1>7, <1>8, <1>9, <1>10, <1>11 DEF Mutacion

\* One mutation leaves the rows that stay as they were.
LEMMA ComparteElPaso ==
    ASSUME CiegasANm = FALSE, Bien(diagrama), Mutacion
    PROVE  Comparten(diagrama, diagrama')
<1>. DEFINE d == diagrama
            e == diagrama'
<1>0. d \in Diagramas
  BY DEF Bien
<1>1. \A n \in DOMAIN e.estructuras \ DOMAIN d.estructuras :
         e.estructuras[n].intermedia \notin d.clases
  BY EstructurasNuevas
<1>2. Muta
  BY PasoMutacion
<1>3. CASE Abstracto!Agregar
  BY <1>1, <1>3 DEF Abstracto!Agregar, Abstracto!Amplia, Abstracto!Extiende, Comparten
<1>4. CASE Abstracto!Reescribir
  <2>1. PICK a \in DOMAIN d.atributos, u \in BOOLEAN :
           e = [d EXCEPT !.atributos[a] = Manual(@.clase, u)]
    BY <1>4 DEF Abstracto!Reescribir, Abstracto!Manual, Manual
  <2>2. /\ e.relaciones = d.relaciones /\ e.referencias = d.referencias
        /\ e.estructuras = d.estructuras
        /\ e.atributos = [d.atributos EXCEPT ![a] = Manual(@.clase, u)]
    BY <1>0, <2>1 DEF Diagramas
  <2>3. \A b \in DOMAIN d.atributos : e.atributos[b].clase = d.atributos[b].clase
    BY <2>2 DEF Manual
  <2>. QED BY <1>1, <2>2, <2>3 DEF Comparten
<1>5. CASE Abstracto!Quitar
  BY <1>1, <1>5 DEF Abstracto!Quitar, Abstracto!Recorta, Abstracto!Extiende, Comparten
<1>. QED BY <1>2, <1>3, <1>4, <1>5 DEF Muta

\* Whatever mutation is confirmed between two of the queries of the reading,
\* what the validator lets through is whole: its structures have their
\* relations, its references their attributes, and every relation that is
\* not being born the key that materializes it, where the generator looks.
THEOREM GeneracionFiel == ASSUME CiegasANm = FALSE PROVE Spec => GeneracionEntera
<1>1. ASSUME IInv, IInv', [Next]_vars
      PROVE  [~pisado' =>
       \A antes \in {Listado(diagrama)}, ahora \in {Listado(diagrama')} :
         \A g \in {Generable(Lectura(antes, ahora, i)) : i \in 1 .. Len(Consultas) - 1} :
            Valido(g) =>
                /\ \A r \in DOMAIN g.relaciones \cap DOMAIN diagrama.relaciones :
                      RelacionBien(g, r) /\ AsociacionBien(g, r)
                /\ \A f \in DOMAIN g.referencias : ReferenciaBien(g, f)
                /\ \A n \in DOMAIN g.estructuras : EstructuraBien(g, n)]_diagrama
  <2>1. SUFFICES ASSUME Next, ~pisado', NEW i \in 1 .. 4,
                        NEW g, g = Generable(Lectura(Listado(diagrama), Listado(diagrama'), i)),
                        Valido(g)
                 PROVE  /\ \A r \in DOMAIN g.relaciones \cap DOMAIN diagrama.relaciones :
                              RelacionBien(g, r) /\ AsociacionBien(g, r)
                        /\ \A f \in DOMAIN g.referencias : ReferenciaBien(g, f)
                        /\ \A n \in DOMAIN g.estructuras : EstructuraBien(g, n)
    <3>1. Len(Consultas) - 1 = 4
      BY DEF Consultas
    <3>2. [Next]_vars => Next \/ diagrama' = diagrama
      BY DEF vars
    <3>. QED BY <1>1, <3>1, <3>2
  <2>0. Bien(diagrama) /\ Bien(diagrama') /\ Mutacion
    BY <1>1, <2>1 DEF IInv, Next
  <2>2. /\ diagrama \in Diagramas /\ Integro(diagrama)
        /\ diagrama' \in Diagramas /\ Integro(diagrama')
    BY <2>0, SalvoNada DEF Bien
  <2>3. Listado(diagrama) = diagrama /\ Listado(diagrama') = diagrama'
    BY <2>2, ListadoEntero
  <2>4. Comparten(diagrama, diagrama')
    BY <2>0, ComparteElPaso
  <2>5. Leido(g, diagrama, diagrama')
    BY <2>1, <2>2, <2>3, <2>4, LeidoEn
  <2>. QED BY <2>1, <2>2, <2>4, <2>5, EnteraSiValida
<1>. QED BY <1>1, Inductivo, PTL DEF Spec, GeneracionEntera
(***************************************************************************)
(* What the clients are told.                                              *)
(***************************************************************************)
\* Of the rows "m" that a client shows, the ids that changed and those that
\* went are all it takes to have "v".
Dicho(m, v, cambian, caen) ==
    /\ DOMAIN v \ cambian \subseteq DOMAIN m
    /\ DOMAIN m \ caen \subseteq DOMAIN v
    /\ caen \cap DOMAIN v = {}
    /\ \A x \in DOMAIN v \ cambian : v[x] = m[x]

LEMMA Aplicado ==
    ASSUME NEW m, NEW v, v = [x \in DOMAIN v |-> v[x]], NEW cambian, NEW caen,
           Dicho(m, v, cambian, caen)
    PROVE  v = Aplicar(m, v, (cambian \cap DOMAIN v) \ caen, caen)
<1>. DEFINE c == (cambian \cap DOMAIN v) \ caen
            D == (DOMAIN m \cup c) \ caen
<1>1. D = DOMAIN v
  BY DEF Dicho
<1>2. \A x \in DOMAIN v : (IF x \in c THEN v[x] ELSE m[x]) = v[x]
  BY DEF Dicho
<1>3. Aplicar(m, v, c, caen) = [x \in D |-> IF x \in c THEN v[x] ELSE m[x]]
  BY DEF Aplicar
<1>4. Aplicar(m, v, c, caen) = [x \in DOMAIN v |-> v[x]]
  <2>. HIDE DEF c, D
  <2>. QED BY <1>1, <1>2, <1>3
<1>. QED BY <1>4

\* What a client shows, table by table.
LEMMA VistaDe ==
    ASSUME NEW d \in Diagramas
    PROVE  /\ DOMAIN Vista(d) = {"clases", "relaciones", "referencias", "estructuras"}
           /\ Vista(d).relaciones = d.relaciones
           /\ Vista(d).estructuras = d.estructuras
           /\ DOMAIN Vista(d).clases = d.clases
           /\ \A c \in d.clases : Vista(d).clases[c] = [a \in AtributosDe(d, c) |-> d.atributos[a]]
           /\ DOMAIN Vista(d).referencias = DOMAIN d.relaciones
           /\ \A r \in DOMAIN d.relaciones :
                 Vista(d).referencias[r] = [f \in ReferenciasDe(d, r) |-> d.referencias[f]]
           /\ \A t \in DOMAIN Vista(d) : Vista(d)[t] = [x \in DOMAIN Vista(d)[t] |-> Vista(d)[t][x]]
<1>1. /\ d.relaciones = [x \in DOMAIN d.relaciones |-> d.relaciones[x]]
      /\ d.estructuras = [x \in DOMAIN d.estructuras |-> d.estructuras[x]]
  <2>1. d.relaciones \in Tablas(Relaciones, Relacion) /\ d.estructuras \in Tablas(Estructuras, Estructura)
    BY LasTablas
  <2>. QED BY <2>1, TablaDe
<1>. DEFINE v == Vista(d)
            cs == [c \in d.clases |-> [a \in AtributosDe(d, c) |-> d.atributos[a]]]
            rs == [r \in DOMAIN d.relaciones |-> [f \in ReferenciasDe(d, r) |-> d.referencias[f]]]
<1>2. v = [clases |-> cs, relaciones |-> d.relaciones, referencias |-> rs,
           estructuras |-> d.estructuras]
  BY DEF Vista
<1>3. /\ DOMAIN cs = d.clases /\ cs = [c \in DOMAIN cs |-> cs[c]]
      /\ \A c \in d.clases : cs[c] = [a \in AtributosDe(d, c) |-> d.atributos[a]]
  OBVIOUS
<1>4. /\ DOMAIN rs = DOMAIN d.relaciones /\ rs = [r \in DOMAIN rs |-> rs[r]]
      /\ \A r \in DOMAIN d.relaciones :
            rs[r] = [f \in ReferenciasDe(d, r) |-> d.referencias[f]]
  OBVIOUS
<1>. HIDE DEF v, cs, rs
<1>5. /\ DOMAIN v = {"clases", "relaciones", "referencias", "estructuras"}
      /\ v.clases = cs /\ v.relaciones = d.relaciones /\ v.referencias = rs
      /\ v.estructuras = d.estructuras
  BY <1>2
<1>6. \A t \in DOMAIN v : v[t] = [x \in DOMAIN v[t] |-> v[t][x]]
  BY <1>1, <1>3, <1>4, <1>5
<1>. QED BY <1>3, <1>4, <1>5, <1>6 DEF v

\* A step that says what it must of each table, or is one of Atrasos.
LEMMA Difundido ==
    ASSUME diagrama \in Diagramas, diagrama' \in Diagramas, NEW causa, NEW cambian, NEW caen,
           Difunde(causa, cambian, caen),
           \/ <<causa, "clases">> \in Atrasos
           \/ Dicho(Vista(diagrama).clases, Vista(diagrama').clases, cambian.clases, caen.clases),
           \/ <<causa, "relaciones">> \in Atrasos
           \/ Dicho(diagrama.relaciones, diagrama'.relaciones, cambian.relaciones, caen.relaciones),
           \/ <<causa, "referencias">> \in Atrasos
           \/ Dicho(Vista(diagrama).referencias, Vista(diagrama').referencias,
                    cambian.relaciones, caen.relaciones),
           Dicho(diagrama.estructuras, diagrama'.estructuras, cambian.estructuras, caen.estructuras)
    PROVE  alDia' = TRUE
<1>. DEFINE m == Vista(diagrama)
            v == Vista(diagrama')
            Por(t) == IF t = "referencias" THEN "relaciones" ELSE t
            Muestra(t) == Aplicar(m[t], v[t], (cambian[Por(t)] \cap DOMAIN v[t]) \ caen[Por(t)],
                                  caen[Por(t)])
<1>1. alDia' = \A t \in DOMAIN v : v[t] = Muestra(t) \/ <<causa, t>> \in Atrasos
  BY DEF Difunde
<1>2. /\ DOMAIN v = {"clases", "relaciones", "referencias", "estructuras"}
      /\ m.relaciones = diagrama.relaciones /\ v.relaciones = diagrama'.relaciones
      /\ m.estructuras = diagrama.estructuras /\ v.estructuras = diagrama'.estructuras
      /\ \A t \in DOMAIN v : v[t] = [x \in DOMAIN v[t] |-> v[t][x]]
  BY VistaDe
<1>. HIDE DEF m, v
<1>3. ASSUME NEW t \in DOMAIN v, Dicho(m[t], v[t], cambian[Por(t)], caen[Por(t)])
      PROVE  v[t] = Muestra(t)
  BY <1>2, <1>3, Aplicado
<1>4. ASSUME NEW t \in DOMAIN v PROVE v[t] = Muestra(t) \/ <<causa, t>> \in Atrasos
  <2>1. CASE t = "clases"
    <3>1. Por(t) = t
      BY <2>1
    <3>. HIDE DEF Por, Muestra
    <3>. QED BY <1>3, <2>1, <3>1 DEF m, v
  <2>2. CASE t = "relaciones"
    <3>1. Por(t) = t
      BY <2>2
    <3>. HIDE DEF Por, Muestra
    <3>. QED BY <1>2, <1>3, <2>2, <3>1
  <2>3. CASE t = "referencias"
    <3>1. Por(t) = "relaciones"
      BY <2>3
    <3>. HIDE DEF Por, Muestra
    <3>. QED BY <1>3, <2>3, <3>1 DEF m, v
  <2>4. CASE t = "estructuras"
    <3>1. Por(t) = t
      BY <2>4
    <3>. HIDE DEF Por, Muestra
    <3>. QED BY <1>2, <1>3, <2>4, <3>1
  <2>. QED BY <1>2, <2>1, <2>2, <2>3, <2>4
<1>. HIDE DEF Muestra
<1>. QED BY <1>1, <1>4

\* The classes, each with its attributes, and the relations, each with its
\* references.
LEMMA ClasesDichas ==
    ASSUME NEW d \in Diagramas, NEW e \in Diagramas, NEW C, NEW K,
           e.clases \ C \subseteq d.clases, d.clases \ K \subseteq e.clases, K \cap e.clases = {},
           \A c \in e.clases \ C :
              /\ AtributosDe(e, c) = AtributosDe(d, c)
              /\ \A a \in AtributosDe(e, c) : e.atributos[a] = d.atributos[a]
    PROVE  Dicho(Vista(d).clases, Vista(e).clases, C, K)
<1>1. ASSUME NEW c \in e.clases \ C PROVE Vista(e).clases[c] = Vista(d).clases[c]
  <2>1. /\ Vista(e).clases[c] = [a \in AtributosDe(e, c) |-> e.atributos[a]]
        /\ Vista(d).clases[c] = [a \in AtributosDe(d, c) |-> d.atributos[a]]
    BY VistaDe
  <2>. QED BY <2>1
<1>2. DOMAIN Vista(e).clases = e.clases /\ DOMAIN Vista(d).clases = d.clases
  BY VistaDe
<1>. QED BY <1>1, <1>2 DEF Dicho

LEMMA ReferenciasDichas ==
    ASSUME NEW d \in Diagramas, NEW e \in Diagramas, NEW C, NEW K,
           DOMAIN e.relaciones \ C \subseteq DOMAIN d.relaciones,
           DOMAIN d.relaciones \ K \subseteq DOMAIN e.relaciones, K \cap DOMAIN e.relaciones = {},
           \A r \in DOMAIN e.relaciones \ C :
              /\ ReferenciasDe(e, r) = ReferenciasDe(d, r)
              /\ \A f \in ReferenciasDe(e, r) : e.referencias[f] = d.referencias[f]
    PROVE  Dicho(Vista(d).referencias, Vista(e).referencias, C, K)
<1>1. ASSUME NEW r \in DOMAIN e.relaciones \ C
      PROVE  Vista(e).referencias[r] = Vista(d).referencias[r]
  <2>1. /\ Vista(e).referencias[r] = [f \in ReferenciasDe(e, r) |-> e.referencias[f]]
        /\ Vista(d).referencias[r] = [f \in ReferenciasDe(d, r) |-> d.referencias[f]]
    BY VistaDe
  <2>. QED BY <2>1
<1>2. DOMAIN Vista(e).referencias = DOMAIN e.relaciones
      /\ DOMAIN Vista(d).referencias = DOMAIN d.relaciones
  BY VistaDe
<1>. QED BY <1>1, <1>2 DEF Dicho

\* A creation that names the classes of its new attributes, the relations of
\* its new references and the rest of its new rows.
LEMMA AlDiaCrece ==
    ASSUME diagrama \in Diagramas, diagrama' \in Diagramas, Crece(diagrama, diagrama'),
           NEW causa, NEW cambian, Difunde(causa, cambian, Ninguna),
           diagrama'.clases \ diagrama.clases \subseteq cambian.clases,
           \A a \in DOMAIN diagrama'.atributos \ DOMAIN diagrama.atributos :
              diagrama'.atributos[a].clase \in cambian.clases,
           DOMAIN diagrama'.relaciones \ DOMAIN diagrama.relaciones \subseteq cambian.relaciones,
           \A f \in DOMAIN diagrama'.referencias \ DOMAIN diagrama.referencias :
              diagrama'.referencias[f].relacion \in cambian.relaciones,
           DOMAIN diagrama'.estructuras \ DOMAIN diagrama.estructuras \subseteq cambian.estructuras
    PROVE  alDia' = TRUE
<1>. DEFINE d == diagrama
            e == diagrama'
<1>1. Ninguna.clases = {} /\ Ninguna.relaciones = {} /\ Ninguna.estructuras = {}
  BY DEF Ninguna
<1>2. \A c \in e.clases \ cambian.clases :
         /\ AtributosDe(e, c) = AtributosDe(d, c)
         /\ \A a \in AtributosDe(e, c) : e.atributos[a] = d.atributos[a]
  BY DEF AtributosDe, Crece
<1>3. \A r \in DOMAIN e.relaciones \ cambian.relaciones :
         /\ ReferenciasDe(e, r) = ReferenciasDe(d, r)
         /\ \A f \in ReferenciasDe(e, r) : e.referencias[f] = d.referencias[f]
  BY DEF ReferenciasDe, Crece
<1>4. Dicho(d.relaciones, e.relaciones, cambian.relaciones, {})
  BY DEF Dicho, Crece
<1>5. Dicho(d.estructuras, e.estructuras, cambian.estructuras, {})
  BY DEF Dicho, Crece
<1>6. Dicho(Vista(d).clases, Vista(e).clases, cambian.clases, {})
  <2>1. e.clases \ cambian.clases \subseteq d.clases /\ d.clases \ {} \subseteq e.clases
    BY DEF Crece
  <2>. QED BY <1>2, <2>1, ClasesDichas
<1>7. Dicho(Vista(d).referencias, Vista(e).referencias, cambian.relaciones, {})
  <2>1. /\ DOMAIN e.relaciones \ cambian.relaciones \subseteq DOMAIN d.relaciones
        /\ DOMAIN d.relaciones \ {} \subseteq DOMAIN e.relaciones
    BY DEF Crece
  <2>. QED BY <1>3, <2>1, ReferenciasDichas
<1>. QED BY <1>1, <1>4, <1>5, <1>6, <1>7, Difundido

\* A deletion that tells what it took, and the classes it took attributes
\* from, and takes no reference of a relation that stays: but for Atrasos.
LEMMA AlDiaQueda ==
    ASSUME diagrama \in Diagramas, diagrama' \in Restos(diagrama),
           NEW causa, NEW C, DifundeCaidas(causa, C),
           <<causa, "clases">> \in Atrasos \/ ClasesModificadas(diagrama, diagrama') \subseteq C,
           <<causa, "referencias">> \in Atrasos \/ RefsSiguen(diagrama, diagrama')
    PROVE  alDia' = TRUE
<1>. DEFINE d == diagrama
            e == diagrama'
            cambian == [Ninguna EXCEPT !.clases = C]
            caen == Caidas(d, e)
<1>1. cambian.clases = C /\ cambian.relaciones = {} /\ cambian.estructuras = {}
  BY DEF Ninguna
<1>2. /\ caen.clases = d.clases \ e.clases
      /\ caen.relaciones = DOMAIN d.relaciones \ DOMAIN e.relaciones
      /\ caen.estructuras = DOMAIN d.estructuras \ DOMAIN e.estructuras
  BY DEF Caidas
<1>3. Difunde(causa, cambian, caen)
  BY DEF DifundeCaidas
<1>. HIDE DEF cambian, caen
<1>4. /\ e \in Diagramas /\ e.clases \subseteq d.clases
      /\ DOMAIN e.atributos \subseteq DOMAIN d.atributos
      /\ DOMAIN e.relaciones \subseteq DOMAIN d.relaciones
      /\ DOMAIN e.referencias \subseteq DOMAIN d.referencias
      /\ DOMAIN e.estructuras \subseteq DOMAIN d.estructuras
      /\ \A x \in DOMAIN e.atributos : e.atributos[x] = d.atributos[x]
      /\ \A x \in DOMAIN e.relaciones : e.relaciones[x] = d.relaciones[x]
      /\ \A x \in DOMAIN e.referencias : e.referencias[x] = d.referencias[x]
      /\ \A x \in DOMAIN e.estructuras : e.estructuras[x] = d.estructuras[x]
  BY RestoDe
<1>5. Dicho(d.relaciones, e.relaciones, cambian.relaciones, caen.relaciones)
  BY <1>1, <1>2, <1>4 DEF Dicho
<1>6. Dicho(d.estructuras, e.estructuras, cambian.estructuras, caen.estructuras)
  BY <1>1, <1>2, <1>4 DEF Dicho
<1>7. ASSUME ClasesModificadas(d, e) \subseteq C
      PROVE  Dicho(Vista(d).clases, Vista(e).clases, cambian.clases, caen.clases)
  <2>1. \A a \in DOMAIN d.atributos \ DOMAIN e.atributos : d.atributos[a].clase \in C
    BY <1>7 DEF ClasesModificadas
  <2>2. \A c \in e.clases \ C :
           /\ AtributosDe(e, c) = AtributosDe(d, c)
           /\ \A a \in AtributosDe(e, c) : e.atributos[a] = d.atributos[a]
    BY <1>4, <2>1 DEF AtributosDe
  <2>3. /\ e.clases \ C \subseteq d.clases /\ d.clases \ caen.clases \subseteq e.clases
        /\ caen.clases \cap e.clases = {}
    BY <1>2, <1>4
  <2>. QED BY <1>1, <1>4, <2>2, <2>3, ClasesDichas
<1>8. ASSUME RefsSiguen(d, e)
      PROVE  Dicho(Vista(d).referencias, Vista(e).referencias, cambian.relaciones, caen.relaciones)
  <2>1. \A r \in DOMAIN e.relaciones \ {} :
           /\ ReferenciasDe(e, r) = ReferenciasDe(d, r)
           /\ \A f \in ReferenciasDe(e, r) : e.referencias[f] = d.referencias[f]
    BY <1>4, <1>8 DEF RefsSiguen, ReferenciasDe
  <2>2. /\ DOMAIN e.relaciones \ {} \subseteq DOMAIN d.relaciones
        /\ DOMAIN d.relaciones \ caen.relaciones \subseteq DOMAIN e.relaciones
        /\ caen.relaciones \cap DOMAIN e.relaciones = {}
    BY <1>2, <1>4
  <2>. QED BY <1>1, <1>4, <2>1, <2>2, ReferenciasDichas
<1>. QED BY <1>3, <1>4, <1>5, <1>6, <1>7, <1>8, Difundido

\* Each creation names what it creates.
LEMMA AgregarCrece ==
    ASSUME Bien(diagrama), Bien(diagrama'), Abstracto!Agregar
    PROVE  /\ diagrama \in Diagramas /\ diagrama' \in Diagramas
           /\ Crece(diagrama, diagrama')
BY DEF Bien, Abstracto!Agregar, Abstracto!Amplia, Abstracto!Extiende, Crece

LEMMA AlDiaCrearClase ==
    ASSUME Bien(diagrama), CrearClase,
           DifundeClases("clase", diagrama'.clases \ diagrama.clases)
    PROVE  alDia' = TRUE
<1>. DEFINE C == diagrama'.clases \ diagrama.clases
            cambian == [Ninguna EXCEPT !.clases = C]
<1>1. diagrama \in Diagramas /\ diagrama' \in Diagramas /\ Crece(diagrama, diagrama')
  BY PasoCrearClase, AgregarCrece
<1>2. PICK c \in ClasesLibres :
        diagrama' = [diagrama EXCEPT !.clases = @ \cup {c},
                                     !.atributos = Con(@, LlaveDe[c], Llave(c))]
  BY DEF CrearClase, AlgunoDe
<1>3. c \notin diagrama.clases
  BY <1>2 DEF ClasesLibres
<1>4. /\ diagrama'.clases = diagrama.clases \cup {c}
      /\ diagrama'.atributos = Con(diagrama.atributos, LlaveDe[c], Llave(c))
      /\ diagrama'.relaciones = diagrama.relaciones
      /\ diagrama'.referencias = diagrama.referencias
      /\ diagrama'.estructuras = diagrama.estructuras
  BY <1>1, <1>2 DEF Diagramas
<1>5. cambian.clases = C /\ Difunde("clase", cambian, Ninguna)
  BY DEF Ninguna, DifundeClases
<1>6. \A a \in DOMAIN diagrama'.atributos \ DOMAIN diagrama.atributos :
         diagrama'.atributos[a].clase = c
  BY <1>4 DEF Con, Llave
<1>7. c \in C
  BY <1>3, <1>4
<1>. HIDE DEF cambian
<1>. QED BY <1>1, <1>4, <1>5, <1>6, <1>7, AlDiaCrece

LEMMA AlDiaCrearAtributo ==
    ASSUME Bien(diagrama), NEW c \in Clases, NEW u \in BOOLEAN, CrearAtributo(c, u),
           DifundeClases("atributo", {c})
    PROVE  alDia' = TRUE
<1>. DEFINE cambian == [Ninguna EXCEPT !.clases = {c}]
<1>1. diagrama \in Diagramas /\ diagrama' \in Diagramas /\ Crece(diagrama, diagrama')
  BY PasoCrearAtributo, AgregarCrece
<1>2. PICK a : diagrama' = [diagrama EXCEPT !.atributos = Con(@, a, Manual(c, u))]
  BY DEF CrearAtributo
<1>3. /\ diagrama'.clases = diagrama.clases
      /\ diagrama'.atributos = Con(diagrama.atributos, a, Manual(c, u))
      /\ diagrama'.relaciones = diagrama.relaciones
      /\ diagrama'.referencias = diagrama.referencias
      /\ diagrama'.estructuras = diagrama.estructuras
  BY <1>1, <1>2 DEF Diagramas
<1>4. cambian.clases = {c} /\ Difunde("atributo", cambian, Ninguna)
  BY DEF Ninguna, DifundeClases
<1>5. \A b \in DOMAIN diagrama'.atributos \ DOMAIN diagrama.atributos :
         diagrama'.atributos[b].clase = c
  BY <1>3 DEF Con, Manual
<1>. HIDE DEF cambian
<1>. QED BY <1>1, <1>3, <1>4, <1>5, AlDiaCrece

LEMMA AlDiaCrearReferencia ==
    ASSUME Bien(diagrama), NEW ref \in Referencia, CrearReferencia(ref),
           DifundeRelacion("relacion", ref.relacion, {})
    PROVE  alDia' = TRUE
<1>. DEFINE cambian == [Ninguna EXCEPT !.relaciones = {ref.relacion}, !.clases = {}]
<1>1. diagrama \in Diagramas /\ diagrama' \in Diagramas /\ Crece(diagrama, diagrama')
  BY PasoCrearReferencia, AgregarCrece
<1>2. PICK f : diagrama' = [diagrama EXCEPT !.referencias = Con(@, f, ref)]
  BY DEF CrearReferencia
<1>3. /\ diagrama'.clases = diagrama.clases /\ diagrama'.atributos = diagrama.atributos
      /\ diagrama'.relaciones = diagrama.relaciones
      /\ diagrama'.referencias = Con(diagrama.referencias, f, ref)
      /\ diagrama'.estructuras = diagrama.estructuras
  BY <1>1, <1>2 DEF Diagramas
<1>4. cambian.relaciones = {ref.relacion} /\ Difunde("relacion", cambian, Ninguna)
  BY DEF Ninguna, DifundeRelacion
<1>5. \A g \in DOMAIN diagrama'.referencias \ DOMAIN diagrama.referencias :
         diagrama'.referencias[g].relacion = ref.relacion
  BY <1>3 DEF Con
<1>. HIDE DEF cambian
<1>. QED BY <1>1, <1>3, <1>4, <1>5, AlDiaCrece

\* The relation is new, whatever the reference it came with, and the key
\* made for it is of one of its two classes.
LEMMA AlDiaCrearRelacion ==
    ASSUME Bien(diagrama), NEW rel \in RelacionPedida, CrearRelacion(rel),
           NEW C \in {{diagrama'.atributos[a].clase : a \in Nuevas("atributos")}, Extremos(rel)},
           \A r \in Nuevas("relaciones") : DifundeRelacion("relacion", r, C)
    PROVE  alDia' = TRUE
<1>. DEFINE r == AlgunoDe(RelacionesLibres)
            f == AlgunoDe(ReferenciasLibres)
            conRel == [diagrama EXCEPT !.relaciones = Con(@, r, rel)]
            Ref(fk, referenciado) == [relacion |-> r, fk |-> fk, referenciado |-> referenciado]
            ConFk(c, u) == [conRel EXCEPT !.atributos = Con(@, ForaneaDe[f], Foranea(c, u))]
            cambian == [Ninguna EXCEPT !.relaciones = {r}, !.clases = C]
<1>1. diagrama \in Diagramas /\ diagrama' \in Diagramas /\ Crece(diagrama, diagrama')
  BY PasoCrearRelacion, AgregarCrece
<1>2. r \notin DOMAIN diagrama.relaciones
  <2>1. r \in RelacionesLibres
    BY DEF CrearRelacion, CrearRelacionCon, AlgunoDe
  <2>. QED BY <2>1 DEF RelacionesLibres
<1>3. \/ diagrama' = conRel
      \/ \E ref \in DOMAIN diagrama.atributos :
            \/ \E fk \in DOMAIN diagrama.atributos :
                 diagrama' = [conRel EXCEPT !.referencias = Con(@, f, Ref(fk, ref))]
            \/ \E c \in Extremos(rel), u \in BOOLEAN :
                 diagrama' = [ConFk(c, u) EXCEPT
                                !.referencias = Con(@, f, Ref(ForaneaDe[f], ref))]
  BY DEF CrearRelacion, CrearRelacionCon
<1>. HIDE DEF r, f
<1>4. /\ diagrama'.clases = diagrama.clases
      /\ diagrama'.estructuras = diagrama.estructuras
      /\ diagrama'.relaciones = Con(diagrama.relaciones, r, rel)
      /\ \/ diagrama'.atributos = diagrama.atributos
         \/ \E c \in Extremos(rel), u \in BOOLEAN :
               diagrama'.atributos = Con(diagrama.atributos, ForaneaDe[f], Foranea(c, u))
      /\ \/ diagrama'.referencias = diagrama.referencias
         \/ \E fk, ref : diagrama'.referencias = Con(diagrama.referencias, f, Ref(fk, ref))
  <2>. HIDE DEF Ref
  <2>1. CASE diagrama' = conRel
    BY <1>1, <2>1 DEF Diagramas
  <2>2. ASSUME NEW fk, NEW ref,
               diagrama' = [conRel EXCEPT !.referencias = Con(@, f, Ref(fk, ref))]
        PROVE  /\ diagrama'.clases = diagrama.clases
               /\ diagrama'.estructuras = diagrama.estructuras
               /\ diagrama'.relaciones = Con(diagrama.relaciones, r, rel)
               /\ diagrama'.atributos = diagrama.atributos
               /\ diagrama'.referencias = Con(diagrama.referencias, f, Ref(fk, ref))
    BY <1>1, <2>2 DEF Diagramas
  <2>3. ASSUME NEW c \in Extremos(rel), NEW u \in BOOLEAN, NEW ref,
               diagrama' = [ConFk(c, u) EXCEPT !.referencias = Con(@, f, Ref(ForaneaDe[f], ref))]
        PROVE  /\ diagrama'.clases = diagrama.clases
               /\ diagrama'.estructuras = diagrama.estructuras
               /\ diagrama'.relaciones = Con(diagrama.relaciones, r, rel)
               /\ diagrama'.atributos = Con(diagrama.atributos, ForaneaDe[f], Foranea(c, u))
               /\ diagrama'.referencias = Con(diagrama.referencias, f, Ref(ForaneaDe[f], ref))
    BY <1>1, <2>3 DEF Diagramas
  <2>. HIDE DEF conRel, ConFk
  <2>. QED BY <1>3, <2>1, <2>2, <2>3
<1>5. Nuevas("relaciones") = {r}
  BY <1>2, <1>4 DEF Nuevas, Con
<1>6. /\ cambian.relaciones = {r} /\ cambian.clases = C
      /\ Difunde("relacion", cambian, Ninguna)
  BY <1>5 DEF Ninguna, DifundeRelacion
<1>7. \A g \in DOMAIN diagrama'.referencias \ DOMAIN diagrama.referencias :
         diagrama'.referencias[g].relacion = r
  <2>1. ASSUME NEW fk, NEW ref, NEW h,
               h = Con(diagrama.referencias, f, Ref(fk, ref)),
               NEW g \in DOMAIN h \ DOMAIN diagrama.referencias
        PROVE  h[g].relacion = r
    BY <2>1 DEF Con
  <2>. HIDE DEF Ref
  <2>. QED BY <1>4, <2>1
<1>8. \A a \in DOMAIN diagrama'.atributos \ DOMAIN diagrama.atributos :
         diagrama'.atributos[a].clase \in C
  <2>1. CASE C = Extremos(rel)
    <3>1. ASSUME NEW c \in Extremos(rel), NEW u, NEW at,
                 at = Con(diagrama.atributos, ForaneaDe[f], Foranea(c, u)),
                 NEW a \in DOMAIN at \ DOMAIN diagrama.atributos
          PROVE  at[a].clase \in Extremos(rel)
      BY <3>1 DEF Con, Foranea
    <3>. QED BY <1>4, <2>1, <3>1
  <2>2. CASE C = {diagrama'.atributos[a].clase : a \in Nuevas("atributos")}
    BY <2>2 DEF Nuevas
  <2>. QED BY <2>1, <2>2
<1>9. DOMAIN diagrama'.relaciones \ DOMAIN diagrama.relaciones \subseteq {r}
  BY <1>5 DEF Nuevas
<1>. HIDE DEF cambian
<1>. QED BY <1>1, <1>4, <1>6, <1>7, <1>8, <1>9, AlDiaCrece

\* A structure is new with its two relations, their references and the class
\* that holds the keys.
LEMMA AlDiaCrearNm ==
    ASSUME Bien(diagrama), NEW ro, NEW rd, CrearEstructuraNm(ro, rd),
           Difunde("estructura", [clases |-> diagrama'.clases \ diagrama.clases,
                                  relaciones |-> Nuevas("relaciones"),
                                  estructuras |-> Nuevas("estructuras")], Ninguna)
    PROVE  alDia' = TRUE
<1>. DEFINE n == AlgunoDe(EstructurasLibres)
            i == FilasDe[n]
            m == i.intermedia
            fkO == ForaneaDe[i.refOrigen]
            fkD == ForaneaDe[i.refDestino]
            A == Con(Con(diagrama.atributos, LlaveDe[m], Llave(m)), fkO, Foranea(m, FALSE))
            HaciaIntermedia(c) == [origen |-> c, destino |-> m, forma |-> "1N"]
            R == Con(diagrama.relaciones, i.relOrigen,
                     HaciaIntermedia(diagrama.atributos[ro].clase))
            F == Con(diagrama.referencias, i.refOrigen,
                     [relacion |-> i.relOrigen, fk |-> fkO, referenciado |-> ro])
            cambian == [clases |-> diagrama'.clases \ diagrama.clases,
                        relaciones |-> Nuevas("relaciones"),
                        estructuras |-> Nuevas("estructuras")]
<1>1. diagrama \in Diagramas /\ diagrama' \in Diagramas /\ Crece(diagrama, diagrama')
  BY PasoCrearNm, AgregarCrece
<1>2. /\ m \notin diagrama.clases
      /\ {i.relOrigen, i.relDestino} \cap DOMAIN diagrama.relaciones = {}
  <2>1. n \in EstructurasLibres
    BY DEF CrearEstructuraNm, PuedeNm, AlgunoDe
  <2>. HIDE DEF n
  <2>. QED BY <2>1 DEF EstructurasLibres
<1>3. /\ diagrama'.clases = diagrama.clases \cup {m}
      /\ diagrama'.atributos = Con(A, fkD, Foranea(m, FALSE))
      /\ diagrama'.relaciones = Con(R, i.relDestino, HaciaIntermedia(diagrama.atributos[rd].clase))
      /\ diagrama'.referencias = Con(F, i.refDestino, [relacion |-> i.relDestino, fk |-> fkD,
                                                      referenciado |-> rd])
  <2>1. diagrama' = ConEstructura(n, IdsNm(n), ro, rd) /\ n \in EstructurasLibres
    BY DEF CrearEstructuraNm, PuedeNm, AlgunoDe
  <2>. HIDE DEF n
  <2>2. diagrama' = NmNuevo(n, ro, rd)
    BY <2>1, NmNueva
  <2>3. /\ NmNuevo(n, ro, rd).clases = diagrama.clases \cup {m}
        /\ NmNuevo(n, ro, rd).atributos = Con(A, fkD, Foranea(m, FALSE))
    BY DEF NmNuevo
  <2>4. NmNuevo(n, ro, rd).relaciones
          = Con(R, i.relDestino, HaciaIntermedia(diagrama.atributos[rd].clase))
    BY DEF NmNuevo
  <2>5. NmNuevo(n, ro, rd).referencias
          = Con(F, i.refDestino, [relacion |-> i.relDestino, fk |-> fkD, referenciado |-> rd])
    BY DEF NmNuevo
  <2>. QED BY <2>2, <2>3, <2>4, <2>5
<1>. HIDE DEF n, i, m, fkO, fkD, HaciaIntermedia
<1>4. \A a \in DOMAIN diagrama'.atributos \ DOMAIN diagrama.atributos :
         diagrama'.atributos[a].clase = m
  <2>1. \A a \in DOMAIN A \ DOMAIN diagrama.atributos : A[a].clase = m
    BY DEF Con, Llave, Foranea
  <2>. HIDE DEF A
  <2>2. ASSUME NEW a \in DOMAIN diagrama'.atributos \ DOMAIN diagrama.atributos
        PROVE  diagrama'.atributos[a].clase = m
    <3>1. CASE a = fkD
      BY <1>3, <3>1 DEF Con, Foranea
    <3>2. CASE a # fkD
      BY <1>3, <2>1, <2>2, <3>2 DEF Con
    <3>. QED BY <3>1, <3>2
  <2>. QED BY <2>2
<1>5. DOMAIN diagrama'.relaciones = DOMAIN diagrama.relaciones \cup {i.relOrigen, i.relDestino}
  <2>1. DOMAIN R = DOMAIN diagrama.relaciones \cup {i.relOrigen}
    BY DEF Con
  <2>. HIDE DEF R
  <2>2. DOMAIN diagrama'.relaciones = DOMAIN R \cup {i.relDestino}
    BY <1>3 DEF Con
  <2>. QED BY <2>1, <2>2
<1>6. \A f \in DOMAIN diagrama'.referencias \ DOMAIN diagrama.referencias :
         diagrama'.referencias[f].relacion \in {i.relOrigen, i.relDestino}
  BY <1>3 DEF Con
<1>7. /\ cambian.clases = diagrama'.clases \ diagrama.clases
      /\ cambian.relaciones = DOMAIN diagrama'.relaciones \ DOMAIN diagrama.relaciones
      /\ cambian.estructuras = DOMAIN diagrama'.estructuras \ DOMAIN diagrama.estructuras
      /\ Difunde("estructura", cambian, Ninguna)
  BY DEF Nuevas
<1>. HIDE DEF cambian, A, R, F
<1>8. m \in cambian.clases /\ {i.relOrigen, i.relDestino} \subseteq cambian.relaciones
  BY <1>2, <1>3, <1>5, <1>7
<1>. QED BY <1>1, <1>4, <1>6, <1>7, <1>8, AlDiaCrece

\* An attribute rewritten in its class, which is named unless the causa is
\* one of Atrasos.
LEMMA AlDiaReescribir ==
    ASSUME diagrama \in Diagramas, diagrama' \in Diagramas, NEW a \in DOMAIN diagrama.atributos,
           NEW at, at.clase = diagrama.atributos[a].clase,
           diagrama' = [diagrama EXCEPT !.atributos[a] = at],
           NEW causa, NEW C, DifundeClases(causa, C),
           <<causa, "clases">> \in Atrasos \/ diagrama.atributos[a].clase \in C
    PROVE  alDia' = TRUE
<1>. DEFINE d == diagrama
            e == diagrama'
            cambian == [Ninguna EXCEPT !.clases = C]
<1>1. /\ cambian.clases = C /\ cambian.relaciones = {} /\ cambian.estructuras = {}
      /\ Difunde(causa, cambian, Ninguna)
      /\ Ninguna.clases = {} /\ Ninguna.relaciones = {} /\ Ninguna.estructuras = {}
  BY DEF Ninguna, DifundeClases
<1>. HIDE DEF cambian
<1>2. /\ e.clases = d.clases /\ e.relaciones = d.relaciones /\ e.referencias = d.referencias
      /\ e.estructuras = d.estructuras
      /\ e.atributos = [d.atributos EXCEPT ![a] = at]
  BY DEF Diagramas
<1>3. /\ DOMAIN e.atributos = DOMAIN d.atributos /\ e.atributos[a] = at
      /\ \A b \in DOMAIN d.atributos \ {a} : e.atributos[b] = d.atributos[b]
  BY <1>2
<1>. HIDE DEF d, e
<1>4. Dicho(d.relaciones, e.relaciones, {}, {}) /\ Dicho(d.estructuras, e.estructuras, {}, {})
  BY <1>2 DEF Dicho
<1>5. Dicho(Vista(d).referencias, Vista(e).referencias, {}, {})
  <2>1. \A r \in DOMAIN e.relaciones \ {} :
           /\ ReferenciasDe(e, r) = ReferenciasDe(d, r)
           /\ \A f \in ReferenciasDe(e, r) : e.referencias[f] = d.referencias[f]
    BY <1>2 DEF ReferenciasDe
  <2>. QED BY <1>2, <2>1, ReferenciasDichas DEF d, e
<1>6. ASSUME d.atributos[a].clase \in C
      PROVE  Dicho(Vista(d).clases, Vista(e).clases, C, {})
  <2>1. \A c \in e.clases \ C :
           /\ AtributosDe(e, c) = AtributosDe(d, c)
           /\ \A b \in AtributosDe(e, c) : e.atributos[b] = d.atributos[b]
    <3>1. at.clase = d.atributos[a].clase
      BY DEF d
    <3>. QED BY <1>3, <1>6, <3>1 DEF AtributosDe
  <2>2. /\ e.clases \ C \subseteq d.clases /\ d.clases \ {} \subseteq e.clases
        /\ {} \cap e.clases = {}
    BY <1>2
  <2>. QED BY <2>1, <2>2, ClasesDichas DEF d, e
<1>. USE DEF d, e
<1>. QED BY <1>1, <1>4, <1>5, <1>6, Difundido

\* The REST route that deletes a reference: what it does not tell is one of
\* Atrasos, and no structure goes.
LEMMA AlDiaEliminarReferencia ==
    ASSUME CiegasANm = FALSE, Bien(diagrama), NEW f, EliminarReferencia(f), NEW r,
           DifundeRelacion("referencia", r, {})
    PROVE  alDia' = TRUE
<1>. DEFINE cambian == [Ninguna EXCEPT !.relaciones = {r}, !.clases = {}]
<1>1. /\ f \in DOMAIN diagrama.referencias /\ diagrama \in Diagramas /\ IntegroSalvo(diagrama, {})
      /\ diagrama' = CerrarReferenciaCiega(f, diagrama)
      /\ SinNm(diagrama, diagrama.referencias[f].relacion)
  BY VisibleSinNm DEF Bien, EliminarReferencia
<1>2. diagrama' \in Restos(diagrama) /\ diagrama'.estructuras = diagrama.estructuras
  BY <1>1, CerrarReferenciaCiegaBien
<1>3. diagrama' \in Diagramas
  BY <1>1, <1>2, RestoDe
<1>4. /\ cambian.estructuras = {} /\ Ninguna.estructuras = {}
      /\ Difunde("referencia", cambian, Ninguna)
  BY DEF Ninguna, DifundeRelacion
<1>5. Dicho(diagrama.estructuras, diagrama'.estructuras, cambian.estructuras, Ninguna.estructuras)
  BY <1>2, <1>4 DEF Dicho
<1>6. /\ <<"referencia", "clases">> \in Atrasos /\ <<"referencia", "relaciones">> \in Atrasos
      /\ <<"referencia", "referencias">> \in Atrasos
  BY DEF Atrasos
<1>. HIDE DEF cambian
<1>. QED BY <1>1, <1>3, <1>4, <1>5, <1>6, Difundido

\* What a deletion leaves, and the references it does not take.
LEMMA BorradoSigue ==
    ASSUME Bien(diagrama), Borrado
    PROVE  diagrama' \in Restos(diagrama) /\ RefsSiguen(diagrama, diagrama')
<1>1. diagrama \in Diagramas /\ IntegroSalvo(diagrama, {}) /\ RelPropias(diagrama)
  BY DEF Bien
<1>2. ASSUME NEW r, diagrama' = CerrarRelacion(r, diagrama)
      PROVE  diagrama' \in Restos(diagrama) /\ RefsSiguen(diagrama, diagrama')
  BY <1>1, <1>2, CerrarRelacionBien
<1>3. ASSUME NEW c, diagrama' = CerrarClase(c, diagrama)
      PROVE  diagrama' \in Restos(diagrama) /\ RefsSiguen(diagrama, diagrama')
  BY <1>1, <1>3, CerrarClaseBien
<1>4. ASSUME NEW n, diagrama' = CerrarNm(n, diagrama)
      PROVE  diagrama' \in Restos(diagrama) /\ RefsSiguen(diagrama, diagrama')
  <2>1. NmCerrada(diagrama', diagrama, n, {})
    BY <1>1, <1>4, CerrarNmBien
  <2>. QED BY <2>1 DEF NmCerrada
<1>. QED BY <1>2, <1>3, <1>4 DEF Borrado, EliminarRelacion, EliminarClase, EliminarEstructuraNm

LEMMA AlDiaBorrado ==
    ASSUME Bien(diagrama), Borrado,
           DifundeCierre("borrado") \/ DifundeCaidas("borrado ia", {})
    PROVE  alDia' = TRUE
<1>1. /\ diagrama \in Diagramas /\ diagrama' \in Restos(diagrama)
      /\ RefsSiguen(diagrama, diagrama')
  BY BorradoSigue DEF Bien
<1>2. CASE DifundeCierre("borrado")
  <2>. DEFINE C == ClasesModificadas(diagrama, diagrama')
  <2>1. DifundeCaidas("borrado", C) /\ ClasesModificadas(diagrama, diagrama') \subseteq C
    BY <1>2 DEF DifundeCierre
  <2>. HIDE DEF C
  <2>. QED BY <1>1, <2>1, AlDiaQueda
<1>3. CASE DifundeCaidas("borrado ia", {})
  <2>1. <<"borrado ia", "clases">> \in Atrasos
    BY DEF Atrasos
  <2>. QED BY <1>1, <1>3, <2>1, AlDiaQueda
<1>. QED BY <1>2, <1>3

LEMMA AlDiaEliminarAtributo ==
    ASSUME CiegasANm = FALSE, Bien(diagrama), NEW a,
           \/ EliminarAtributoApi(a) /\ DifundeCierre("atributo")
           \/ EliminarAtributo(a) /\ (DifundeCierre("atributo")
                                      \/ DifundeCaidas("atributo ia", ClaseDe(a)))
    PROVE  alDia' = TRUE
<1>1. diagrama \in Diagramas /\ IntegroSalvo(diagrama, {}) /\ RelPropias(diagrama)
  BY DEF Bien
<1>2. diagrama' \in Restos(diagrama)
  <2>1. CASE EliminarAtributo(a)
    <3>1. diagrama' = CerrarAtributo(a, diagrama)
      BY <2>1 DEF EliminarAtributo
    <3>. QED BY <1>1, <3>1, CerrarAtributoBien
  <2>2. CASE EliminarAtributoApi(a)
    <3>1. diagrama' = CerrarAtributoCiego(a, diagrama)
      BY <2>2 DEF EliminarAtributoApi
    <3>2. \A f \in ReferenciasCon(diagrama, a) :
             SinNm(diagrama, diagrama.referencias[f].relacion)
      BY <2>2, VisibleSinNm DEF EliminarAtributoApi
    <3>. QED BY <1>1, <3>1, <3>2, CerrarAtributoCiegoBien
  <2>. QED BY <2>1, <2>2
<1>3. /\ <<"atributo", "referencias">> \in Atrasos /\ <<"atributo ia", "referencias">> \in Atrasos
      /\ <<"atributo ia", "clases">> \in Atrasos
  BY DEF Atrasos
<1>4. CASE DifundeCierre("atributo")
  <2>. DEFINE C == ClasesModificadas(diagrama, diagrama')
  <2>1. DifundeCaidas("atributo", C) /\ ClasesModificadas(diagrama, diagrama') \subseteq C
    BY <1>4 DEF DifundeCierre
  <2>. HIDE DEF C
  <2>. QED BY <1>1, <1>2, <1>3, <2>1, AlDiaQueda
<1>5. CASE DifundeCaidas("atributo ia", ClaseDe(a))
  <2>. DEFINE C == ClaseDe(a)
  <2>1. DifundeCaidas("atributo ia", C)
    BY <1>5
  <2>. HIDE DEF C
  <2>. QED BY <1>1, <1>2, <1>3, <2>1, AlDiaQueda
<1>. QED BY <1>4, <1>5

LEMMA AlDiaActualizar ==
    ASSUME Bien(diagrama), Bien(diagrama'), NEW a, NEW u, ActualizarAtributo(a, u),
           DifundeClases("atributo", ClaseDe(a))
    PROVE  alDia' = TRUE
<1>. DEFINE at == [diagrama.atributos[a] EXCEPT !.unico = (u = TRUE)]
            C == ClaseDe(a)
<1>1. /\ diagrama \in Diagramas /\ diagrama' \in Diagramas /\ a \in DOMAIN diagrama.atributos
      /\ diagrama' = [diagrama EXCEPT !.atributos[a].unico = (u = TRUE)]
  BY DEF Bien, ActualizarAtributo
<1>2. diagrama.atributos[a] \in Atributo
  BY <1>1, FilasBien
<1>3. at.clase = diagrama.atributos[a].clase
  BY <1>2 DEF Atributo
<1>4. diagrama' = [diagrama EXCEPT !.atributos[a] = at]
  BY <1>1 DEF Diagramas
<1>5. diagrama.atributos[a].clase \in C /\ DifundeClases("atributo", C)
  BY DEF ClaseDe
<1>. HIDE DEF at, C
<1>. QED BY <1>1, <1>3, <1>4, <1>5, AlDiaReescribir

LEMMA AlDiaRecrear ==
    ASSUME Bien(diagrama), Bien(diagrama'), NEW a, NEW u, RecrearAtributo(a, u), NEW c,
           DifundeClases("recreado", {c})
    PROVE  alDia' = TRUE
<1>. DEFINE at == Manual(diagrama.atributos[a].clase, u)
<1>1. /\ diagrama \in Diagramas /\ diagrama' \in Diagramas /\ a \in DOMAIN diagrama.atributos
      /\ diagrama' = [diagrama EXCEPT !.atributos[a] = at]
  BY DEF Bien, RecrearAtributo
<1>2. at.clase = diagrama.atributos[a].clase
  BY DEF Manual
<1>3. <<"recreado", "clases">> \in Atrasos
  BY DEF Atrasos
<1>. HIDE DEF at
<1>. QED BY <1>1, <1>2, <1>3, AlDiaReescribir

\* Every step that is told is a step of the operations, and brings the
\* clients up to date.
LEMMA PasoDifundido ==
    ASSUME CiegasANm = FALSE, Bien(diagrama), MutacionDifundida
    PROVE  Bien(diagrama') /\ alDia' = TRUE
<1>1. Mutacion
  BY DEF MutacionDifundida, Mutacion, Borrado
<1>2. Bien(diagrama) /\ Bien(diagrama')
  BY <1>1, PasoMutacion
<1>3. CASE CrearClase /\ DifundeClases("clase", diagrama'.clases \ diagrama.clases)
  BY <1>2, <1>3, AlDiaCrearClase
<1>4. ASSUME NEW c \in Clases, NEW u \in BOOLEAN, CrearAtributo(c, u),
             DifundeClases("atributo", {c})
      PROVE  alDia' = TRUE
  BY <1>2, <1>4, AlDiaCrearAtributo
<1>5. ASSUME NEW a, NEW u, ActualizarAtributo(a, u), DifundeClases("atributo", ClaseDe(a))
      PROVE  alDia' = TRUE
  BY <1>2, <1>5, AlDiaActualizar
<1>6. ASSUME NEW a, NEW u, NEW c, RecrearAtributo(a, u), DifundeClases("recreado", {c})
      PROVE  alDia' = TRUE
  BY <1>2, <1>6, AlDiaRecrear
<1>7. ASSUME NEW a,
             \/ EliminarAtributoApi(a) /\ DifundeCierre("atributo")
             \/ EliminarAtributo(a) /\ (DifundeCierre("atributo")
                                        \/ DifundeCaidas("atributo ia", ClaseDe(a)))
      PROVE  alDia' = TRUE
  BY <1>2, <1>7, AlDiaEliminarAtributo
<1>8. ASSUME NEW ref \in Referencia, CrearReferencia(ref),
             DifundeRelacion("relacion", ref.relacion, {})
      PROVE  alDia' = TRUE
  BY <1>2, <1>8, AlDiaCrearReferencia
<1>9. ASSUME NEW f, EliminarReferencia(f),
             DifundeRelacion("referencia", diagrama.referencias[f].relacion, {})
      PROVE  alDia' = TRUE
  <2>1. ASSUME NEW r, DifundeRelacion("referencia", r, {}) PROVE alDia' = TRUE
    BY <1>2, <1>9, <2>1, AlDiaEliminarReferencia
  <2>. QED BY <1>9, <2>1
<1>10. ASSUME NEW rel \in RelacionPedida, CrearRelacion(rel),
              NEW C \in {{diagrama'.atributos[a].clase : a \in Nuevas("atributos")}, Extremos(rel)},
              \A r \in Nuevas("relaciones") : DifundeRelacion("relacion", r, C)
       PROVE  alDia' = TRUE
  BY <1>2, <1>10, AlDiaCrearRelacion
<1>11. ASSUME NEW ro, NEW rd, CrearEstructuraNm(ro, rd),
              Difunde("estructura", [clases |-> diagrama'.clases \ diagrama.clases,
                                     relaciones |-> Nuevas("relaciones"),
                                     estructuras |-> Nuevas("estructuras")], Ninguna)
       PROVE  alDia' = TRUE
  BY <1>2, <1>11, AlDiaCrearNm
<1>12. CASE Borrado /\ (DifundeCierre("borrado") \/ DifundeCaidas("borrado ia", {}))
  BY <1>2, <1>12, AlDiaBorrado
<1>. QED BY <1>2, <1>3, <1>4, <1>5, <1>6, <1>7, <1>8, <1>9, <1>10, <1>11, <1>12 DEF MutacionDifundida

\* Whatever the mutation and its cascades, the events its route publishes
\* carry all that changed in what the clients show, but for the exceptions of
\* Atrasos.
THEOREM AlDiaSiempre == ASSUME CiegasANm = FALSE PROVE SpecDifundida => []ClientesAlDia
<1>. DEFINE Inv == IInv /\ alDia = TRUE
<1>1. InitDifundido => Inv
  BY VacioBien DEF InitDifundido, Init, IInv, Bien
<1>2. Inv /\ [NextDifundido]_<<diagrama, pisado, alDia>> => Inv'
  <2>1. ASSUME Inv, ~pisado, MutacionDifundida, UNCHANGED pisado PROVE Inv'
    <3>1. Bien(diagrama') /\ alDia' = TRUE
      BY <2>1, PasoDifundido DEF IInv
    <3>. QED BY <2>1, <3>1 DEF IInv, Bien
  <2>2. ASSUME Inv, ~pisado, Pisar, pisado' = TRUE, UNCHANGED alDia PROVE Inv'
    <3>1. diagrama' \in Diagramas
      BY <2>2, PasoPisar DEF IInv
    <3>. QED BY <2>2, <3>1 DEF IInv
  <2>3. ASSUME Inv, UNCHANGED <<diagrama, pisado, alDia>> PROVE Inv'
    BY <2>3 DEF IInv
  <2>. QED BY <2>1, <2>2, <2>3 DEF NextDifundido
<1>3. Inv => ClientesAlDia
  BY DEF ClientesAlDia
<1>. HIDE DEF Inv
<1>. QED BY <1>1, <1>2, <1>3, PTL DEF SpecDifundida

(***************************************************************************)
(* What a deletion takes along is the closure of "cannot stand without".   *)
(***************************************************************************)
\* The rows of a diagram, some of each table.
Bloques(d) ==
    [clases : SUBSET d.clases, atributos : SUBSET DOMAIN d.atributos,
     relaciones : SUBSET DOMAIN d.relaciones, referencias : SUBSET DOMAIN d.referencias,
     estructuras : SUBSET DOMAIN d.estructuras]

Cabe(X, Y) ==
    /\ X.clases \subseteq Y.clases /\ X.atributos \subseteq Y.atributos
    /\ X.relaciones \subseteq Y.relaciones /\ X.referencias \subseteq Y.referencias
    /\ X.estructuras \subseteq Y.estructuras

LEMMA MismoBloque ==
    ASSUME NEW d, NEW X \in Bloques(d), NEW Y \in Bloques(d), Cabe(X, Y), Cabe(Y, X)
    PROVE  X = Y
BY DEF Bloques, Cabe

\* The relations after a round.
LEMMA CaenRelaciones ==
    ASSUME NEW d, NEW X, NEW r
    PROVE  r \in Caen(d, X).relaciones <=>
              \/ r \in X.relaciones
              \/ \E n \in X.estructuras : r \in Relacionadas(d.estructuras[n])
              \/ /\ r \in DOMAIN d.relaciones
                 /\ Extremos(d.relaciones[r]) \cap X.clases # {} \/ SinMateria(d, X, r)
<1>. DEFINE U == UNION {Relacionadas(d.estructuras[n]) : n \in X.estructuras}
            S == {q \in DOMAIN d.relaciones :
                   Extremos(d.relaciones[q]) \cap X.clases # {} \/ SinMateria(d, X, q)}
<1>1. Caen(d, X).relaciones = X.relaciones \cup U \cup S
  BY DEF Caen
<1>2. r \in U <=> \E n \in X.estructuras : r \in Relacionadas(d.estructuras[n])
  BY Zenon
<1>3. r \in S <=> /\ r \in DOMAIN d.relaciones
                  /\ Extremos(d.relaciones[r]) \cap X.clases # {} \/ SinMateria(d, X, r)
  OBVIOUS
<1>. HIDE DEF U, S
<1>. QED BY <1>1, <1>2, <1>3

\* One round adds rows of the diagram, and drops none.
LEMMA CaenCrece ==
    ASSUME NEW d \in Diagramas, IntegroSalvo(d, {}), NEW X \in Bloques(d)
    PROVE  Caen(d, X) \in Bloques(d) /\ Cabe(X, Caen(d, X))
<1>. DEFINE C == Caen(d, X)
<1>1. \A n \in X.estructuras :
        /\ n \in DOMAIN d.estructuras /\ d.estructuras[n].intermedia \in d.clases
        /\ Relacionadas(d.estructuras[n]) \subseteq DOMAIN d.relaciones
  BY DEF IntegroSalvo, EstructuraBien, ClasesDe, Relacionadas, Bloques
<1>2. C.clases \in SUBSET d.clases /\ X.clases \subseteq C.clases
  BY <1>1 DEF Caen, Bloques
<1>3. C.atributos \in SUBSET DOMAIN d.atributos /\ X.atributos \subseteq C.atributos
  BY DEF Caen, Bloques
<1>4. C.relaciones \in SUBSET DOMAIN d.relaciones /\ X.relaciones \subseteq C.relaciones
  <2>1. X.relaciones \subseteq DOMAIN d.relaciones
    BY DEF Bloques
  <2>. HIDE DEF C
  <2>2. \A r : r \in C.relaciones => r \in DOMAIN d.relaciones
    BY <1>1, <2>1, CaenRelaciones DEF C
  <2>3. \A r : r \in X.relaciones => r \in C.relaciones
    BY CaenRelaciones DEF C
  <2>. QED BY <2>2, <2>3
<1>5. C.referencias \in SUBSET DOMAIN d.referencias /\ X.referencias \subseteq C.referencias
  BY DEF Caen, Bloques
<1>6. C.estructuras \in SUBSET DOMAIN d.estructuras /\ X.estructuras \subseteq C.estructuras
  BY DEF Caen, Bloques
<1>7. C = [clases |-> C.clases, atributos |-> C.atributos, relaciones |-> C.relaciones,
           referencias |-> C.referencias, estructuras |-> C.estructuras]
  BY DEF Caen
<1>. HIDE DEF C
<1>8. C \in Bloques(d)
  BY <1>2, <1>3, <1>4, <1>5, <1>6, <1>7 DEF Bloques
<1>9. Cabe(X, C)
  BY <1>2, <1>3, <1>4, <1>5, <1>6 DEF Cabe
<1>. QED BY <1>8, <1>9 DEF C

\* It adds nothing that a closed set around does not have.
LEMMA CaenDentro ==
    ASSUME NEW d, NEW X \in Bloques(d), NEW Z, Cerrado(d, Z), Cabe(X, Z)
    PROVE  Cabe(Caen(d, X), Z)
<1>. DEFINE C == Caen(d, X)
<1>1. /\ X.estructuras \subseteq DOMAIN d.estructuras
      /\ X.clases \subseteq Z.clases /\ X.atributos \subseteq Z.atributos
      /\ X.relaciones \subseteq Z.relaciones /\ X.referencias \subseteq Z.referencias
      /\ X.estructuras \subseteq Z.estructuras
  BY DEF Bloques, Cabe
<1>2. C.clases \subseteq Z.clases
  BY <1>1 DEF Caen, Cerrado
<1>3. C.atributos \subseteq Z.atributos
  <2>1. \A a : SinUso(d, X, a) => SinUso(d, Z, a)
    BY <1>1 DEF SinUso
  <2>2. C.atributos = X.atributos \cup {a \in DOMAIN d.atributos :
                                         d.atributos[a].clase \in X.clases \/ SinUso(d, X, a)}
    BY DEF Caen
  <2>. QED BY <1>1, <2>1, <2>2 DEF Cerrado
<1>4. C.relaciones \subseteq Z.relaciones
  <2>1. \A r : SinMateria(d, X, r) => SinMateria(d, Z, r)
    BY <1>1 DEF SinMateria
  <2>2. \A n \in X.estructuras : Relacionadas(d.estructuras[n]) \subseteq Z.relaciones
    BY <1>1 DEF Cerrado
  <2>3. \A r \in DOMAIN d.relaciones :
          Extremos(d.relaciones[r]) \cap X.clases # {} \/ SinMateria(d, X, r)
            => r \in Z.relaciones
    BY <1>1, <2>1 DEF Cerrado
  <2>4. \A r : r \in C.relaciones => r \in Z.relaciones
    <3>1. TAKE r
    <3>. HIDE DEF C
    <3>2. HAVE r \in C.relaciones
    <3>3. \/ r \in X.relaciones
          \/ \E n \in X.estructuras : r \in Relacionadas(d.estructuras[n])
          \/ /\ r \in DOMAIN d.relaciones
             /\ Extremos(d.relaciones[r]) \cap X.clases # {} \/ SinMateria(d, X, r)
      BY <3>2, CaenRelaciones DEF C
    <3>. QED BY <1>1, <2>2, <2>3, <3>3
  <2>. HIDE DEF C
  <2>. QED BY <2>4
<1>5. C.referencias \subseteq Z.referencias
  BY <1>1 DEF Caen, Cerrado
<1>6. C.estructuras \subseteq Z.estructuras
  BY <1>1 DEF Caen, Cerrado
<1>. QED BY <1>2, <1>3, <1>4, <1>5, <1>6 DEF Cabe

\* A set to which a round adds nothing is closed.
LEMMA FijoCerrado ==
    ASSUME NEW d, NEW X, Caen(d, X) = X
    PROVE  Cerrado(d, X)
<1>1. X.clases = X.clases \cup {d.estructuras[n].intermedia : n \in X.estructuras}
  BY DEF Caen
<1>2. X.atributos = X.atributos \cup {a \in DOMAIN d.atributos :
                                       d.atributos[a].clase \in X.clases \/ SinUso(d, X, a)}
  BY DEF Caen
<1>3. \A r : \/ \E n \in X.estructuras : r \in Relacionadas(d.estructuras[n])
           \/ /\ r \in DOMAIN d.relaciones
              /\ Extremos(d.relaciones[r]) \cap X.clases # {} \/ SinMateria(d, X, r)
           => r \in X.relaciones
  BY CaenRelaciones
<1>4. X.referencias = X.referencias \cup {f \in DOMAIN d.referencias :
        \/ d.referencias[f].relacion \in X.relaciones
        \/ {d.referencias[f].fk, d.referencias[f].referenciado} \cap X.atributos # {}}
  BY DEF Caen
<1>5. X.estructuras = X.estructuras \cup {n \in DOMAIN d.estructuras :
        \/ ClasesDe(d.estructuras[n]) \cap X.clases # {}
        \/ Relacionadas(d.estructuras[n]) \cap X.relaciones # {}}
  BY DEF Caen
<1>6. \A n \in X.estructuras : d.estructuras[n].intermedia \in X.clases
  BY <1>1
<1>7. \A n \in X.estructuras : Relacionadas(d.estructuras[n]) \subseteq X.relaciones
  BY <1>3
<1>8. \A r \in DOMAIN d.relaciones :
        Extremos(d.relaciones[r]) \cap X.clases # {} \/ SinMateria(d, X, r) => r \in X.relaciones
  BY <1>3
<1>. QED BY <1>2, <1>4, <1>5, <1>6, <1>7, <1>8 DEF Cerrado

\* Rows are finitely many: fewer of them is a lesser number, unless they are
\* all the same.
LEMMA CuantasBien ==
    ASSUME NEW d \in Diagramas, NEW X \in Bloques(d), NEW Y \in Bloques(d), Cabe(X, Y)
    PROVE  /\ Cuantas(X) \in Nat /\ Cuantas(Y) \in Nat /\ Cuantas(X) <= Cuantas(Y)
           /\ Cuantas(X) = Cuantas(Y) => X = Y
<1>1. /\ IsFiniteSet(d.clases) /\ IsFiniteSet(DOMAIN d.atributos)
      /\ IsFiniteSet(DOMAIN d.relaciones) /\ IsFiniteSet(DOMAIN d.referencias)
      /\ IsFiniteSet(DOMAIN d.estructuras)
  BY IdsAssumption, FilasBien, FS_Subset
<1>2. /\ IsFiniteSet(Y.clases) /\ IsFiniteSet(Y.atributos) /\ IsFiniteSet(Y.relaciones)
      /\ IsFiniteSet(Y.referencias) /\ IsFiniteSet(Y.estructuras)
  <2>1. /\ Y.clases \in SUBSET d.clases /\ Y.atributos \in SUBSET DOMAIN d.atributos
        /\ Y.relaciones \in SUBSET DOMAIN d.relaciones
        /\ Y.referencias \in SUBSET DOMAIN d.referencias
        /\ Y.estructuras \in SUBSET DOMAIN d.estructuras
    BY DEF Bloques
  <2>. QED BY <1>1, <2>1, FS_Subset
<1>3. ASSUME NEW S, NEW T, IsFiniteSet(T), S \subseteq T
      PROVE  /\ Cardinality(S) \in Nat /\ Cardinality(T) \in Nat
             /\ Cardinality(S) <= Cardinality(T) /\ (Cardinality(S) = Cardinality(T) => S = T)
  BY <1>3, FS_Subset, FS_CardinalityType
<1>4. /\ Cardinality(X.clases) \in Nat /\ Cardinality(Y.clases) \in Nat
      /\ Cardinality(X.clases) <= Cardinality(Y.clases)
      /\ Cardinality(X.clases) = Cardinality(Y.clases) => X.clases = Y.clases
  BY <1>2, <1>3 DEF Cabe
<1>5. /\ Cardinality(X.atributos) \in Nat /\ Cardinality(Y.atributos) \in Nat
      /\ Cardinality(X.atributos) <= Cardinality(Y.atributos)
      /\ Cardinality(X.atributos) = Cardinality(Y.atributos) => X.atributos = Y.atributos
  BY <1>2, <1>3 DEF Cabe
<1>6. /\ Cardinality(X.relaciones) \in Nat /\ Cardinality(Y.relaciones) \in Nat
      /\ Cardinality(X.relaciones) <= Cardinality(Y.relaciones)
      /\ Cardinality(X.relaciones) = Cardinality(Y.relaciones) => X.relaciones = Y.relaciones
  BY <1>2, <1>3 DEF Cabe
<1>7. /\ Cardinality(X.referencias) \in Nat /\ Cardinality(Y.referencias) \in Nat
      /\ Cardinality(X.referencias) <= Cardinality(Y.referencias)
      /\ Cardinality(X.referencias) = Cardinality(Y.referencias) => X.referencias = Y.referencias
  BY <1>2, <1>3 DEF Cabe
<1>8. /\ Cardinality(X.estructuras) \in Nat /\ Cardinality(Y.estructuras) \in Nat
      /\ Cardinality(X.estructuras) <= Cardinality(Y.estructuras)
      /\ Cardinality(X.estructuras) = Cardinality(Y.estructuras) => X.estructuras = Y.estructuras
  BY <1>2, <1>3 DEF Cabe
<1>9. /\ Cuantas(X) \in Nat /\ Cuantas(Y) \in Nat /\ Cuantas(X) <= Cuantas(Y)
  BY <1>4, <1>5, <1>6, <1>7, <1>8 DEF Cuantas
<1>10. ASSUME Cuantas(X) = Cuantas(Y) PROVE X = Y
  <2>1. /\ Cardinality(X.clases) = Cardinality(Y.clases)
        /\ Cardinality(X.atributos) = Cardinality(Y.atributos)
        /\ Cardinality(X.relaciones) = Cardinality(Y.relaciones)
        /\ Cardinality(X.referencias) = Cardinality(Y.referencias)
        /\ Cardinality(X.estructuras) = Cardinality(Y.estructuras)
    BY <1>4, <1>5, <1>6, <1>7, <1>8, <1>10 DEF Cuantas
  <2>2. Cabe(Y, X)
    BY <1>4, <1>5, <1>6, <1>7, <1>8, <2>1 DEF Cabe
  <2>. QED BY <2>2, MismoBloque
<1>. QED BY <1>9, <1>10

(***************************************************************************)
(* Each round that is not the last adds a row, so there is nothing to add  *)
(* after as many rounds as there are rows.                                 *)
(***************************************************************************)
Rondas == INSTANCE Recursion WITH Siguiente <- Caen

\* All the rows.
LEMMA FilasBloque ==
    ASSUME NEW d
    PROVE  Filas(d) \in Bloques(d) /\ \A X \in Bloques(d) : Cabe(X, Filas(d))
BY DEF Filas, Bloques, Cabe

\* After k rounds: the start is in, nothing that a closed set around the
\* start does not have is, and there are k rows or nothing to add.
Ronda(d, X, k, Y) ==
    /\ Y \in Bloques(d) /\ Cabe(X, Y)
    /\ \A Z : Cerrado(d, Z) /\ Cabe(X, Z) => Cabe(Y, Z)
    /\ k <= Cuantas(Y) \/ Caen(d, Y) = Y

LEMMA RondaSigue ==
    ASSUME NEW d \in Diagramas, IntegroSalvo(d, {}), NEW X \in Bloques(d), NEW k \in Nat,
           NEW Y, Ronda(d, X, k, Y)
    PROVE  Ronda(d, X, k + 1, Caen(d, Y))
<1>. DEFINE W == Caen(d, Y)
<1>1. Y \in Bloques(d) /\ Cabe(X, Y)
  BY DEF Ronda
<1>2. W \in Bloques(d) /\ Cabe(Y, W)
  BY <1>1, CaenCrece
<1>3. ASSUME NEW Z, Cerrado(d, Z), Cabe(X, Z) PROVE Cabe(W, Z)
  <2>1. Cabe(Y, Z)
    BY <1>3 DEF Ronda
  <2>. QED BY <1>1, <1>3, <2>1, CaenDentro
<1>4. Cabe(X, W)
  <2>. HIDE DEF W
  <2>. QED BY <1>1, <1>2 DEF Cabe
<1>5. k + 1 <= Cuantas(W) \/ Caen(d, W) = W
  <2>1. CASE W = Y
    BY <2>1
  <2>2. CASE W # Y
    <3>1. k <= Cuantas(Y)
      BY <2>2 DEF Ronda
    <3>2. /\ Cuantas(Y) \in Nat /\ Cuantas(W) \in Nat /\ Cuantas(Y) <= Cuantas(W)
          /\ Cuantas(Y) # Cuantas(W)
      BY <1>1, <1>2, <2>2, CuantasBien
    <3>. HIDE DEF W
    <3>. QED BY <3>1, <3>2
  <2>. QED BY <2>1, <2>2
<1>. HIDE DEF W
<1>6. Ronda(d, X, k + 1, W)
  BY <1>2, <1>3, <1>4, <1>5 DEF Ronda
<1>. QED BY <1>6 DEF W

LEMMA ArrastraBien ==
    ASSUME NEW d \in Diagramas, IntegroSalvo(d, {}), NEW X \in Bloques(d)
    PROVE  /\ Arrastra(d, X) \in Bloques(d) /\ Cabe(X, Arrastra(d, X))
           /\ Cerrado(d, Arrastra(d, X))
           /\ \A Z : Cerrado(d, Z) /\ Cabe(X, Z) => Cabe(Arrastra(d, X), Z)
<1>. DEFINE Cuerpo(c) == [k \in Nat |-> IF k = 0 THEN X ELSE Caen(d, c[k - 1])]
            c == CHOOSE c : c = Cuerpo(c)
            N == Cuantas(Filas(d))
<1>1. PICK g : Rondas!EsSerie(g, Nat, d, X)
  BY Rondas!Existe
<1>2. g = Cuerpo(g)
  BY <1>1 DEF Rondas!EsSerie
<1>3. c = Cuerpo(c)
  <2>. HIDE DEF Cuerpo
  <2>. QED BY <1>2
<1>4. Arrastra(d, X) = c[N]
  BY DEF Arrastra
<1>. HIDE DEF c
<1>5. c[0] = X /\ \A k \in Nat : c[k + 1] = Caen(d, c[k])
  <2>1. c[0] = X
    BY <1>3
  <2>2. ASSUME NEW k \in Nat PROVE c[k + 1] = Caen(d, c[k])
    <3>1. k + 1 \in Nat /\ k + 1 # 0 /\ (k + 1) - 1 = k
      OBVIOUS
    <3>2. c[k + 1] = Caen(d, c[(k + 1) - 1])
      BY <1>3, <3>1
    <3>. QED BY <3>1, <3>2
  <2>. QED BY <2>1, <2>2
<1>. HIDE DEF Cuerpo
<1>. DEFINE M == {k \in Nat : Ronda(d, X, k, c[k])}
<1>6. 0 \in M
  <2>1. Cabe(X, X)
    BY DEF Cabe
  <2>2. Cuantas(X) \in Nat
    BY <2>1, CuantasBien
  <2>3. 0 <= Cuantas(X)
    BY <2>2
  <2>4. Ronda(d, X, 0, X)
    BY <2>1, <2>3 DEF Ronda
  <2>. QED BY <1>5, <2>4
<1>7. ASSUME NEW k \in M PROVE k + 1 \in M
  <2>1. k \in Nat /\ Ronda(d, X, k, c[k])
    OBVIOUS
  <2>2. Ronda(d, X, k + 1, Caen(d, c[k]))
    BY <2>1, RondaSigue
  <2>. QED BY <1>5, <2>1, <2>2
<1>8. M = Nat
  <2>1. M \in SUBSET Nat
    OBVIOUS
  <2>. HIDE DEF M
  <2>. QED BY <1>6, <1>7, <2>1, Rondas!Induccion
<1>9. N \in Nat
  <2>1. Cabe(X, Filas(d)) /\ Filas(d) \in Bloques(d)
    BY FilasBloque
  <2>. QED BY <2>1, CuantasBien
<1>. DEFINE T == c[N]
<1>10. Ronda(d, X, N, T)
  <2>. HIDE DEF N
  <2>. QED BY <1>8, <1>9
<1>. HIDE DEF T, M
<1>11. Caen(d, T) = T
  <2>1. SUFFICES ASSUME N <= Cuantas(T) PROVE Caen(d, T) = T
    BY <1>10 DEF Ronda
  <2>2. T \in Bloques(d)
    BY <1>10 DEF Ronda
  <2>3. Caen(d, T) \in Bloques(d) /\ Cabe(T, Caen(d, T))
    BY <2>2, CaenCrece
  <2>4. Filas(d) \in Bloques(d) /\ Cabe(T, Filas(d)) /\ Cabe(Caen(d, T), Filas(d))
    BY <2>2, <2>3, FilasBloque
  <2>5. /\ Cuantas(T) \in Nat /\ Cuantas(T) <= N
        /\ Cuantas(T) = N => T = Filas(d)
    BY <2>2, <2>4, CuantasBien
  <2>. HIDE DEF N
  <2>6. T = Filas(d)
    BY <1>9, <2>1, <2>5
  <2>. QED BY <2>2, <2>3, <2>4, <2>6, MismoBloque
<1>12. Cerrado(d, T)
  BY <1>11, FijoCerrado
<1>13. /\ T \in Bloques(d) /\ Cabe(X, T)
       /\ \A Z : Cerrado(d, Z) /\ Cabe(X, Z) => Cabe(T, Z)
  BY <1>10 DEF Ronda
<1>14. Arrastra(d, X) = T
  BY <1>4 DEF T
<1>. QED BY <1>12, <1>13, <1>14

\* What d has and e has not.
Perdido(d, e) ==
    [clases |-> d.clases \ e.clases, atributos |-> DOMAIN d.atributos \ DOMAIN e.atributos,
     relaciones |-> DOMAIN d.relaciones \ DOMAIN e.relaciones,
     referencias |-> DOMAIN d.referencias \ DOMAIN e.referencias,
     estructuras |-> DOMAIN d.estructuras \ DOMAIN e.estructuras]

\* With the keys that are left and that nothing uses any more.
PerdidoYSueltas(d, e) ==
    [Perdido(d, e) EXCEPT !.atributos =
        @ \cup {a \in DOMAIN d.atributos : SinUso(d, Perdido(d, e), a)}]

\* A diagram that fits together has lost all that could not stand without
\* what it lost.
LEMMA PerdidoCerrado ==
    ASSUME NEW d \in Diagramas, IntegroSalvo(d, {}),
           NEW e \in Restos(d), IntegroSalvo(e, {}), NmEnteras(d, e)
    PROVE  Cerrado(d, PerdidoYSueltas(d, e))
<1>. DEFINE P == Perdido(d, e)
            Z == PerdidoYSueltas(d, e)
<1>1. /\ Z.clases = d.clases \ e.clases
      /\ Z.atributos = (DOMAIN d.atributos \ DOMAIN e.atributos)
                          \cup {a \in DOMAIN d.atributos : SinUso(d, P, a)}
      /\ Z.relaciones = DOMAIN d.relaciones \ DOMAIN e.relaciones
      /\ Z.referencias = DOMAIN d.referencias \ DOMAIN e.referencias
      /\ Z.estructuras = DOMAIN d.estructuras \ DOMAIN e.estructuras
      /\ P.referencias = DOMAIN d.referencias \ DOMAIN e.referencias
  BY DEF PerdidoYSueltas, Perdido
<1>. HIDE DEF P, Z
<1>2. /\ DOMAIN e.atributos \subseteq DOMAIN d.atributos
      /\ DOMAIN e.relaciones \subseteq DOMAIN d.relaciones
      /\ DOMAIN e.referencias \subseteq DOMAIN d.referencias
      /\ DOMAIN e.estructuras \subseteq DOMAIN d.estructuras
      /\ e.clases \subseteq d.clases
      /\ \A x \in DOMAIN e.atributos : e.atributos[x] = d.atributos[x]
      /\ \A x \in DOMAIN e.relaciones : e.relaciones[x] = d.relaciones[x]
      /\ \A x \in DOMAIN e.referencias : e.referencias[x] = d.referencias[x]
      /\ \A x \in DOMAIN e.estructuras : e.estructuras[x] = d.estructuras[x]
  BY RestoDe
<1>3. \A n \in DOMAIN d.estructuras \cap Z.estructuras :
        /\ d.estructuras[n].intermedia \in Z.clases
        /\ Relacionadas(d.estructuras[n]) \subseteq Z.relaciones
  <2>1. \A n \in DOMAIN d.estructuras :
          /\ d.estructuras[n].intermedia \in d.clases
          /\ Relacionadas(d.estructuras[n]) \subseteq DOMAIN d.relaciones
    BY DEF IntegroSalvo, EstructuraBien, ClasesDe, Relacionadas
  <2>. QED BY <1>1, <2>1 DEF NmEnteras
<1>4. ASSUME NEW a \in DOMAIN d.atributos,
             d.atributos[a].clase \in Z.clases \/ SinUso(d, Z, a)
      PROVE  a \in Z.atributos
  <2>1. CASE SinUso(d, Z, a)
    BY <1>1, <2>1 DEF SinUso
  <2>2. CASE d.atributos[a].clase \in Z.clases
    <3>1. SUFFICES ASSUME a \in DOMAIN e.atributos PROVE FALSE
      BY <1>1
    <3>2. e.atributos[a].clase \in e.clases
      BY <3>1 DEF IntegroSalvo, AtributoBien
    <3>. QED BY <1>1, <1>2, <2>2, <3>1, <3>2
  <2>. QED BY <1>4, <2>1, <2>2
<1>5. ASSUME NEW r \in DOMAIN d.relaciones,
             Extremos(d.relaciones[r]) \cap Z.clases # {} \/ SinMateria(d, Z, r)
      PROVE  r \in Z.relaciones
  <2>1. SUFFICES ASSUME r \in DOMAIN e.relaciones PROVE FALSE
    BY <1>1
  <2>2. /\ Extremos(e.relaciones[r]) \subseteq e.clases /\ Materializada(e, r)
        /\ e.relaciones[r] = d.relaciones[r]
    BY <1>2, <2>1 DEF IntegroSalvo
  <2>3. SinMateria(d, Z, r)
    BY <1>1, <1>5, <2>2
  <2>4. PICK f \in ReferenciasDe(e, r) : Materializa(e, e.referencias[f])
    BY <2>2, <2>3 DEF SinMateria, Materializada
  <2>5. /\ f \in DOMAIN e.referencias /\ e.referencias[f] = d.referencias[f]
        /\ d.referencias[f].relacion = r
    BY <1>2, <2>4 DEF ReferenciasDe
  <2>6. f \in ReferenciasDe(d, r) \ Z.referencias
    BY <1>1, <1>2, <2>5 DEF ReferenciasDe
  <2>7. /\ {d.referencias[f].fk, d.referencias[f].referenciado} \subseteq DOMAIN e.atributos
        /\ Materializa(e, d.referencias[f])
    BY <2>4, <2>5 DEF Materializa
  <2>8. Materializa(d, d.referencias[f])
    BY <1>2, <2>2, <2>5, <2>7, MismaMateria
  <2>. QED BY <2>3, <2>6, <2>8 DEF SinMateria
<1>6. ASSUME NEW f \in DOMAIN d.referencias,
             \/ d.referencias[f].relacion \in Z.relaciones
             \/ {d.referencias[f].fk, d.referencias[f].referenciado} \cap Z.atributos # {}
      PROVE  f \in Z.referencias
  <2>1. SUFFICES ASSUME f \in DOMAIN e.referencias PROVE FALSE
    BY <1>1
  <2>2. /\ e.referencias[f] = d.referencias[f]
        /\ d.referencias[f].relacion \in DOMAIN e.relaciones
        /\ {d.referencias[f].fk, d.referencias[f].referenciado} \subseteq DOMAIN e.atributos
    BY <1>2, <2>1 DEF IntegroSalvo, ReferenciaBien
  <2>3. PICK a \in {d.referencias[f].fk, d.referencias[f].referenciado} : a \in Z.atributos
    BY <1>1, <1>6, <2>2
  <2>4. SinUso(d, P, a)
    BY <1>1, <2>2, <2>3
  <2>5. f \in ReferenciasCon(d, a)
    BY <2>3 DEF ReferenciasCon, Toca
  <2>. QED BY <1>1, <2>1, <2>4, <2>5 DEF SinUso
<1>7. ASSUME NEW n \in DOMAIN d.estructuras,
             \/ ClasesDe(d.estructuras[n]) \cap Z.clases # {}
             \/ Relacionadas(d.estructuras[n]) \cap Z.relaciones # {}
      PROVE  n \in Z.estructuras
  <2>1. SUFFICES ASSUME n \in DOMAIN e.estructuras PROVE FALSE
    BY <1>1
  <2>2. /\ ClasesDe(d.estructuras[n]) \subseteq e.clases
        /\ Relacionadas(d.estructuras[n]) \subseteq DOMAIN e.relaciones
    BY <1>2, <2>1 DEF IntegroSalvo, EstructuraBien, Relacionadas
  <2>. QED BY <1>1, <1>7, <2>2
<1>8. Cerrado(d, Z)
  BY <1>3, <1>4, <1>5, <1>6, <1>7 DEF Cerrado
<1>. QED BY <1>8 DEF Z

\* So a cascade that keeps the diagram whole takes all the closure of where
\* it started, but for keys declared unique; and one that takes nothing
\* outside the closed sets around where it started takes no other row.
LEMMA Cascada ==
    ASSUME Bien(diagrama), NEW e \in Restos(diagrama), IntegroSalvo(e, {}),
           NmEnteras(diagrama, e), NEW tabla \in DOMAIN Nada, NEW x,
           [Nada EXCEPT ![tabla] = {x}] \in Bloques(diagrama),
           Cabe([Nada EXCEPT ![tabla] = {x}], Perdido(diagrama, e)),
           \A Y : Cabe([Nada EXCEPT ![tabla] = {x}], Y) => Toma(diagrama, e, Y)
    PROVE  SinLoDe(e, tabla, x)
<1>. DEFINE X == [Nada EXCEPT ![tabla] = {x}]
            T == Arrastra(diagrama, X)
            Z == PerdidoYSueltas(diagrama, e)
            P == Perdido(diagrama, e)
<1>. HIDE DEF X, T, Z, P
<1>1. /\ diagrama \in Diagramas /\ IntegroSalvo(diagrama, {}) /\ LlaveDeClase(diagrama)
  BY DEF Bien
<1>2. X \in Bloques(diagrama) /\ Cabe(X, P) /\ \A Y : Cabe(X, Y) => Toma(diagrama, e, Y)
  BY DEF X, P
<1>3. /\ T \in Bloques(diagrama) /\ Cabe(X, T) /\ Cerrado(diagrama, T)
      /\ \A Y : Cerrado(diagrama, Y) /\ Cabe(X, Y) => Cabe(T, Y)
  BY <1>1, <1>2, ArrastraBien DEF T
<1>4. Dentro(diagrama, e, T)
  BY <1>2, <1>3 DEF Toma
<1>5. /\ Z.clases = P.clases /\ Z.relaciones = P.relaciones /\ Z.referencias = P.referencias
      /\ Z.estructuras = P.estructuras
      /\ Z.atributos = P.atributos
            \cup {a \in DOMAIN diagrama.atributos : SinUso(diagrama, P, a)}
      /\ P.clases = diagrama.clases \ e.clases
      /\ P.atributos = DOMAIN diagrama.atributos \ DOMAIN e.atributos
      /\ P.relaciones = DOMAIN diagrama.relaciones \ DOMAIN e.relaciones
      /\ P.referencias = DOMAIN diagrama.referencias \ DOMAIN e.referencias
      /\ P.estructuras = DOMAIN diagrama.estructuras \ DOMAIN e.estructuras
  BY DEF PerdidoYSueltas, Perdido, Z, P
<1>6. Cabe(T, Z)
  <2>1. Cerrado(diagrama, Z)
    BY <1>1, PerdidoCerrado DEF Z
  <2>2. Cabe(X, Z)
    BY <1>2, <1>5 DEF Cabe
  <2>. QED BY <1>3, <2>1, <2>2
<1>7. /\ e.clases \subseteq diagrama.clases
      /\ DOMAIN e.atributos \subseteq DOMAIN diagrama.atributos
      /\ DOMAIN e.relaciones \subseteq DOMAIN diagrama.relaciones
      /\ DOMAIN e.referencias \subseteq DOMAIN diagrama.referencias
      /\ DOMAIN e.estructuras \subseteq DOMAIN diagrama.estructuras
      /\ \A a \in DOMAIN e.atributos : e.atributos[a] = diagrama.atributos[a]
      /\ \A f \in DOMAIN e.referencias : e.referencias[f] = diagrama.referencias[f]
  BY <1>1, RestoDe
<1>8. /\ e.clases = diagrama.clases \ T.clases
      /\ DOMAIN e.relaciones = DOMAIN diagrama.relaciones \ T.relaciones
      /\ DOMAIN e.referencias = DOMAIN diagrama.referencias \ T.referencias
      /\ DOMAIN e.estructuras = DOMAIN diagrama.estructuras \ T.estructuras
  BY <1>4, <1>5, <1>6, <1>7 DEF Dentro, Cabe
<1>9. DOMAIN diagrama.atributos \ T.atributos \subseteq DOMAIN e.atributos
  BY <1>4 DEF Dentro
<1>10. ASSUME NEW a \in DOMAIN e.atributos \cap T.atributos
       PROVE  diagrama.atributos[a].unico
  <2>1. SinUso(diagrama, P, a)
    BY <1>5, <1>6 DEF Cabe
  <2>2. /\ diagrama.atributos[a].procedencia = "sistema_fk"
        /\ \A f \in ReferenciasCon(diagrama, a) : f \notin DOMAIN e.referencias
    BY <1>5, <2>1 DEF SinUso
  <2>3. ~ForaneaPura(diagrama.atributos[a])
    <3>1. SUFFICES ASSUME ForaneaPura(e.atributos[a]) PROVE FALSE
      BY <1>7
    <3>2. PICK f \in DOMAIN e.referencias : e.referencias[f].fk = a
      BY <3>1 DEF IntegroSalvo, ForaneaBien
    <3>3. f \in ReferenciasCon(diagrama, a)
      BY <1>7, <3>2 DEF ReferenciasCon, Toca
    <3>. QED BY <2>2, <3>2, <3>3
  <2>4. ~diagrama.atributos[a].llave
    BY <1>1, <1>7, <2>2 DEF LlaveDeClase
  <2>. QED BY <2>2, <2>3, <2>4 DEF ForaneaPura, Referenciable
<1>11. T = Arrastra(diagrama, [Nada EXCEPT ![tabla] = {x}])
  BY DEF T, X
<1>12. \A t \in DOMAIN Nada \ {"atributos"} :
          Filas(e)[t] = Filas(diagrama)[t] \ T[t]
  BY <1>8 DEF Filas, Nada
<1>13. /\ Filas(e).atributos = DOMAIN e.atributos
       /\ Filas(diagrama).atributos = DOMAIN diagrama.atributos
  BY DEF Filas
<1>. QED BY <1>9, <1>10, <1>11, <1>12, <1>13, Zenon DEF SinLoDe

\* Where a cascade starts, table by table.
LEMMA Partida ==
    ASSUME NEW d, NEW e, NEW x
    PROVE  /\ x \in d.clases \ e.clases =>
                 /\ [Nada EXCEPT !["clases"] = {x}] \in Bloques(d)
                 /\ Cabe([Nada EXCEPT !["clases"] = {x}], Perdido(d, e))
           /\ x \in DOMAIN d.atributos \ DOMAIN e.atributos =>
                 /\ [Nada EXCEPT !["atributos"] = {x}] \in Bloques(d)
                 /\ Cabe([Nada EXCEPT !["atributos"] = {x}], Perdido(d, e))
           /\ x \in DOMAIN d.relaciones \ DOMAIN e.relaciones =>
                 /\ [Nada EXCEPT !["relaciones"] = {x}] \in Bloques(d)
                 /\ Cabe([Nada EXCEPT !["relaciones"] = {x}], Perdido(d, e))
           /\ x \in DOMAIN d.referencias \ DOMAIN e.referencias =>
                 /\ [Nada EXCEPT !["referencias"] = {x}] \in Bloques(d)
                 /\ Cabe([Nada EXCEPT !["referencias"] = {x}], Perdido(d, e))
           /\ x \in DOMAIN d.estructuras \ DOMAIN e.estructuras =>
                 /\ [Nada EXCEPT !["estructuras"] = {x}] \in Bloques(d)
                 /\ Cabe([Nada EXCEPT !["estructuras"] = {x}], Perdido(d, e))
<1>1. ASSUME x \in d.clases \ e.clases
      PROVE  /\ [Nada EXCEPT !["clases"] = {x}] \in Bloques(d)
             /\ Cabe([Nada EXCEPT !["clases"] = {x}], Perdido(d, e))
  BY <1>1 DEF Nada, Bloques, Cabe, Perdido
<1>2. ASSUME x \in DOMAIN d.atributos \ DOMAIN e.atributos
      PROVE  /\ [Nada EXCEPT !["atributos"] = {x}] \in Bloques(d)
             /\ Cabe([Nada EXCEPT !["atributos"] = {x}], Perdido(d, e))
  BY <1>2 DEF Nada, Bloques, Cabe, Perdido
<1>3. ASSUME x \in DOMAIN d.relaciones \ DOMAIN e.relaciones
      PROVE  /\ [Nada EXCEPT !["relaciones"] = {x}] \in Bloques(d)
             /\ Cabe([Nada EXCEPT !["relaciones"] = {x}], Perdido(d, e))
  BY <1>3 DEF Nada, Bloques, Cabe, Perdido
<1>4. ASSUME x \in DOMAIN d.referencias \ DOMAIN e.referencias
      PROVE  /\ [Nada EXCEPT !["referencias"] = {x}] \in Bloques(d)
             /\ Cabe([Nada EXCEPT !["referencias"] = {x}], Perdido(d, e))
  BY <1>4 DEF Nada, Bloques, Cabe, Perdido
<1>5. ASSUME x \in DOMAIN d.estructuras \ DOMAIN e.estructuras
      PROVE  /\ [Nada EXCEPT !["estructuras"] = {x}] \in Bloques(d)
             /\ Cabe([Nada EXCEPT !["estructuras"] = {x}], Perdido(d, e))
  BY <1>5 DEF Nada, Bloques, Cabe, Perdido
<1>. QED BY <1>1, <1>2, <1>3, <1>4, <1>5

\* A set with that much has the row.
LEMMA Incluye ==
    ASSUME NEW x, NEW Y
    PROVE  /\ Cabe([Nada EXCEPT !["clases"] = {x}], Y) => x \in Y.clases
           /\ Cabe([Nada EXCEPT !["atributos"] = {x}], Y) => x \in Y.atributos
           /\ Cabe([Nada EXCEPT !["relaciones"] = {x}], Y) => x \in Y.relaciones
           /\ Cabe([Nada EXCEPT !["referencias"] = {x}], Y) => x \in Y.referencias
           /\ Cabe([Nada EXCEPT !["estructuras"] = {x}], Y) => x \in Y.estructuras
BY DEF Cabe, Nada

\* Each deletion, from a diagram of the invariant, is the closure.
LEMMA BienExacta == ASSUME Bien(diagrama) PROVE CascadaExacta
<1>1. diagrama \in Diagramas /\ IntegroSalvo(diagrama, {}) /\ RelPropias(diagrama)
  BY DEF Bien
<1>2. /\ "clases" \in DOMAIN Nada /\ "atributos" \in DOMAIN Nada /\ "relaciones" \in DOMAIN Nada
      /\ "referencias" \in DOMAIN Nada /\ "estructuras" \in DOMAIN Nada
  BY DEF Nada
<1>3. ASSUME NEW c \in diagrama.clases
      PROVE  SinLoDe(CerrarClase(c, diagrama), "clases", c)
  <2>. DEFINE e == CerrarClase(c, diagrama)
  <2>1. /\ e \in Restos(diagrama) /\ IntegroSalvo(e, {}) /\ NmEnteras(diagrama, e)
        /\ c \notin e.clases /\ \A Y : c \in Y.clases => Toma(diagrama, e, Y)
    BY <1>1, CerrarClaseBien
  <2>. HIDE DEF e
  <2>2. /\ [Nada EXCEPT !["clases"] = {c}] \in Bloques(diagrama)
        /\ Cabe([Nada EXCEPT !["clases"] = {c}], Perdido(diagrama, e))
    BY <2>1, Partida
  <2>3. \A Y : Cabe([Nada EXCEPT !["clases"] = {c}], Y) => Toma(diagrama, e, Y)
    BY <2>1, Incluye
  <2>4. SinLoDe(e, "clases", c)
    BY <1>2, <2>1, <2>2, <2>3, Cascada
  <2>. QED BY <2>4 DEF e
<1>4. ASSUME NEW a \in DOMAIN diagrama.atributos
      PROVE  SinLoDe(CerrarAtributo(a, diagrama), "atributos", a)
  <2>. DEFINE e == CerrarAtributo(a, diagrama)
  <2>1. /\ e \in Restos(diagrama) /\ IntegroSalvo(e, {}) /\ NmEnteras(diagrama, e)
        /\ a \notin DOMAIN e.atributos /\ \A Y : a \in Y.atributos => Toma(diagrama, e, Y)
    BY <1>1, CerrarAtributoBien
  <2>. HIDE DEF e
  <2>2. /\ [Nada EXCEPT !["atributos"] = {a}] \in Bloques(diagrama)
        /\ Cabe([Nada EXCEPT !["atributos"] = {a}], Perdido(diagrama, e))
    BY <2>1, Partida
  <2>3. \A Y : Cabe([Nada EXCEPT !["atributos"] = {a}], Y) => Toma(diagrama, e, Y)
    BY <2>1, Incluye
  <2>4. SinLoDe(e, "atributos", a)
    BY <1>2, <2>1, <2>2, <2>3, Cascada
  <2>. QED BY <2>4 DEF e
<1>5. ASSUME NEW r \in DOMAIN diagrama.relaciones
      PROVE  SinLoDe(CerrarRelacion(r, diagrama), "relaciones", r)
  <2>. DEFINE e == CerrarRelacion(r, diagrama)
  <2>1. /\ e \in Restos(diagrama) /\ IntegroSalvo(e, {}) /\ NmEnteras(diagrama, e)
        /\ r \notin DOMAIN e.relaciones /\ \A Y : r \in Y.relaciones => Toma(diagrama, e, Y)
    BY <1>1, CerrarRelacionBien
  <2>. HIDE DEF e
  <2>2. /\ [Nada EXCEPT !["relaciones"] = {r}] \in Bloques(diagrama)
        /\ Cabe([Nada EXCEPT !["relaciones"] = {r}], Perdido(diagrama, e))
    BY <2>1, Partida
  <2>3. \A Y : Cabe([Nada EXCEPT !["relaciones"] = {r}], Y) => Toma(diagrama, e, Y)
    BY <2>1, Incluye
  <2>4. SinLoDe(e, "relaciones", r)
    BY <1>2, <2>1, <2>2, <2>3, Cascada
  <2>. QED BY <2>4 DEF e
<1>6. ASSUME NEW f \in DOMAIN diagrama.referencias
      PROVE  SinLoDe(CerrarReferencia(f, diagrama), "referencias", f)
  <2>. DEFINE e == CerrarReferencia(f, diagrama)
  <2>1. /\ e \in Restos(diagrama) /\ IntegroSalvo(e, {}) /\ NmEnteras(diagrama, e)
        /\ f \notin DOMAIN e.referencias /\ \A Y : f \in Y.referencias => Toma(diagrama, e, Y)
    BY <1>1, CerrarReferenciaBien
  <2>. HIDE DEF e
  <2>2. /\ [Nada EXCEPT !["referencias"] = {f}] \in Bloques(diagrama)
        /\ Cabe([Nada EXCEPT !["referencias"] = {f}], Perdido(diagrama, e))
    BY <2>1, Partida
  <2>3. \A Y : Cabe([Nada EXCEPT !["referencias"] = {f}], Y) => Toma(diagrama, e, Y)
    BY <2>1, Incluye
  <2>4. SinLoDe(e, "referencias", f)
    BY <1>2, <2>1, <2>2, <2>3, Cascada
  <2>. QED BY <2>4 DEF e
<1>7. ASSUME NEW n \in DOMAIN diagrama.estructuras
      PROVE  SinLoDe(CerrarNm(n, diagrama), "estructuras", n)
  <2>. DEFINE e == CerrarNm(n, diagrama)
  <2>1. /\ e \in Restos(diagrama) /\ IntegroSalvo(e, {}) /\ NmEnteras(diagrama, e)
        /\ n \notin DOMAIN e.estructuras /\ \A Y : n \in Y.estructuras => Toma(diagrama, e, Y)
    BY <1>1, CerrarNmBien DEF NmCerrada
  <2>. HIDE DEF e
  <2>2. /\ [Nada EXCEPT !["estructuras"] = {n}] \in Bloques(diagrama)
        /\ Cabe([Nada EXCEPT !["estructuras"] = {n}], Perdido(diagrama, e))
    BY <2>1, Partida
  <2>3. \A Y : Cabe([Nada EXCEPT !["estructuras"] = {n}], Y) => Toma(diagrama, e, Y)
    BY <2>1, Incluye
  <2>4. SinLoDe(e, "estructuras", n)
    BY <1>2, <2>1, <2>2, <2>3, Cascada
  <2>. QED BY <2>4 DEF e
<1>8. ASSUME NEW f \in DOMAIN diagrama.referencias, DeNingunaNm(f)
      PROVE  SinLoDe(CerrarReferenciaCiega(f, diagrama), "referencias", f)
  <2>. DEFINE e == CerrarReferenciaCiega(f, diagrama)
  <2>1. SinNm(diagrama, diagrama.referencias[f].relacion)
    BY <1>1, <1>8, Listadas DEF DeNingunaNm
  <2>2. /\ e \in Restos(diagrama) /\ IntegroSalvo(e, {}) /\ NmEnteras(diagrama, e)
        /\ f \notin DOMAIN e.referencias /\ \A Y : f \in Y.referencias => Toma(diagrama, e, Y)
    BY <1>1, <2>1, CerrarReferenciaCiegaBien
  <2>. HIDE DEF e
  <2>3. /\ [Nada EXCEPT !["referencias"] = {f}] \in Bloques(diagrama)
        /\ Cabe([Nada EXCEPT !["referencias"] = {f}], Perdido(diagrama, e))
    BY <2>2, Partida
  <2>4. \A Y : Cabe([Nada EXCEPT !["referencias"] = {f}], Y) => Toma(diagrama, e, Y)
    BY <2>2, Incluye
  <2>5. SinLoDe(e, "referencias", f)
    BY <1>2, <2>2, <2>3, <2>4, Cascada
  <2>. QED BY <2>5 DEF e
<1>9. ASSUME NEW a \in DOMAIN diagrama.atributos,
             \A f \in ReferenciasCon(diagrama, a) : DeNingunaNm(f)
      PROVE  SinLoDe(CerrarAtributoCiego(a, diagrama), "atributos", a)
  <2>. DEFINE e == CerrarAtributoCiego(a, diagrama)
  <2>1. \A f \in ReferenciasCon(diagrama, a) : SinNm(diagrama, diagrama.referencias[f].relacion)
    BY <1>1, <1>9, Listadas DEF DeNingunaNm
  <2>2. /\ e \in Restos(diagrama) /\ IntegroSalvo(e, {}) /\ NmEnteras(diagrama, e)
        /\ a \notin DOMAIN e.atributos /\ \A Y : a \in Y.atributos => Toma(diagrama, e, Y)
    BY <1>1, <2>1, CerrarAtributoCiegoBien
  <2>. HIDE DEF e
  <2>3. /\ [Nada EXCEPT !["atributos"] = {a}] \in Bloques(diagrama)
        /\ Cabe([Nada EXCEPT !["atributos"] = {a}], Perdido(diagrama, e))
    BY <2>2, Partida
  <2>4. \A Y : Cabe([Nada EXCEPT !["atributos"] = {a}], Y) => Toma(diagrama, e, Y)
    BY <2>2, Incluye
  <2>5. SinLoDe(e, "atributos", a)
    BY <1>2, <2>2, <2>3, <2>4, Cascada
  <2>. QED BY <2>5 DEF e
<1>10. CascadaExacta
  BY <1>3, <1>4, <1>5, <1>6, <1>7, <1>8, <1>9 DEF CascadaExacta
<1>. QED BY <1>10

\* In every diagram that the operations can make, a deletion takes along
\* what depended on the deleted row and nothing else: the cascades of
\* cascadas_diagrama.py, which call one another and visit the rows in
\* whatever order, compute the closure of "cannot stand without", a key
\* declared unique excepted, which they may leave behind.
THEOREM Exacta == ASSUME CiegasANm = FALSE PROVE Spec => []CascadaExacta
<1>1. IInv => CascadaExacta
  <2>1. CASE ~pisado
    BY <2>1, BienExacta DEF IInv
  <2>2. CASE pisado
    BY <2>2 DEF CascadaExacta
  <2>. QED BY <2>1, <2>2
<1>. QED BY <1>1, Inductivo, PTL
================================================================================
