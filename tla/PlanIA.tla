--------------------------------- MODULE PlanIA ---------------------------------
(***************************************************************************)
(* From the actions a model proposes to the diagram they leave: the        *)
(* planner checks them, drops the attributes that keys will stand for and  *)
(* sorts them; the executor resolves the names they use and calls a use    *)
(* case for each, which is a transaction of its own.                       *)
(* Source: planificador_acciones_ia.py, resolvedor_referencias_ia.py and   *)
(* ejecutor_plan_ia.py.                                                    *)
(*                                                                         *)
(* A name stands for its spellings that compare equal, and a class is      *)
(* referred to by its name.  Names of attributes are told apart by the     *)
(* role the planner reads in them.  Positions, connectors and types of     *)
(* data are left out, but for whether a type suits a foreign key.          *)
(***************************************************************************)
EXTENDS Naturals, FiniteSets, SequencesExt

Ausente == ""     \* None

(***************************************************************************)
(* Names of attributes: "id", "dato", "id_producto", "producto_id" and     *)
(* "id_producto_padre".                                                    *)
(***************************************************************************)
Id == <<"id">>
Dato == <<"dato">>
IdDe(c) == <<"id", c>>
DeId(c) == <<c, "id">>
Padre(c) == <<"id", c, "padre">>

EsIdentificadorPk(a, c) == a \in {Id, IdDe(c), DeId(c)}
CoincideNombreFk(a, ref, recursiva) ==
    a \in {IdDe(ref), DeId(ref)} \/ (recursiva /\ a = Padre(ref))

(***************************************************************************)
(* Actions.  A relation is 1:N towards its destination, N:1, 1:1, N:N, a   *)
(* hierarchy, whose cardinalities are left at 1, or a composition, which   *)
(* is 1:N.                                                                 *)
(***************************************************************************)
CreaClase(c) == [tipo |-> "clase", nombre |-> c]
CreaAtributo(c, a) == [tipo |-> "atributo", clase |-> c, nombre |-> a]
CreaRelacion(o, d, forma) ==
    [tipo |-> "relacion", origen |-> o, destino |-> d, forma |-> forma,
     claseFk |-> Ausente, nombreFk |-> <<>>]
CreaNm(o, d, i) == [tipo |-> "nm", origen |-> o, destino |-> d, intermedia |-> i]
Renombra(c, nuevo) == [tipo |-> "renombra", clase |-> c, nuevo |-> nuevo]
BorraClase(c) == [tipo |-> "borra", clase |-> c]
\* The change of a field other than the name gives the name anew.
CambiaAtributo(c, a, nuevo) ==
    [tipo |-> "cambia atributo", clase |-> c, nombre |-> a, nuevo |-> nuevo]
BorraAtributo(c, a) == [tipo |-> "borra atributo", clase |-> c, nombre |-> a]
NombraRelacion(o, d) == [tipo |-> "nombra relacion", origen |-> o, destino |-> d]
BorraRelacion(o, d) == [tipo |-> "borra relacion", origen |-> o, destino |-> d]
BorraNm(o, d) == [tipo |-> "borra nm", origen |-> o, destino |-> d]

HaciaDestino == {"1N", "compuesta"}

DeTipo(acciones, tipo) == SelectSeq(acciones, LAMBDA x : x.tipo = tipo)
Creaciones == {"clase", "atributo", "nm", "relacion"}
Elementos(s) == {s[i] : i \in DOMAIN s}
Primero(s, P(_)) == s[CHOOSE i \in DOMAIN s : P(s[i]) /\ \A j \in 1..(i - 1) : ~P(s[j])]

(***************************************************************************)
(* The planner.                                                            *)
(***************************************************************************)
\* "intermedia" is what the last structure is also called.
Generico == "intermedia"
Estructuras(acciones) == Elementos(DeTipo(acciones, "nm"))
AliasBase(acciones, existentes) ==
    existentes \cup {x.nombre : x \in Elementos(DeTipo(acciones, "clase"))}
AliasIntermedias(acciones) ==
    IF Estructuras(acciones) = {} THEN {}
    ELSE {Generico} \cup {x.intermedia : x \in Estructuras(acciones)}

\* Every class an action refers to exists or is created by some action.
Menciones(x) ==
    IF x.tipo = "clase" THEN {}
    ELSE IF "origen" \in DOMAIN x THEN {x.origen, x.destino} ELSE {x.clase}
PlanValido(acciones, existentes) ==
    \A i \in DOMAIN acciones :
        Menciones(acciones[i]) \subseteq
            AliasBase(acciones, existentes) \cup AliasIntermedias(acciones)

\* The side the planner expects the key of a relation on, the attributes it
\* takes for that key, and the relation with the name of the first.
LadoEsperado(rel) ==
    IF rel.claseFk # Ausente THEN rel.claseFk
    ELSE IF rel.forma = "N1" THEN rel.origen ELSE rel.destino
Referida(rel, lado) == IF lado = rel.destino THEN rel.origen ELSE rel.destino
EsClaveDe(rel, atributo) ==
    LET lado == LadoEsperado(rel)
    IN /\ atributo.clase = lado
       /\ CoincideNombreFk(atributo.nombre, Referida(rel, lado), rel.origen = rel.destino)
Reconciliar(rel, atributos) ==
    IF \A x \in Elementos(atributos) : ~EsClaveDe(rel, x) THEN rel
    ELSE [rel EXCEPT !.claseFk = LadoEsperado(rel),
                     !.nombreFk = IF @ # <<>> THEN @
                                  ELSE Primero(atributos, LAMBDA x : EsClaveDe(rel, x)).nombre]

\* An attribute is left out if a key already plays its role: the key of its
\* class, those of the intermediate class of a structure, that of a relation.
SobraEnIntermedia(x, acciones) ==
    \E nm \in Estructuras(acciones) :
        /\ x.clase = nm.intermedia
        /\ \E c \in {nm.origen, nm.destino} : CoincideNombreFk(x.nombre, c, FALSE)

\* Slip: whatever looks like a foreign key is left to the relations.
SobraLoParecido(x, acciones) ==
    \E rel \in Elementos(DeTipo(acciones, "relacion")) :
        \E c \in {rel.origen, rel.destino} : CoincideNombreFk(x.nombre, c, TRUE)

\* Slip: the keys are left to the executor.
SobraNinguna(x, acciones) == FALSE

SobraEnBase(x, acciones) ==
    \E rel \in Elementos(DeTipo(acciones, "relacion")) : EsClaveDe(rel, x)

\* Slip: the actions keep the order in which they were proposed.
PlanificarEnOrden(acciones, existentes) ==
    LET atributos == DeTipo(acciones, "atributo")
    IN [i \in DOMAIN acciones |->
          IF acciones[i].tipo = "relacion" THEN Reconciliar(acciones[i], atributos) ELSE acciones[i]]

Planificar(acciones, existentes) ==
    LET atributos == DeTipo(acciones, "atributo")
        EnIntermedia(x) ==
            x.clase \in AliasIntermedias(acciones) \ AliasBase(acciones, existentes)
        Propio(x) == ~EsIdentificadorPk(x.nombre, x.clase)
        DeBase(x) == Propio(x) /\ ~EnIntermedia(x) /\ ~SobraEnBase(x, acciones)
        DeIntermedia(x) == Propio(x) /\ EnIntermedia(x) /\ ~SobraEnIntermedia(x, acciones)
        relaciones == DeTipo(acciones, "relacion")
    IN DeTipo(acciones, "clase") \o SelectSeq(atributos, DeBase) \o DeTipo(acciones, "nm")
       \o [i \in DOMAIN relaciones |-> Reconciliar(relaciones[i], atributos)]
       \o SelectSeq(atributos, DeIntermedia)
       \o SelectSeq(acciones, LAMBDA x : x.tipo \notin Creaciones)

(***************************************************************************)
(* The executor.  e is what it works on: the classes alive, by id, with    *)
(* their attributes in order; relations with the key that materializes     *)
(* them, if any; structures; the names it has learnt; the results; and     *)
(* whether it has stopped.                                                 *)
(***************************************************************************)
Ninguno == 0    \* no class
SinClave == [clase |-> Ninguno, nombre |-> <<>>]
Llave == [nombre |-> Id, papel |-> "llave"]
Manual(a) == [nombre |-> a, papel |-> "manual"]
Foranea(a) == [nombre |-> a, papel |-> "fk"]

Aprende(e, nombres, id) ==
    [e EXCEPT !.alias = [n \in DOMAIN @ \cup nombres |-> IF n \in nombres THEN id ELSE @[n]]]

\* Slip: a name stands for the class that bears it now.
ResolverPorNombre(e, nombre) ==
    LET asi == {c \in DOMAIN e.clases : e.clases[c].nombre = nombre}
    IN IF Cardinality(asi) = 1 THEN CHOOSE c \in asi : TRUE ELSE Ninguno

\* resolver_clase: what the name stands for in this plan comes first, then the
\* only class that bears it.
Resolver(e, nombre) ==
    LET asi == {c \in DOMAIN e.clases : e.clases[c].nombre = nombre}
    IN IF nombre \in DOMAIN e.alias THEN e.alias[nombre]
       ELSE IF Cardinality(asi) = 1 THEN CHOOSE c \in asi : TRUE ELSE Ninguno
Resuelta(e, nombre) == Resolver(e, nombre) \in DOMAIN e.clases

Anota(e, estado) == [e EXCEPT !.pasos = Append(@, estado)]
Hecho(e) == Anota(e, "completado")

\* A refusal stops the plan unless other steps do not build on the one refused.
Rechazo(e, x) ==
    LET r == Anota(e, "rechazado")
    IN IF x.tipo \in {"relacion", "atributo", "nm"} THEN r ELSE [r EXCEPT !.corta = TRUE]

Nace(e, nombre, atributos) ==
    [e EXCEPT !.clases = [c \in DOMAIN @ \cup {e.sig} |->
                            IF c = e.sig THEN [nombre |-> nombre, atributos |-> atributos] ELSE @[c]],
              !.sig = @ + 1]
Agrega(e, c, atributo) == [e EXCEPT !.clases[c].atributos = Append(@, atributo)]
Tiene(e, c, a) == \E x \in Elementos(e.clases[c].atributos) : x.nombre = a
Pon(e, o, d, forma, fk) ==
    [e EXCEPT !.relaciones =
        Append(@, [origen |-> o, destino |-> d, forma |-> forma, fk |-> fk, nm |-> Ninguno])]
PonDeNm(e, c, i, nombre) ==
    [e EXCEPT !.relaciones = Append(@, [origen |-> c, destino |-> i, forma |-> "1N",
                                        fk |-> [clase |-> i, nombre |-> nombre], nm |-> i])]

PasoClase(e, x) == Hecho(Aprende(Nace(e, x.nombre, <<Llave>>), {x.nombre}, e.sig))

PasoAtributo(e, x) ==
    IF Resuelta(e, x.clase)
    THEN Hecho(Agrega(e, Resolver(e, x.clase), Manual(x.nombre))) ELSE Rechazo(e, x)

\* Where the executor puts the key of a relation between classes o and d.
LadoFk(e, x, o, d) ==
    LET porForma == IF x.forma \in {"N1", "jerarquia"} THEN o ELSE d
        pedida == Resolver(e, x.claseFk)
    IN IF x.claseFk # Ausente /\ pedida # Ninguno THEN pedida ELSE porForma
NombreFk(e, x, ref, recursiva) ==
    IF x.nombreFk # <<>> THEN x.nombreFk
    ELSE IF recursiva THEN Padre(e.clases[ref].nombre) ELSE IdDe(e.clases[ref].nombre)

\* referencia_materializa_relacion, for a key of class fk to class ref
Materializa(x, o, d, fk, ref) ==
    IF x.forma = "jerarquia" \/ (x.forma = "N1" /\ o # d) THEN fk = o /\ ref = d
    ELSE IF x.forma \in HaciaDestino /\ o # d THEN fk = d /\ ref = o
    ELSE {fk, ref} = {o, d}

\* The relation, its new key, and then the check that it is the right key:
\* what was written before a refusal stays.  An attribute that has the name
\* becomes the key, if its type allows.
PasoRelacion(e, x) ==
    LET o == Resolver(e, x.origen)
        d == Resolver(e, x.destino)
        fk == LadoFk(e, x, o, d)
        ref == IF fk = d THEN o ELSE d
        nombre == NombreFk(e, x, ref, o = d)
        clave == [clase |-> fk, nombre |-> nombre]
        conClave == IF fk \notin {o, d} \/ Tiene(e, fk, nombre) THEN e
                    ELSE Agrega(e, fk, Foranea(nombre))
    IN IF ~Resuelta(e, x.origen) \/ ~Resuelta(e, x.destino) \/ (o = d /\ x.forma = "jerarquia")
       THEN Rechazo(e, x)
       ELSE IF x.forma = "NN" THEN Hecho(Pon(e, o, d, x.forma, SinClave))
       ELSE IF ~Materializa(x, o, d, fk, ref)
       THEN Rechazo(Pon(conClave, o, d, x.forma, SinClave), x)
       ELSE IF Tiene(e, fk, nombre) /\ <<fk, nombre>> \in e.dispares
       THEN Rechazo(Pon(e, o, d, x.forma, SinClave), x)
       ELSE Hecho(Pon(conClave, o, d, x.forma, clave))

\* The structure takes its keys' names from the classes, and its intermediate
\* class may be called by its name, by those of its ends or by the generic one.
NombreDePar(o, d) == o \o "_" \o d

PasoNm(e, x) ==
    LET o == Resolver(e, x.origen)
        d == Resolver(e, x.destino)
        Clave(c, lado) ==
            IF e.clases[o].nombre = e.clases[d].nombre
            THEN <<e.clases[c].nombre, lado, "id">> ELSE DeId(e.clases[c].nombre)
        i == e.sig
        nacida == Nace(e, x.intermedia,
                       <<Llave, Foranea(Clave(o, "origen")), Foranea(Clave(d, "destino"))>>)
        unida == PonDeNm(PonDeNm(nacida, o, i, Clave(o, "origen")), d, i, Clave(d, "destino"))
        nm == [origen |-> o, destino |-> d, intermedia |-> i]
        nombres == {x.intermedia, Generico, NombreDePar(e.clases[o].nombre, e.clases[d].nombre),
                    NombreDePar(e.clases[d].nombre, e.clases[o].nombre)}
    IN IF Resuelta(e, x.origen) /\ Resuelta(e, x.destino)
       THEN Hecho(Aprende([unida EXCEPT !.nms = @ \cup {nm}], nombres, i))
       ELSE Rechazo(e, x)

PasoRenombra(e, x) ==
    LET c == Resolver(e, x.clase)
    IN IF Resuelta(e, x.clase)
       THEN Hecho(Aprende([e EXCEPT !.clases[c].nombre = x.nuevo], {x.nuevo}, c)) ELSE Rechazo(e, x)

(***************************************************************************)
(* Deletions, with their cascades: a structure goes with a class or a      *)
(* relation of its own, a relation with either class or with its key, and  *)
(* a foreign key with the last relation it served.                         *)
(***************************************************************************)
Toca(fila, clases) == {fila.origen, fila.destino} \cap clases # {}

RECURSIVE Caidas(_, _)
Caidas(e, clases) ==
    LET mas == clases \cup {nm.intermedia : nm \in {m \in e.nms : Toca(m, clases)}}
    IN IF mas = clases THEN clases ELSE Caidas(e, mas)

\* e without some classes and some relations.
Quita(e, clases, caen) ==
    LET muertas == Caidas(e, clases)
        vivas == SelectSeq(e.relaciones, LAMBDA rel : ~Toca(rel, muertas) /\ rel \notin caen)
        Sirve(c, a, relaciones) ==
            \E rel \in Elementos(relaciones) : rel.fk = [clase |-> c, nombre |-> a.nombre]
        Sobra(c, a) == a.papel = "fk" /\ Sirve(c, a, e.relaciones) /\ ~Sirve(c, a, vivas)
    IN [e EXCEPT
         !.clases = [c \in DOMAIN @ \ muertas |->
             [@[c] EXCEPT !.atributos = SelectSeq(@, LAMBDA a : ~Sobra(c, a))]],
         !.relaciones = vivas,
         !.nms = {nm \in @ : ~Toca(nm, muertas) /\ nm.intermedia \notin muertas}]
QuitaClase(e, c) == Quita(e, {c}, {})

PasoBorraClase(e, x) ==
    IF Resuelta(e, x.clase) THEN Hecho(QuitaClase(e, Resolver(e, x.clase))) ELSE Rechazo(e, x)

\* resolver_estructura_nm and resolver_relacion: the only one between the two
\* classes, whichever its direction.
Par(e, x) == {Resolver(e, x.origen), Resolver(e, x.destino)}
PasoBorraNm(e, x) ==
    LET suyas == {nm \in e.nms : {nm.origen, nm.destino} = Par(e, x)}
    IN IF Cardinality(suyas) = 1
       THEN Hecho(QuitaClase(e, (CHOOSE nm \in suyas : TRUE).intermedia)) ELSE Rechazo(e, x)

Suyas(e, x) == SelectSeq(e.relaciones, LAMBDA rel : {rel.origen, rel.destino} = Par(e, x))
PasoNombraRelacion(e, x) == IF Len(Suyas(e, x)) = 1 THEN Hecho(e) ELSE Rechazo(e, x)
PasoBorraRelacion(e, x) ==
    LET esta == Suyas(e, x)[1]
    IN IF Len(Suyas(e, x)) # 1 THEN Rechazo(e, x)
       ELSE IF esta.nm # Ninguno THEN Hecho(QuitaClase(e, esta.nm))
       ELSE Hecho(Quita(e, {}, {esta}))

\* resolver_atributo: the only attribute of that name in the class.
Asi(e, x) ==
    SelectSeq(e.clases[Resolver(e, x.clase)].atributos, LAMBDA a : a.nombre = x.nombre)
Hallado(e, x) == Resuelta(e, x.clase) /\ Len(Asi(e, x)) = 1
ClaveDe(e, x) == [clase |-> Resolver(e, x.clase), nombre |-> x.nombre]

\* Only what the users made may be deleted; of the rest, and of what is a key,
\* the name may be changed and nothing else.
PasoBorraAtributo(e, x) ==
    LET c == Resolver(e, x.clase)
        sinRelacion == Quita(e, {}, {rel \in Elementos(e.relaciones) : rel.fk = ClaveDe(e, x)})
    IN IF ~Hallado(e, x) THEN Rechazo(e, x)
       ELSE IF Asi(e, x)[1].papel # "manual" THEN Rechazo(e, x)
       ELSE Hecho([sinRelacion EXCEPT !.clases[c].atributos =
                      SelectSeq(@, LAMBDA a : a.nombre # x.nombre)])

PasoCambiaAtributo(e, x) ==
    LET c == Resolver(e, x.clase)
        fijo == \/ Asi(e, x)[1].papel # "manual"
                \/ \E rel \in Elementos(e.relaciones) : rel.fk = ClaveDe(e, x)
        Otro(a) == IF a.nombre = x.nombre THEN [a EXCEPT !.nombre = x.nuevo] ELSE a
        Otra(rel) == IF rel.fk = ClaveDe(e, x) THEN [rel EXCEPT !.fk.nombre = x.nuevo] ELSE rel
    IN IF ~Hallado(e, x) THEN Rechazo(e, x)
       ELSE IF x.nuevo = x.nombre /\ fijo THEN Rechazo(e, x)
       ELSE Hecho([e EXCEPT !.clases[c].atributos = [i \in DOMAIN @ |-> Otro(@[i])],
                            !.relaciones = [i \in DOMAIN @ |-> Otra(@[i])]])

PasoDe(e, x) ==
    CASE x.tipo = "clase"          -> PasoClase(e, x)
      [] x.tipo = "atributo"       -> PasoAtributo(e, x)
      [] x.tipo = "relacion"       -> PasoRelacion(e, x)
      [] x.tipo = "nm"             -> PasoNm(e, x)
      [] x.tipo = "renombra"       -> PasoRenombra(e, x)
      [] x.tipo = "borra"          -> PasoBorraClase(e, x)
      [] x.tipo = "borra atributo" -> PasoBorraAtributo(e, x)
      [] x.tipo = "borra relacion" -> PasoBorraRelacion(e, x)
      [] x.tipo = "borra nm"       -> PasoBorraNm(e, x)
      [] x.tipo = "cambia atributo" -> PasoCambiaAtributo(e, x)
      [] x.tipo = "nombra relacion" -> PasoNombraRelacion(e, x)

(***************************************************************************)
(* A plan at work on a diagram others may be editing.                      *)
(***************************************************************************)
CONSTANT Propuestas    \* [antes: the classes of the diagram, acciones, ajena]

VARIABLES
    propuesta,   \* the one being executed, with its plan
    ejecucion    \* what the executor works on

varsPlan == <<propuesta, ejecucion>>

EnBlanco == [clases |-> <<>>, relaciones |-> <<>>, nms |-> {}, alias |-> <<>>, sig |-> 0,
             pasos |-> <<>>, corta |-> FALSE, dispares |-> {}, ajenas |-> {}]

\* The classes there were, each known by its name.
Inicial(p) ==
    [EnBlanco EXCEPT
       !.clases = [c \in DOMAIN p.antes |->
           [nombre |-> p.antes[c].nombre, atributos |-> <<Llave>> \o p.antes[c].atributos]],
       !.alias = [n \in {p.antes[c].nombre : c \in DOMAIN p.antes} |->
                    CHOOSE c \in DOMAIN p.antes : p.antes[c].nombre = n],
       !.dispares = p.dispares,
       !.sig = Len(p.antes) + 1]
Existentes(p) == {p.antes[c].nombre : c \in DOMAIN p.antes}

\* A diagram that is being worked on has an id to give.
HayPropuesta == ejecucion.sig # 0
NingunaPropuesta == [p |-> <<>>, plan |-> <<>>]

InitPlan == propuesta = NingunaPropuesta /\ ejecucion = EnBlanco

Proponer ==
    /\ ~HayPropuesta
    /\ \E p \in Propuestas :
          /\ PlanValido(p.acciones, Existentes(p))
          /\ propuesta' = [p |-> p, plan |-> Planificar(p.acciones, Existentes(p))]
          /\ ejecucion' = Inicial(p)

EnCurso == HayPropuesta /\ Len(ejecucion.pasos) < Len(propuesta.plan)

\* The step that comes next, or its omission once the plan was stopped.
Ejecutar ==
    /\ EnCurso
    /\ ejecucion' = IF ejecucion.corta THEN Anota(ejecucion, "omitido")
                    ELSE PasoDe(ejecucion, propuesta.plan[Len(ejecucion.pasos) + 1])
    /\ UNCHANGED propuesta

\* Between two steps somebody else deletes a class.
BorrarAjena(c) ==
    /\ EnCurso /\ propuesta.p.ajena /\ ejecucion.ajenas = {}
    /\ c \in DOMAIN ejecucion.clases
    /\ ejecucion' = [QuitaClase(ejecucion, c) EXCEPT
                       !.ajenas = DOMAIN ejecucion.clases \ DOMAIN QuitaClase(ejecucion, c).clases]
    /\ UNCHANGED propuesta

Acabado == HayPropuesta /\ ~EnCurso
Acabar == Acabado /\ propuesta' = NingunaPropuesta /\ ejecucion' = EnBlanco

NextPlan ==
    \/ Proponer \/ Ejecutar \/ Acabar
    \/ \E c \in DOMAIN ejecucion.clases : BorrarAjena(c)

(***************************************************************************)
(* What the plan promises.                                                 *)
(***************************************************************************)
Hechas(tipo) ==
    {propuesta.plan[i] : i \in {j \in DOMAIN ejecucion.pasos :
        propuesta.plan[j].tipo = tipo /\ ejecucion.pasos[j] = "completado"}}
Acciones == propuesta.p.acciones

\* The class a name denotes in a plan: the one that had it, or the one the
\* plan gives it to.
Creadas == {i \in DOMAIN propuesta.plan : propuesta.plan[i].tipo \in {"clase", "nm"}}
NombreNuevo(i) == IF propuesta.plan[i].tipo = "clase" THEN propuesta.plan[i].nombre
                  ELSE propuesta.plan[i].intermedia
Original(n) ==
    LET cambios == {x \in Elementos(propuesta.plan) : x.tipo = "renombra" /\ x.nuevo = n}
    IN IF n \in Existentes(propuesta.p) \/ cambios = {} THEN n
       ELSE (CHOOSE x \in cambios : TRUE).clase
Denota(nombre) ==
    LET n == Original(nombre)
        antes == propuesta.p.antes
        nace == {i \in Creadas : NombreNuevo(i) = n}
    IN IF n \in Existentes(propuesta.p) THEN CHOOSE c \in DOMAIN antes : antes[c].nombre = n
       ELSE Len(antes) + Cardinality({j \in Creadas : \E i \in nace : j <= i})

\* Whoever wrote the plan gave each name to one class.
SinHomonimos ==
    LET dados == {i \in DOMAIN propuesta.plan : propuesta.plan[i].tipo \in {"clase", "nm", "renombra"}}
        Dado(i) == IF propuesta.plan[i].tipo = "renombra" THEN propuesta.plan[i].nuevo
                   ELSE NombreNuevo(i)
    IN /\ \A i \in dados : Dado(i) \notin Existentes(propuesta.p) \cup {Generico}
       /\ \A i, j \in dados : Dado(i) = Dado(j) => i = j

\* Proposals that only create and that the planner and the executor read
\* alike: on a hierarchy they disagree about the side of the key; an N:N
\* relation has no key, though an attribute is dropped for it; a structure over
\* the intermediate class of another may come before it; and the attributes of
\* the class called "intermedia", or those of the diagram, are not reconciled.
Sana(p) ==
    LET Todas(tipo) == Elementos(DeTipo(p.acciones, tipo))
        intermedias == {nm.intermedia : nm \in Todas("nm")}
    IN /\ {x.tipo : x \in Elementos(p.acciones)} \subseteq Creaciones
       /\ p.dispares = {} /\ IsInjective(p.acciones)
       /\ \A c \in DOMAIN p.antes : Elementos(p.antes[c].atributos) \subseteq {Manual(Dato)}
       /\ \A rel \in Todas("relacion") :
             /\ rel.forma = "NN" => \A x \in Todas("atributo") : ~EsClaveDe(rel, x)
             /\ rel.forma = "jerarquia" =>
                   /\ rel.origen # rel.destino
                   /\ \A x \in Todas("atributo"), c \in {rel.origen, rel.destino} :
                         ~CoincideNombreFk(x.nombre, c, FALSE)
       /\ \A nm \in Todas("nm") : {nm.origen, nm.destino} \cap intermedias = {}
       /\ \A x \in Todas("atributo") : x.clase = Generico => x.nombre \in {Id, Dato}

\* The names a step uses, and whether what one of them denotes has gone.
Usa(x) == Menciones(x) \ {Generico}
SinSuClase(i) == \E n \in Usa(propuesta.plan[i]) : Denota(n) \notin DOMAIN ejecucion.clases
Rechazados(tipos) ==
    {i \in DOMAIN ejecucion.pasos :
        ejecucion.pasos[i] = "rechazado" /\ propuesta.plan[i].tipo \in tipos}

\* Whatever renames, creations and deletions it mixes, a plan acts on the
\* classes its names denote: it deletes those and no other, joins those and
\* no other, and refuses to rename or delete one only if it is gone.
CadaNombreSuClase ==
    Acabado /\ SinHomonimos =>
        LET todas == 1..(ejecucion.sig - 1)
            borradas == {Denota(x.clase) : x \in Hechas("borra")}
        IN /\ borradas \cap DOMAIN ejecucion.clases = {}
           /\ \A i \in Rechazados({"renombra", "borra"}) : SinSuClase(i)
           /\ Hechas("nm") = {} => todas \ DOMAIN ejecucion.clases \subseteq borradas \cup ejecucion.ajenas
           /\ \A rel \in Elementos(ejecucion.relaciones) : rel.nm = Ninguno =>
                 \E i \in DOMAIN ejecucion.pasos :
                    LET x == propuesta.plan[i]
                    IN /\ x.tipo = "relacion" /\ ejecucion.pasos[i] # "omitido"
                       /\ rel.origen = Denota(x.origen) /\ rel.destino = Denota(x.destino)

\* A plan that only creates is executed whole, in whatever order the model
\* listed it: a step is refused only if someone else deleted a class it uses.
EjecucionCompleta ==
    Acabado /\ SinHomonimos /\ Sana(propuesta.p) =>
        \A i \in DOMAIN ejecucion.pasos : ejecucion.pasos[i] = "completado" \/ SinSuClase(i)

\* Whether a key of class c plays the part the name has.
HaceDe(c, nombre) ==
    \E rel \in Elementos(ejecucion.relaciones) :
        LET otra == IF rel.destino = c THEN rel.origen ELSE rel.destino
        IN /\ rel.fk.clase = c
           /\ CoincideNombreFk(nombre, ejecucion.clases[otra].nombre, rel.origen = rel.destino)

\* No attribute that was asked for is lost: it is in its class or a key of the
\* class plays its part, its own or one to the class it is named after.
NadaSePierde ==
    Acabado /\ SinHomonimos /\ Sana(propuesta.p) /\ ejecucion.ajenas = {} =>
        \A x \in Elementos(DeTipo(propuesta.p.acciones, "atributo")) :
            LET c == Resolver(ejecucion, x.clase)
            IN \/ Tiene(ejecucion, c, x.nombre)
               \/ EsIdentificadorPk(x.nombre, ejecucion.clases[c].nombre)
               \/ HaceDe(c, x.nombre)

\* No class is left with two attributes of one name, nor with an attribute
\* beside the key that plays its part.
SinDobles ==
    Acabado /\ SinHomonimos /\ Sana(propuesta.p) =>
        \A c \in DOMAIN ejecucion.clases :
            LET as == ejecucion.clases[c].atributos
            IN /\ \A i, j \in DOMAIN as : as[i].nombre = as[j].nombre => i = j
               /\ \A a \in Elementos(as) : a.papel = "manual" /\ HaceDe(c, a.nombre) =>
                    \E rel \in Elementos(ejecucion.relaciones) :
                        rel.fk = [clase |-> c, nombre |-> a.nombre]
================================================================================
