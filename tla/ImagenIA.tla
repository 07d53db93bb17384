-------------------------------- MODULE ImagenIA --------------------------------
(***************************************************************************)
(* From the classes and relations a model recognises in a picture to the   *)
(* diagram they are imported into: which recognised class is there         *)
(* already, which one is but the intermediate class of an N:M relation,    *)
(* which attribute is the key of a relation, and what must not be made     *)
(* twice; then the executor of PlanIA works on the plan.  The same picture *)
(* may be imported again.                                                  *)
(* Source: planificador_importacion_imagen.py and the steps 7 to 10 of     *)
(* procesar_imagen_diagrama_ia.py.                                         *)
(*                                                                         *)
(* A class is referred to by its name.  A recognised class carries the     *)
(* names its own is composed of, joined by "_", and whether it was drawn   *)
(* about halfway between the other two; a recognised attribute, how it was *)
(* marked and the class it refers to, if that could be read.  A line has   *)
(* the cardinalities that were read at its ends, "?" standing for one that *)
(* is missing or not understood at the destination ("1..1", "2..*"); at    *)
(* the origin that makes no difference, for it is then one before and      *)
(* after it is normalized.  Compositions are drawn one to many.  Types of  *)
(* data, texts and the layout of what is created are left out.             *)
(***************************************************************************)
EXTENDS PlanIA

CONSTANT Imagenes    \* [antes: the classes of the diagram, clases, relaciones]

VARIABLE importacion    \* the picture, its plan, and the diagram before and under it

Reconocida(c, partes, atributos) ==
    [nombre |-> c, partes |-> partes, centrada |-> FALSE, atributos |-> atributos]
Leido(a, marca, ref) == [nombre |-> a, marca |-> marca, ref |-> ref]
Trazo(o, d, forma) == [origen |-> o, destino |-> d, forma |-> forma]

Nombres(img) == {c.nombre : c \in Elementos(img.clases)}
ClaseDe(img, nombre) == Primero(img.clases, LAMBDA c : c.nombre = nombre)
AtributosDe(img, nombre) ==
    IF nombre \in Nombres(img) THEN ClaseDe(img, nombre).atributos ELSE <<>>
\* es_cardinalidad_muchos of what was read at either end
MuchosEnOrigen  == {"NN", "N1", "N?"}
MuchosEnDestino == {"NN", "1N"}
Tipo(forma) == IF forma \in {"jerarquia", "compuesta"} THEN forma ELSE "asociacion"
Extremos(rel) == {rel.origen, rel.destino}

\* The class of the diagram that bears a name: the last one listed.
Dibujada(e, nombre) ==
    LET asi == {c \in DOMAIN e.clases : e.clases[c].nombre = nombre}
    IN IF asi = {} THEN Ninguno ELSE Max(asi)

(***************************************************************************)
(* The evidence that class c refers to class ref: an attribute that says   *)
(* so, one named like a key, one that mentions it, and the first line that *)
(* joins them.                                                             *)
(***************************************************************************)
Mirable(a) == a.marca # "pk" /\ a.nombre # Id
LoDice(a, ref) == a.ref = ref
LoLlama(a, ref, recursiva) == CoincideNombreFk(a.nombre, ref, recursiva)
LoMenciona(a, ref) ==
    ref \in Elementos(a.nombre) /\ Elementos(a.nombre) \cap {"id", "cod"} # {}

SinAtributo == Leido(<<>>, "", Ausente)
PrimeroSiHay(s) == IF s = <<>> THEN SinAtributo ELSE Head(s)

AtributoHacia(c, ref) ==
    LET mirables == SelectSeq(c.atributos, Mirable)
        firme == PrimeroSiHay(SelectSeq(mirables,
                    LAMBDA a : LoDice(a, ref) \/ LoLlama(a, ref, FALSE)))
    IN IF firme # SinAtributo THEN firme
       ELSE PrimeroSiHay(SelectSeq(mirables, LAMBDA a : LoMenciona(a, ref)))
PesoAtributo(a, ref) ==
    IF a = SinAtributo THEN 0
    ELSE IF LoDice(a, ref) THEN 5
    ELSE IF LoLlama(a, ref, FALSE) THEN (IF a.marca = "fk" THEN 5 ELSE 4)
    ELSE 3

\* A line with a rhombus counts only if it leaves c.
PesoTrazo(c, ref, relaciones) ==
    LET suyas == SelectSeq(relaciones,
                    LAMBDA r : <<r.origen, r.destino>> \in {<<c, ref>>, <<ref, c>>})
        sale == suyas[1].origen = c
    IN IF suyas = <<>> THEN 0
       ELSE IF suyas[1].forma = "compuesta" THEN (IF sale THEN 3 ELSE 0)
       ELSE IF suyas[1].forma \in (IF sale THEN MuchosEnOrigen ELSE MuchosEnDestino) THEN 3
       ELSE 2
Evidencia(c, ref, relaciones) ==
    PesoAtributo(AtributoHacia(c, ref), ref) + PesoTrazo(c.nombre, ref, relaciones)

\* evaluar_candidato_intermedia_nm, for classes a and b
EsCandidata(img, c, a, b) ==
    LET haciaA == AtributoHacia(c, a)
        haciaB == AtributoHacia(c, b)
    IN /\ c.nombre \notin {a, b}
       /\ Evidencia(c, a, img.relaciones) >= 3 /\ Evidencia(c, b, img.relaciones) >= 3
       /\ haciaA = SinAtributo \/ haciaB = SinAtributo \/ haciaA.nombre # haciaB.nombre
       /\ \/ haciaA # SinAtributo /\ haciaB # SinAtributo
          \/ {a, b} \subseteq c.partes
          \/ {a, b} \cap c.partes # {} /\ (haciaA # SinAtributo \/ haciaB # SinAtributo)
Puntos(img, c, a, b) ==
    Evidencia(c, a, img.relaciones) + Evidencia(c, b, img.relaciones)
    + (IF c.centrada THEN 1 ELSE 0)
    + (IF {a, b} \subseteq c.partes THEN 2 ELSE IF {a, b} \cap c.partes # {} THEN 1 ELSE 0)
Candidatas(img, a, b) == SelectSeq(img.clases, LAMBDA c : EsCandidata(img, c, a, b))

(***************************************************************************)
(* Step 1: the N:M relations.  r is what has been settled: the structures  *)
(* to create, the intermediate classes with their ends and their keys, the *)
(* lines that are used up, the pairs that are done, and the recognised     *)
(* classes known to be in the diagram.                                     *)
(***************************************************************************)
SinResolver == [nms |-> <<>>, puentes |-> <<>>, usados |-> {}, pares |-> {}, mapa |-> <<>>]
Con(f, x, v) == [y \in DOMAIN f \cup {x} |-> IF y = x THEN v ELSE f[y]]

\* c is the intermediate class of a and b: the lines to them are its keys.
Asigna(img, r, c, a, b) ==
    [r EXCEPT !.nms = Append(@, CreaNm(a, b, c)),
              !.puentes = Con(@, c, [extremos |-> {a, b},
                  claves |-> {AtributoHacia(ClaseDe(img, c), x).nombre : x \in {a, b}}]),
              !.pares = @ \cup {{a, b}},
              !.usados = @ \cup {i \in DOMAIN img.relaciones :
                                    Extremos(img.relaciones[i]) \in {{c, a}, {c, b}}}]

\* The best of the candidates, unless another is about as good.
Mejor(img, cs, a, b) ==
    LET P(c) == Puntos(img, c, a, b)
        buenas == {c \in Elementos(cs) : \A otra \in Elementos(cs) \ {c} : P(c) > P(otra) + 1}
    IN IF buenas = {} THEN Ausente ELSE (CHOOSE c \in buenas : TRUE).nombre

EsNm(img, rel) ==
    \/ rel.forma = "NN"
    \/ /\ rel.origen # rel.destino /\ Extremos(rel) \subseteq Nombres(img)
       /\ Candidatas(img, rel.origen, rel.destino) # <<>>

\* Slip: the structures of the diagram are not looked at.
NmDibujadaNunca(e, r, a, b) == {}

NmDibujada(e, r, a, b) ==
    LET EnDiagrama(n) == IF n \in DOMAIN r.mapa THEN r.mapa[n] ELSE Dibujada(e, n)
    IN {nm \in e.nms : {nm.origen, nm.destino} = {EnDiagrama(a), EnDiagrama(b)}}

ResuelveNm(img, e, r, i) ==
    LET rel == img.relaciones[i]
        o == rel.origen
        d == rel.destino
        hecho == [r EXCEPT !.usados = @ \cup {i}, !.pares = @ \cup {{o, d}}]
        todas == IF {o, d} \subseteq Nombres(img) THEN Candidatas(img, o, d) ELSE <<>>
        libres == SelectSeq(todas, LAMBDA c : c.nombre \notin DOMAIN r.puentes)
        mejor == Mejor(img, libres, o, d)
    IN IF ~EsNm(img, rel) THEN r
       ELSE IF {o, d} \in r.pares THEN [r EXCEPT !.usados = @ \cup {i}]
       ELSE IF NmDibujada(e, r, o, d) # {}
       THEN IF todas = <<>> THEN hecho
            ELSE [hecho EXCEPT
                    !.puentes = Con(@, todas[1].nombre, [extremos |-> {o, d}, claves |-> {}]),
                    !.mapa = Con(@, todas[1].nombre,
                                 (CHOOSE nm \in NmDibujada(e, r, o, d) : TRUE).intermedia)]
       ELSE IF ~({o, d} \subseteq Nombres(img)) THEN r
       ELSE IF mejor # Ausente THEN Asigna(img, hecho, mejor, o, d)
       ELSE [hecho EXCEPT !.nms = Append(@, CreaNm(o, d, NombreDePar(o, d)))]

\* A class no line has settled that joins exactly two others.
ResuelveSuelta(img, r, c) ==
    LET pares == {s \in SUBSET (Nombres(img) \ {c.nombre}) :
                     Cardinality(s) = 2 /\ \E a, b \in s : a # b /\ EsCandidata(img, c, a, b)}
        par == CHOOSE s \in pares : TRUE
        \* its ends in the order in which they were recognised
        orden == SelectSeq(img.clases, LAMBDA x : x.nombre \in par)
    IN IF c.nombre \in DOMAIN r.puentes \/ Cardinality(pares) # 1 THEN r
       ELSE IF par \in r.pares THEN r
       ELSE Asigna(img, r, c.nombre, orden[1].nombre, orden[2].nombre)

Resolucion(img, e) ==
    LET Linea(r, i) == ResuelveNm(img, e, r, i)
        Suelta(r, c) == ResuelveSuelta(img, r, c)
    IN FoldLeft(Suelta, FoldLeft(Linea, SinResolver, [i \in DOMAIN img.relaciones |-> i]),
                img.clases)

(***************************************************************************)
(* Steps 2 to 5: what is created, in the order of dependence.              *)
(***************************************************************************)
\* Slip: the intermediate classes are created as well.
ClasesNuevasTodas(img, e, r) ==
    SelectSeq(img.clases, LAMBDA c : Dibujada(e, c.nombre) = Ninguno)

ClasesNuevas(img, e, r) ==
    SelectSeq(img.clases, LAMBDA c : c.nombre \notin DOMAIN r.puentes
                                     /\ Dibujada(e, c.nombre) = Ninguno)
\* The ids the executor is given.
Mapa(img, e, r) ==
    LET vistas == {n \in Nombres(img) \ DOMAIN r.puentes : Dibujada(e, n) # Ninguno}
    IN [n \in vistas \cup DOMAIN r.mapa |-> IF n \in vistas THEN Dibujada(e, n) ELSE r.mapa[n]]

\* Slip: a relation that was drawn the other way round is made again.
YaTrazadaDerecha(e, mapa, rel) ==
    /\ Extremos(rel) \subseteq DOMAIN mapa
    /\ \E otra \in Elementos(e.relaciones) :
          /\ Tipo(otra.forma) = Tipo(rel.forma)
          /\ otra.origen = mapa[rel.destino] /\ otra.destino = mapa[rel.origen]

YaTrazada(e, mapa, rel) ==
    /\ Extremos(rel) \subseteq DOMAIN mapa
    /\ \E otra \in Elementos(e.relaciones) :
          /\ Tipo(otra.forma) = Tipo(rel.forma)
          /\ \/ otra.origen = mapa[rel.origen] /\ otra.destino = mapa[rel.destino]
             \/ otra.origen = mapa[rel.destino] /\ otra.destino = mapa[rel.origen]

\* The lines that become relations.
Lineas(img, e, r) ==
    {i \in DOMAIN img.relaciones \ r.usados :
        LET rel == img.relaciones[i]
        IN /\ rel.forma # "NN" /\ Extremos(rel) \notin r.pares
           /\ Extremos(rel) \cap DOMAIN r.puentes = {}
           /\ \A n \in Extremos(rel) : n \in Nombres(img) \/ Dibujada(e, n) # Ninguno
           /\ ~YaTrazada(e, Mapa(img, e, r), rel)}

\* Slip: the key of a hierarchy is looked for in the more general class.
LadoSegunDestino(img, rel) ==
    IF rel.forma \in {"N1", "N?"} \/ rel.origen = rel.destino THEN rel.origen ELSE rel.destino

\* determinar_lado_fk_relacion
LadoSegunImagen(img, rel) ==
    IF rel.forma \in {"jerarquia", "N1", "N?"} \/ rel.origen = rel.destino THEN rel.origen
    ELSE IF rel.forma \in {"11", "1?"} /\ \E a \in Elementos(AtributosDe(img, rel.origen)) :
               Mirable(a) /\ (LoDice(a, rel.destino) \/ LoLlama(a, rel.destino, FALSE))
    THEN rel.origen ELSE rel.destino

\* The attribute that will be the key: the one that says so, a marked one with
\* its name, one with its name, or the only one that is marked.
ClaveLeida(img, rel) ==
    LET lado == LadoSegunImagen(img, rel)
        ref == Referida(rel, lado)
        as == SelectSeq(AtributosDe(img, lado), Mirable)
        Llamada(a) == LoLlama(a, ref, rel.origen = rel.destino)
        dicha == PrimeroSiHay(SelectSeq(as, LAMBDA a : LoDice(a, ref)))
        marcada == PrimeroSiHay(SelectSeq(as, LAMBDA a : a.marca = "fk" /\ Llamada(a)))
        llamada == PrimeroSiHay(SelectSeq(as, Llamada))
        marcadas == SelectSeq(as, LAMBDA a : a.marca = "fk")
    IN IF dicha # SinAtributo THEN dicha
       ELSE IF marcada # SinAtributo THEN marcada
       ELSE IF llamada # SinAtributo THEN llamada
       ELSE IF Len(marcadas) = 1 THEN marcadas[1] ELSE SinAtributo

\* normalizar_cardinalidad: the side of the key was settled on what was read,
\* the relation is created with many for what was not read at the destination.
Normalizada(forma) ==
    IF forma = "1?" THEN "1N" ELSE IF forma = "N?" THEN "NN" ELSE forma

Relaciona(img, rel) ==
    LET clave == ClaveLeida(img, rel)
        accion == CreaRelacion(rel.origen, rel.destino, Normalizada(rel.forma))
    IN IF clave = SinAtributo THEN accion
       ELSE [accion EXCEPT !.claseFk = LadoSegunImagen(img, rel), !.nombreFk = clave.nombre]

\* Slip: only the attribute that becomes the key is left out.
ExcluidaSoloClave(img, lineas, c, a) ==
    \E i \in lineas :
        LET rel == img.relaciones[i]
        IN a = ClaveLeida(img, rel) /\ c = LadoSegunImagen(img, rel)

\* Slip: whatever is named like a key to some class of the picture is left out.
ExcluidaLoParecido(img, lineas, c, a) ==
    \E n \in Nombres(img) \ {c} : LoLlama(a, n, FALSE)

\* What a relation of class c already stands for: its key, and whatever is
\* named like a key to the class at the other end.
Excluida(img, lineas, c, a) ==
    \E i \in lineas :
        LET rel == img.relaciones[i]
        IN \/ a.nombre = ClaveLeida(img, rel).nombre /\ c = LadoSegunImagen(img, rel)
           \/ /\ c \in Extremos(rel) /\ Extremos(rel) \subseteq Nombres(img)
              /\ \/ c = rel.origen /\ LoLlama(a, rel.destino, FALSE)
                 \/ c = rel.destino /\ LoLlama(a, rel.origen, FALSE)

EsLlave(a, c) == a.marca = "pk" \/ EsIdentificadorPk(a.nombre, c)
SinRepetir(s) ==
    LET Suma(t, a) == IF \E x \in Elementos(t) : x.nombre = a.nombre THEN t ELSE Append(t, a)
    IN FoldLeft(Suma, <<>>, s)

\* The attributes of a recognised class that are created, by what it is.
AtributosNuevos(img, e, r, lineas, c) ==
    LET id == Dibujada(e, c.nombre)
        Propio(a) == ~EsLlave(a, c.nombre) /\ ~Excluida(img, lineas, c.nombre, a)
        DePuente(a) ==
            /\ ~EsLlave(a, c.nombre) /\ a.nombre \notin r.puentes[c.nombre].claves
            /\ \A x \in r.puentes[c.nombre].extremos : ~LoLlama(a, x, FALSE)
    IN SinRepetir(
         IF id # Ninguno THEN SelectSeq(c.atributos, LAMBDA a : Propio(a) /\ ~Tiene(e, id, a.nombre))
         ELSE IF c.nombre \in DOMAIN r.puentes THEN SelectSeq(c.atributos, DePuente)
         ELSE SelectSeq(c.atributos, Propio))

PlanDeImagen(img, e, r) ==
    LET lineas == Lineas(img, e, r)
        nuevas == ClasesNuevas(img, e, r)
        DePuente(c) == c.nombre \in DOMAIN r.puentes /\ Dibujada(e, c.nombre) = Ninguno
        Altas(c) ==
            LET as == AtributosNuevos(img, e, r, lineas, c)
            IN [i \in DOMAIN as |-> CreaAtributo(c.nombre, as[i].nombre)]
        Todas(clases) == FlattenSeq([i \in DOMAIN clases |-> Altas(clases[i])])
        trazos == SelectSeq([i \in DOMAIN img.relaciones |-> i], LAMBDA i : i \in lineas)
    IN [i \in DOMAIN nuevas |-> CreaClase(nuevas[i].nombre)]
       \o Todas(SelectSeq(img.clases, LAMBDA c : ~DePuente(c)))
       \o r.nms \o Todas(SelectSeq(img.clases, DePuente))
       \o [i \in DOMAIN trazos |-> Relaciona(img, img.relaciones[trazos[i]])]

(***************************************************************************)
(* A picture at work.                                                      *)
(***************************************************************************)
Sobre(e, mapa) == [EnBlanco EXCEPT !.clases = e.clases, !.relaciones = e.relaciones,
                                   !.nms = e.nms, !.sig = e.sig, !.alias = mapa]
NingunaImagen == [imagen |-> <<>>, plan |-> <<>>, previo |-> EnBlanco, obra |-> EnBlanco, vez |-> 0]
HayImagen == importacion.vez # 0

InitImagen == importacion = NingunaImagen

Planea(img, e, vez) ==
    LET r == Resolucion(img, e)
    IN importacion' = [imagen |-> img, plan |-> PlanDeImagen(img, e, r), previo |-> e,
                       obra |-> Sobre(e, Mapa(img, e, r)), vez |-> vez]

EnObra == HayImagen /\ Len(importacion.obra.pasos) < Len(importacion.plan)

Importar == ~HayImagen /\ \E img \in Imagenes : Planea(img, img.antes, 1)

\* Steps are omitted after a refusal that stops the plan.
Dibujar ==
    /\ EnObra
    /\ LET obra == importacion.obra
       IN importacion' = [importacion EXCEPT !.obra =
            IF obra.corta THEN Anota(obra, "omitido")
            ELSE PasoDe(obra, importacion.plan[Len(obra.pasos) + 1])]

Importada == HayImagen /\ ~EnObra
\* The same picture again, which is read in the same way.
Repetir == Importada /\ importacion.vez = 1 /\ Planea(importacion.imagen, importacion.obra, 2)
Guardar == Importada /\ importacion' = NingunaImagen

NextImagen == Importar \/ Dibujar \/ Repetir \/ Guardar

(***************************************************************************)
(* What an import promises.                                                *)
(***************************************************************************)
Imagen == importacion.imagen
Obra == importacion.obra
ConNombre(e, n) == {c \in DOMAIN e.clases : e.clases[c].nombre = n}
\* The classes a recognised one became: those of its name, or else the
\* intermediate class it was taken for.
Quedan(n) == IF ConNombre(Obra, n) # {} THEN ConNombre(Obra, n) ELSE {Resolver(Obra, n)}

\* Pictures whose repetition the code recognises: a column that a key already
\* stands for is taken for a new one once its relation is there, a structure no
\* line of the picture stands for is made again, and so is a relation to a
\* class that is in the diagram and not in the picture.
Repetible ==
    LET previo == importacion.previo
    IN importacion.vez = 2 =>
        /\ \A c \in Elementos(Imagen.clases) : \A a \in Elementos(c.atributos) :
              \/ EsLlave(a, c.nombre)
              \/ \E id \in ConNombre(previo, c.nombre) : Tiene(previo, id, a.nombre)
        /\ \A nm \in previo.nms : \E rel \in Elementos(Imagen.relaciones) :
              {nm.origen, nm.destino} = {Dibujada(previo, n) : n \in Extremos(rel)}
        /\ \A rel \in Elementos(Imagen.relaciones) : Extremos(rel) \subseteq Nombres(Imagen)
Leida == Importada /\ Repetible

\* The line of a relation that is planned with its key at the origin, where an
\* attribute is named for it, and created with many at the destination, which
\* was not read.
LadoPerdido(x) ==
    /\ x.tipo = "relacion" /\ x.claseFk = x.origen /\ x.origen # x.destino
    /\ \E rel \in Elementos(Imagen.relaciones) :
          rel.forma = "1?" /\ rel.origen = x.origen /\ rel.destino = x.destino

\* Every step of the plan is carried out but the relations that lose the side
\* of their key when their cardinalities are normalized: what the planner
\* settled about all other sides, keys and structures is what the executor and
\* the domain accept.
ImagenCompleta ==
    Importada => \A i \in DOMAIN Obra.pasos :
        Obra.pasos[i] = "completado" <=> ~LadoPerdido(importacion.plan[i])

\* Every recognised class is there once, whether it was created, there before
\* or made as the intermediate class of a structure.
CadaClaseUnaVez ==
    Leida => \A n \in Nombres(Imagen) :
        Cardinality(Quedan(n)) = 1 /\ Quedan(n) \subseteq DOMAIN Obra.clases

\* A class an import makes, be it an intermediate one, gets every attribute
\* that was recognised in it but its key and those named after a class it ended
\* up joined to.  The column taken for the key of a relation that turns out
\* many to many, for want of a cardinality at its destination, is lost.
Unidas(e, c) ==
    UNION {{rel.origen, rel.destino} : rel \in {x \in Elementos(e.relaciones) :
                                                   c \in {x.origen, x.destino}}}
NuevasCompletas ==
    Importada /\ importacion.vez = 1 => \A c \in Elementos(Imagen.clases) :
        \A id \in Quedan(c.nombre) \ DOMAIN importacion.previo.clases :
            \A a \in Elementos(c.atributos) :
               \/ EsLlave(a, c.nombre) \/ Tiene(Obra, id, a.nombre)
               \/ \E x \in Unidas(Obra, id) :
                     LET n == Obra.clases[x].nombre
                     IN LoDice(a, n) \/ LoLlama(a, n, TRUE) \/ LoMenciona(a, n)
               \/ \E rel \in Elementos(Imagen.relaciones) :
                     rel.forma = "N?" /\ rel.origen = c.nombre /\ a = ClaveLeida(Imagen, rel)

\* Pictures with one column for each key: the only column that is marked as a
\* key is taken for that of every relation without one.
ClavesPropias ==
    \A i, j \in DOMAIN Imagen.relaciones :
        LET Clave(k) == ClaveLeida(Imagen, Imagen.relaciones[k])
        IN Clave(i) = Clave(j) => i = j \/ Clave(i) = SinAtributo

\* No class gets two columns of one name, nor a column beside the key that
\* plays its part, and no column is the key to two classes.
ColumnasUnicas ==
    Leida /\ ClavesPropias => \A c \in DOMAIN Obra.clases :
        LET as == Obra.clases[c].atributos
            ClavesA(x) == {rel \in Elementos(Obra.relaciones) :
                             rel.fk.clase = c /\ x \in {rel.origen, rel.destino}}
        IN /\ \A i, j \in DOMAIN as : as[i].nombre = as[j].nombre => i = j
           /\ \A a \in Elementos(as), x \in DOMAIN Obra.clases :
                 a.papel = "manual" /\ x # c /\ ClavesA(x) # {}
                     /\ CoincideNombreFk(a.nombre, Obra.clases[x].nombre, FALSE)
                 => \E rel \in ClavesA(x) : rel.fk.nombre = a.nombre
           /\ \A x, y \in DOMAIN Obra.clases \ {c} : x # y =>
                 \A p \in ClavesA(x), q \in ClavesA(y) : p.fk.nombre # q.fk.nombre

\* Importing the same picture again leaves the diagram as it was.
RepetirNoAnade ==
    Leida /\ importacion.vez = 2 =>
        Sobre(Obra, <<>>) = Sobre(importacion.previo, <<>>)
================================================================================
