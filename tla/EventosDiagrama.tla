---------------------------- MODULE EventosDiagrama ----------------------------
(***************************************************************************)
(* What the clients of a diagram are told of each mutation.  After the     *)
(* commit every route publishes the rows it says were created, changed or  *)
(* deleted; the clients apply them to what they show and do not read the   *)
(* diagram again.                                                          *)
(* Source: notificador_colaboracion.py, the routers of diagramas (the      *)
(* route "api"), procesar_operacion_diagrama.py ("operaciones"), the steps *)
(* of ejecutor_plan_ia.py ("ia") and obtener_diagrama.py.                  *)
(***************************************************************************)
EXTENDS ModeloDiagrama

\* Whether a client that showed the diagram before the last step shows it
\* after it, but for the exceptions of Atrasos.
VARIABLE alDia

\* ObtenerDiagrama: classes with their attributes, relations, with them their
\* references, and structures.  The events carry projections of the same form.
Vista(d) ==
    [clases |-> [c \in d.clases |-> [a \in AtributosDe(d, c) |-> d.atributos[a]]],
     relaciones |-> d.relaciones,
     referencias |-> [r \in DOMAIN d.relaciones |->
                         [f \in ReferenciasDe(d, r) |-> d.referencias[f]]],
     estructuras |-> d.estructuras]

\* A client puts in the rows that come and takes out those that went.
Aplicar(muestra, vista, cambian, caen) ==
    [x \in (DOMAIN muestra \cup cambian) \ caen |->
        IF x \in cambian THEN vista[x] ELSE muestra[x]]

(***************************************************************************)
(* Effects: ids to project from the new diagram, and ids that went.        *)
(***************************************************************************)
Ninguna == [clases |-> {}, relaciones |-> {}, estructuras |-> {}]

\* CierreCascadaResultado: what a cascade deleted, and the classes it may have
\* touched, which are those of the rows it deleted.
Caidas(d, e) ==
    [clases |-> d.clases \ e.clases,
     relaciones |-> DOMAIN d.relaciones \ DOMAIN e.relaciones,
     estructuras |-> DOMAIN d.estructuras \ DOMAIN e.estructuras]
ClasesModificadas(d, e) ==
    {d.atributos[a].clase : a \in DOMAIN d.atributos \ DOMAIN e.atributos}
    \cup (UNION {Extremos(d.relaciones[r]) : r \in Caidas(d, e).relaciones})
    \cup (UNION {Extremos(d.relaciones[d.referencias[f].relacion]) :
                    f \in DOMAIN d.referencias \ DOMAIN e.referencias})

\* What the routes fail to tell, by kind of request and table.  A reference
\* that goes with an attribute and leaves its relation standing is announced by
\* nobody; the REST route that deletes a reference announces neither the
\* relation that goes with it nor the key its class loses; and the assistant
\* projects none of the classes that lose a key with what it deletes.
Atrasos ==
    {<<"atributo", "referencias">>, <<"atributo ia", "referencias">>,
     <<"referencia", "clases">>, <<"referencia", "relaciones">>, <<"referencia", "referencias">>,
     <<"borrado ia", "clases">>, <<"atributo ia", "clases">>, <<"recreado", "clases">>}

\* construir_efectos, and its copy in the facade: a row that is gone is not
\* projected, and a relation is projected with its references.
Difunde(causa, cambian, caen) ==
    LET antes == Vista(diagrama)
        ahora == Vista(diagrama')
        Portadora(t) == IF t = "referencias" THEN "relaciones" ELSE t
        Muestra(t) == Aplicar(antes[t], ahora[t],
                              (cambian[Portadora(t)] \cap DOMAIN ahora[t]) \ caen[Portadora(t)],
                              caen[Portadora(t)])
    IN alDia' = \A t \in DOMAIN ahora : ahora[t] = Muestra(t) \/ <<causa, t>> \in Atrasos

DifundeClases(causa, clases) == Difunde(causa, [Ninguna EXCEPT !.clases = clases], Ninguna)
DifundeRelacion(causa, r, clases) ==
    Difunde(causa, [Ninguna EXCEPT !.relaciones = {r}, !.clases = clases], Ninguna)

\* What a cascade deleted, with some classes.
DifundeCaidas(causa, clases) ==
    Difunde(causa, [Ninguna EXCEPT !.clases = clases], Caidas(diagrama, diagrama'))

\* Slip: the classes a cascade touched are not projected.
DifundeSoloCaidas(causa) == DifundeCaidas(causa, {})

\* The facade and the REST routes project the classes the cascade touched.
DifundeCierre(causa) == DifundeCaidas(causa, ClasesModificadas(diagrama, diagrama'))

InitDifundido == Init /\ alDia = TRUE

Nuevas(t) == DOMAIN diagrama'[t] \ DOMAIN diagrama[t]
ClaseDe(a) == {diagrama.atributos[a].clase}
Borrado == \/ \E r \in Relaciones : EliminarRelacion(r)
           \/ \E c \in Clases : EliminarClase(c)
           \/ \E n \in Estructuras : EliminarEstructuraNm(n)

\* By any route, except where one of them is named.
MutacionDifundida ==
    \/ CrearClase /\ DifundeClases("clase", diagrama'.clases \ diagrama.clases)
    \/ \E c \in Clases, u \in BOOLEAN : CrearAtributo(c, u) /\ DifundeClases("atributo", {c})
    \/ \E a \in Atributos, u \in BOOLEAN \cup {Nulo} :
          ActualizarAtributo(a, u) /\ DifundeClases("atributo", ClaseDe(a))
    \* The facade projects the class the request names, whosever the row is.
    \/ \E a \in Atributos, u \in BOOLEAN, c \in diagrama.clases :
          RecrearAtributo(a, u) /\ DifundeClases("recreado", {c})
    \/ \E a \in Atributos :
          \/ EliminarAtributoApi(a) /\ DifundeCierre("atributo")
          \/ /\ EliminarAtributo(a)
             /\ \/ DifundeCierre("atributo")
                \* The assistant projects the class of the attribute alone.
                \/ /\ diagrama.atributos[a].procedencia = "manual"
                   /\ DifundeCaidas("atributo ia", ClaseDe(a))
    \/ \E ref \in Referencia :
          CrearReferencia(ref) /\ DifundeRelacion("relacion", ref.relacion, {})
    \* A relation that went with its reference is neither projected nor announced.
    \/ \E f \in Referencias :
          EliminarReferencia(f) /\ DifundeRelacion("referencia", diagrama.referencias[f].relacion, {})
    \* The class that receives the key or, by the assistant, both ends.
    \/ \E rel \in RelacionPedida :
          /\ CrearRelacion(rel)
          /\ \E clases \in {{diagrama'.atributos[a].clase : a \in Nuevas("atributos")}, Extremos(rel)} :
                \A r \in Nuevas("relaciones") : DifundeRelacion("relacion", r, clases)
    \/ \E ro, rd \in Atributos :
          /\ CrearEstructuraNm(ro, rd)
          /\ Difunde("estructura", [clases |-> diagrama'.clases \ diagrama.clases,
                                    relaciones |-> Nuevas("relaciones"),
                                    estructuras |-> Nuevas("estructuras")], Ninguna)
    \* The assistant projects no class.
    \/ Borrado /\ (DifundeCierre("borrado") \/ DifundeCaidas("borrado ia", {}))

\* Nothing is said of the clients after a creation under an id not drawn.
NextDifundido ==
    /\ ~pisado
    /\ \/ MutacionDifundida /\ UNCHANGED pisado
       \/ Pisar /\ pisado' = TRUE /\ UNCHANGED alDia

SpecDifundida == InitDifundido /\ [][NextDifundido]_<<diagrama, pisado, alDia>>

(***************************************************************************)
(* What the clients may rely on.                                           *)
(***************************************************************************)
\* Whoever showed the diagram before a mutation shows it after, whatever its
\* cascades took along, save for the exceptions of Atrasos: the events of every
\* other route carry all that changed.  Creations under ids that were not
\* drawn are out of this: rows they write over are announced by nobody.
ClientesAlDia == ~pisado => alDia
================================================================================
