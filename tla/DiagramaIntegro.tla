---------------------------- MODULE DiagramaIntegro ----------------------------
(***************************************************************************)
(* What every mutation of a diagram owes to the rest of it, whatever the   *)
(* operation: what it adds fits, what it rewrites keeps its place, and     *)
(* what it removes takes along all that depended on it.                    *)
(***************************************************************************)
EXTENDS Diagrama

VARIABLES
    d,
    pisado  \* whether something was created under an id that was not new

Init == d = Vacio /\ pisado = FALSE

\* e is d with more rows, or with fewer.
Extiende(f, g) == DOMAIN f \subseteq DOMAIN g /\ \A x \in DOMAIN f : g[x] = f[x]
Amplia(e) ==
    /\ d.clases \subseteq e.clases
    /\ Extiende(d.atributos, e.atributos)
    /\ Extiende(d.relaciones, e.relaciones)
    /\ Extiende(d.referencias, e.referencias)
    /\ Extiende(d.estructuras, e.estructuras)
Recorta(e) ==
    /\ DOMAIN e = DOMAIN d
    /\ e.clases \subseteq d.clases
    /\ Extiende(e.atributos, d.atributos)
    /\ Extiende(e.relaciones, d.relaciones)
    /\ Extiende(e.referencias, d.referencias)
    /\ Extiende(e.estructuras, d.estructuras)

Agregar ==
    /\ EsDiagrama(d') /\ Amplia(d')
    /\ \A a \in DOMAIN d'.atributos \ DOMAIN d.atributos : AtributoBien(d', a) /\ ForaneaBien(d', a)
    /\ \A r \in DOMAIN d'.relaciones \ DOMAIN d.relaciones : RelacionBien(d', r)
    /\ \A f \in DOMAIN d'.referencias \ DOMAIN d.referencias : ReferenciaBien(d', f)
    /\ \A n \in DOMAIN d'.estructuras \ DOMAIN d.estructuras : EstructuraBien(d', n)

\* An attribute is rewritten in its class, as one the user made.
Reescribir ==
    \E a \in DOMAIN d.atributos : \E u \in BOOLEAN :
        d' = [d EXCEPT !.atributos[a] = Manual(@.clase, u)]

\* Nothing left behind depends on something taken away.
NadaCuelga(e) ==
    /\ \A a \in DOMAIN e.atributos : d.atributos[a].clase \in e.clases
    /\ \A r \in DOMAIN e.relaciones : Extremos(d.relaciones[r]) \subseteq e.clases
    /\ \A f \in DOMAIN e.referencias :
         LET ref == d.referencias[f]
         IN ref.relacion \in DOMAIN e.relaciones
            /\ {ref.fk, ref.referenciado} \subseteq DOMAIN e.atributos
    /\ \A n \in DOMAIN e.estructuras :
         LET nm == d.estructuras[n]
         IN ClasesDe(nm) \subseteq e.clases
            /\ {nm.relOrigen, nm.relDestino} \subseteq DOMAIN e.relaciones
\* A relation does not outlive its materialization...
NadaSinMaterializar(e) ==
    \A r \in DOMAIN e.relaciones :
        \/ ~RequiereMaterializacion(d.relaciones[r])
        \/ \E f \in ReferenciasDe(d, r) \cap DOMAIN e.referencias : Materializa(d, d.referencias[f])
\* ... nor the key made for a reference the last one that used it.
NadaSobra(e) ==
    \A f \in DOMAIN d.referencias \ DOMAIN e.referencias :
        LET a == d.referencias[f].fk
        IN a \in DOMAIN e.atributos /\ ForaneaPura(d.atributos[a])
             => ReferenciasCon(d, a) \cap DOMAIN e.referencias # {}

Quitar == Recorta(d') /\ NadaCuelga(d') /\ NadaSinMaterializar(d') /\ NadaSobra(d')

\* What comes under an id that is in use, or of a deleted row, may point to
\* nothing and may change what others point to.  Yet no row goes, no
\* attribute passes to another class and no reference to another relation.
Conserva(f, g, duenno) ==
    DOMAIN f \subseteq DOMAIN g /\ \A x \in DOMAIN f : g[x][duenno] = f[x][duenno]
Pisar ==
    /\ EsDiagrama(d')
    /\ d.clases \subseteq d'.clases
    /\ Conserva(d.atributos, d'.atributos, "clase")
    /\ Conserva(d.referencias, d'.referencias, "relacion")
    /\ DOMAIN d.relaciones \subseteq DOMAIN d'.relaciones
    /\ Extiende(d.estructuras, d'.estructuras)

Next ==
    /\ ~pisado
    /\ \/ (Agregar \/ Reescribir \/ Quitar) /\ UNCHANGED pisado
       \/ Pisar /\ pisado' = TRUE

Spec == Init /\ [][Next]_<<d, pisado>>

\* However long the sequence of mutations, the diagram fits together while
\* every creation comes under a new id.
SiempreIntegro == ~pisado => Integro(d)
================================================================================
