------------------------- MODULE DiagramaIntegro_proofs -------------------------
(***************************************************************************)
(* Whatever the rows and their ids, a diagram whose mutations add what     *)
(* fits, rewrite in place and remove what hangs is whole until something   *)
(* comes under an id that was not new.                                     *)
(*                                                                         *)
(* Integro is inductive together with the types: the foreign keys that     *)
(* NadaSobra spares are saved by the part of Integro that says that no     *)
(* reference points to a key made for another one.                         *)
(***************************************************************************)
EXTENDS DiagramaIntegro, TLAPS

IInv == EsDiagrama(d) /\ (~pisado => Integro(d))

LEMMA VacioBien == EsDiagrama(Vacio) /\ Integro(Vacio)
<1>1. /\ Vacio.clases = {} /\ DOMAIN Vacio.atributos = {}
      /\ DOMAIN Vacio.relaciones = {} /\ DOMAIN Vacio.referencias = {}
      /\ DOMAIN Vacio.estructuras = {}
  BY DEF Vacio
<1>2. EsDiagrama(Vacio)
  BY <1>1 DEF EsDiagrama, Tabla
<1>3. Integro(Vacio)
  BY <1>1 DEF Integro
<1>. QED BY <1>2, <1>3

---------------------------------------------------------------------------
\* Types.

LEMMA TiposReescribir == ASSUME EsDiagrama(d), Reescribir PROVE EsDiagrama(d')
<1>1. PICK a \in DOMAIN d.atributos, u \in BOOLEAN :
        d' = [d EXCEPT !.atributos[a] = Manual(d.atributos[a].clase, u)]
  BY DEF Reescribir
<1>2. DOMAIN d = {"clases", "atributos", "relaciones", "referencias", "estructuras"}
  BY DEF EsDiagrama, Vacio
<1>3. /\ DOMAIN d' = DOMAIN d /\ d'.clases = d.clases
      /\ d'.relaciones = d.relaciones /\ d'.referencias = d.referencias
      /\ d'.estructuras = d.estructuras
      /\ d'.atributos = [d.atributos EXCEPT ![a] = Manual(d.atributos[a].clase, u)]
  BY <1>1, <1>2
<1>4. Manual(d.atributos[a].clase, u) \in Atributo
  <2>1. d.atributos[a] \in Atributo
    BY DEF EsDiagrama, Tabla
  <2>. QED BY <2>1 DEF Manual, Atributo, Procedencias
<1>5. Tabla(d'.atributos, Atributos, Atributo)
  BY <1>3, <1>4 DEF EsDiagrama, Tabla
<1>. QED BY <1>3, <1>5 DEF EsDiagrama

LEMMA TiposQuitar == ASSUME EsDiagrama(d), Quitar PROVE EsDiagrama(d')
BY DEF Quitar, Recorta, Extiende, EsDiagrama, Tabla

---------------------------------------------------------------------------
\* Whether a reference materializes its relation is a matter of the
\* relation and of the classes of its two attributes.
LEMMA MismaMateria ==
    ASSUME NEW ref, Materializa(d, ref),
           {ref.fk, ref.referenciado} \subseteq DOMAIN d'.atributos,
           d'.relaciones[ref.relacion] = d.relaciones[ref.relacion],
           d'.atributos[ref.fk].clase = d.atributos[ref.fk].clase,
           d'.atributos[ref.referenciado].clase = d.atributos[ref.referenciado].clase
    PROVE  Materializa(d', ref)
BY DEF Materializa

---------------------------------------------------------------------------
\* What fits in a diagram still fits when it grows.

LEMMA MaterializaCrece ==
    ASSUME Amplia(d'), NEW r \in DOMAIN d.relaciones, Materializada(d, r)
    PROVE  Materializada(d', r)
<1>1. d'.relaciones[r] = d.relaciones[r]
  BY DEF Amplia, Extiende
<1>2. CASE ~RequiereMaterializacion(d.relaciones[r])
  BY <1>1, <1>2 DEF Materializada
<1>3. CASE \E f \in ReferenciasDe(d, r) : Materializa(d, d.referencias[f])
  <2>1. PICK f \in ReferenciasDe(d, r) : Materializa(d, d.referencias[f])
    BY <1>3
  <2>2. f \in ReferenciasDe(d', r) /\ d'.referencias[f] = d.referencias[f]
    BY DEF ReferenciasDe, Amplia, Extiende
  <2>3. d.referencias[f].relacion = r
    BY DEF ReferenciasDe
  <2>4. Materializa(d', d.referencias[f])
    BY <1>1, <2>1, <2>3 DEF Materializa, Amplia, Extiende
  <2>. QED BY <2>2, <2>4 DEF Materializada
<1>. QED BY <1>2, <1>3 DEF Materializada

LEMMA IntegroAgregar == ASSUME Integro(d), Agregar PROVE Integro(d')
<1>1. Amplia(d')
  BY DEF Agregar
<1>2. ASSUME NEW a \in DOMAIN d'.atributos
      PROVE  AtributoBien(d', a) /\ ForaneaBien(d', a)
  <2>1. CASE a \notin DOMAIN d.atributos
    BY <2>1 DEF Agregar
  <2>2. CASE a \in DOMAIN d.atributos
    <3>1. AtributoBien(d, a) /\ ForaneaBien(d, a)
      BY <2>2 DEF Integro
    <3>2. AtributoBien(d', a)
      BY <1>1, <2>2, <3>1 DEF AtributoBien, Amplia, Extiende
    <3>3. ForaneaBien(d', a)
      BY <1>1, <2>2, <3>1 DEF ForaneaBien, Amplia, Extiende
    <3>. QED BY <3>2, <3>3
  <2>. QED BY <2>1, <2>2
<1>3. ASSUME NEW r \in DOMAIN d'.relaciones PROVE RelacionBien(d', r)
  <2>1. CASE r \notin DOMAIN d.relaciones
    BY <2>1 DEF Agregar
  <2>2. CASE r \in DOMAIN d.relaciones
    <3>1. RelacionBien(d, r)
      BY <2>2 DEF Integro
    <3>2. Materializada(d', r)
      BY <1>1, <2>2, <3>1, MaterializaCrece DEF RelacionBien
    <3>3. Extremos(d'.relaciones[r]) \subseteq d'.clases
      BY <1>1, <2>2, <3>1 DEF RelacionBien, Amplia, Extiende
    <3>. QED BY <3>2, <3>3 DEF RelacionBien
  <2>. QED BY <2>1, <2>2
<1>4. ASSUME NEW f \in DOMAIN d'.referencias PROVE ReferenciaBien(d', f)
  <2>1. CASE f \notin DOMAIN d.referencias
    BY <2>1 DEF Agregar
  <2>2. CASE f \in DOMAIN d.referencias
    <3>1. ReferenciaBien(d, f)
      BY <2>2 DEF Integro
    <3>. QED BY <1>1, <2>2, <3>1 DEF ReferenciaBien, Amplia, Extiende
  <2>. QED BY <2>1, <2>2
<1>5. ASSUME NEW n \in DOMAIN d'.estructuras PROVE EstructuraBien(d', n)
  <2>1. CASE n \notin DOMAIN d.estructuras
    BY <2>1 DEF Agregar
  <2>2. CASE n \in DOMAIN d.estructuras
    <3>1. EstructuraBien(d, n)
      BY <2>2 DEF Integro
    <3>. QED BY <1>1, <2>2, <3>1 DEF EstructuraBien, Amplia, Extiende
  <2>. QED BY <2>1, <2>2
<1>. QED BY <1>2, <1>3, <1>4, <1>5 DEF Integro

---------------------------------------------------------------------------
\* An attribute rewritten in its class leaves every reference as it was.

LEMMA IntegroReescribir ==
    ASSUME EsDiagrama(d), Integro(d), Reescribir PROVE Integro(d')
<1>1. PICK a \in DOMAIN d.atributos, u \in BOOLEAN :
        d' = [d EXCEPT !.atributos[a] = Manual(d.atributos[a].clase, u)]
  BY DEF Reescribir
<1>2. DOMAIN d = {"clases", "atributos", "relaciones", "referencias", "estructuras"}
  BY DEF EsDiagrama, Vacio
<1>3. /\ d'.clases = d.clases /\ d'.relaciones = d.relaciones
      /\ d'.referencias = d.referencias /\ d'.estructuras = d.estructuras
      /\ d'.atributos = [d.atributos EXCEPT ![a] = Manual(d.atributos[a].clase, u)]
  BY <1>1, <1>2
<1>4. DOMAIN d'.atributos = DOMAIN d.atributos
  BY <1>3
<1>5. \A x \in DOMAIN d.atributos :
        /\ d'.atributos[x].clase = d.atributos[x].clase
        /\ ForaneaPura(d'.atributos[x]) => ForaneaPura(d.atributos[x])
  <2>1. SUFFICES ASSUME NEW x \in DOMAIN d.atributos
                 PROVE  /\ d'.atributos[x].clase = d.atributos[x].clase
                        /\ ForaneaPura(d'.atributos[x]) => ForaneaPura(d.atributos[x])
    OBVIOUS
  <2>2. CASE x = a
    <3>1. d'.atributos[x] = Manual(d.atributos[a].clase, u)
      BY <1>3, <2>2
    <3>. QED BY <2>2, <3>1 DEF Manual, ForaneaPura
  <2>3. CASE x # a
    BY <1>3, <2>3
  <2>. QED BY <2>2, <2>3
<1>6. ASSUME NEW x \in DOMAIN d'.atributos
      PROVE  AtributoBien(d', x) /\ ForaneaBien(d', x)
  <2>1. AtributoBien(d, x) /\ ForaneaBien(d, x)
    BY <1>4 DEF Integro
  <2>. QED BY <1>3, <1>4, <1>5, <2>1 DEF AtributoBien, ForaneaBien
<1>7. ASSUME NEW r \in DOMAIN d'.relaciones PROVE RelacionBien(d', r)
  <2>1. RelacionBien(d, r)
    BY <1>3 DEF Integro
  <2>2. ASSUME NEW f \in ReferenciasDe(d, r), Materializa(d, d.referencias[f])
        PROVE  Materializa(d', d.referencias[f])
    <3>1. {d.referencias[f].fk, d.referencias[f].referenciado} \subseteq DOMAIN d.atributos
      BY <2>2 DEF Materializa
    <3>. QED BY <1>3, <1>4, <1>5, <2>2, <3>1, MismaMateria
  <2>3. ReferenciasDe(d', r) = ReferenciasDe(d, r)
    BY <1>3 DEF ReferenciasDe
  <2>4. Materializada(d', r)
    BY <1>3, <2>1, <2>2, <2>3 DEF RelacionBien, Materializada
  <2>5. Extremos(d'.relaciones[r]) \subseteq d'.clases
    BY <1>3, <2>1 DEF RelacionBien
  <2>. QED BY <2>4, <2>5 DEF RelacionBien
<1>8. ASSUME NEW f \in DOMAIN d'.referencias PROVE ReferenciaBien(d', f)
  <2>1. ReferenciaBien(d, f)
    BY <1>3 DEF Integro
  <2>. QED BY <1>3, <1>4, <1>5, <2>1 DEF ReferenciaBien
<1>9. ASSUME NEW n \in DOMAIN d'.estructuras PROVE EstructuraBien(d', n)
  <2>1. EstructuraBien(d, n)
    BY <1>3 DEF Integro
  <2>. QED BY <1>3, <2>1 DEF EstructuraBien
<1>. QED BY <1>6, <1>7, <1>8, <1>9 DEF Integro

---------------------------------------------------------------------------
\* What is taken away takes along all that hung from it.

LEMMA IntegroQuitar == ASSUME Integro(d), Quitar PROVE Integro(d')
<1>1. /\ Recorta(d') /\ NadaCuelga(d')
      /\ NadaSinMaterializar(d') /\ NadaSobra(d')
  BY DEF Quitar
<1>2. ASSUME NEW a \in DOMAIN d'.atributos
      PROVE  AtributoBien(d', a) /\ ForaneaBien(d', a)
  <2>1. a \in DOMAIN d.atributos /\ d'.atributos[a] = d.atributos[a]
    BY <1>1 DEF Recorta, Extiende
  <2>2. AtributoBien(d', a)
    BY <1>1, <2>1 DEF NadaCuelga, AtributoBien
  <2>3. ASSUME ForaneaPura(d.atributos[a])
        PROVE  \E f \in DOMAIN d'.referencias : d'.referencias[f].fk = a
    <3>1. PICK f \in DOMAIN d.referencias : d.referencias[f].fk = a
      BY <2>1, <2>3 DEF Integro, ForaneaBien
    <3>2. CASE f \in DOMAIN d'.referencias
      BY <1>1, <3>1, <3>2 DEF Recorta, Extiende
    <3>3. CASE f \notin DOMAIN d'.referencias
      <4>1. PICK g \in ReferenciasCon(d, a) : g \in DOMAIN d'.referencias
        BY <1>1, <2>3, <3>1, <3>3 DEF NadaSobra
      <4>2. g \in DOMAIN d.referencias /\ Toca(d.referencias[g], a)
        BY <4>1 DEF ReferenciasCon
      <4>3. d.referencias[g].referenciado # a
        BY <2>3, <4>2 DEF Integro, ReferenciaBien
      <4>4. d.referencias[g].fk = a
        BY <4>2, <4>3 DEF Toca
      <4>. QED BY <1>1, <4>1, <4>4 DEF Recorta, Extiende
    <3>. QED BY <3>2, <3>3
  <2>. QED BY <2>1, <2>2, <2>3 DEF ForaneaBien
<1>3. ASSUME NEW r \in DOMAIN d'.relaciones PROVE RelacionBien(d', r)
  <2>1. r \in DOMAIN d.relaciones /\ d'.relaciones[r] = d.relaciones[r]
    BY <1>1 DEF Recorta, Extiende
  <2>2. Extremos(d'.relaciones[r]) \subseteq d'.clases
    BY <1>1, <2>1 DEF NadaCuelga
  <2>3. CASE ~RequiereMaterializacion(d.relaciones[r])
    BY <2>1, <2>2, <2>3 DEF RelacionBien, Materializada
  <2>4. CASE RequiereMaterializacion(d.relaciones[r])
    <3>1. PICK f \in ReferenciasDe(d, r) \cap DOMAIN d'.referencias :
            Materializa(d, d.referencias[f])
      BY <1>1, <2>4 DEF NadaSinMaterializar
    <3>2. /\ d'.referencias[f] = d.referencias[f]
          /\ d.referencias[f].relacion = r
      BY <1>1, <3>1 DEF Recorta, Extiende, ReferenciasDe
    <3>3. {d.referencias[f].fk, d.referencias[f].referenciado} \subseteq DOMAIN d'.atributos
      BY <1>1, <3>1 DEF NadaCuelga
    <3>4. Materializa(d', d.referencias[f])
      BY <1>1, <2>1, <3>1, <3>2, <3>3, MismaMateria DEF Recorta, Extiende
    <3>5. f \in ReferenciasDe(d', r)
      BY <3>1, <3>2 DEF ReferenciasDe
    <3>. QED BY <2>2, <3>2, <3>4, <3>5 DEF RelacionBien, Materializada
  <2>. QED BY <2>3, <2>4
<1>4. ASSUME NEW f \in DOMAIN d'.referencias PROVE ReferenciaBien(d', f)
  <2>1. f \in DOMAIN d.referencias /\ d'.referencias[f] = d.referencias[f]
    BY <1>1 DEF Recorta, Extiende
  <2>2. ReferenciaBien(d, f)
    BY <2>1 DEF Integro
  <2>3. /\ d.referencias[f].relacion \in DOMAIN d'.relaciones
        /\ {d.referencias[f].fk, d.referencias[f].referenciado} \subseteq DOMAIN d'.atributos
    BY <1>1 DEF NadaCuelga
  <2>. QED BY <1>1, <2>1, <2>2, <2>3 DEF ReferenciaBien, Recorta, Extiende
<1>5. ASSUME NEW n \in DOMAIN d'.estructuras PROVE EstructuraBien(d', n)
  <2>1. n \in DOMAIN d.estructuras /\ d'.estructuras[n] = d.estructuras[n]
    BY <1>1 DEF Recorta, Extiende
  <2>2. EstructuraBien(d, n)
    BY <2>1 DEF Integro
  <2>3. /\ ClasesDe(d.estructuras[n]) \subseteq d'.clases
        /\ {d.estructuras[n].relOrigen, d.estructuras[n].relDestino} \subseteq DOMAIN d'.relaciones
    BY <1>1 DEF NadaCuelga
  <2>. QED BY <1>1, <2>1, <2>2, <2>3 DEF EstructuraBien, Recorta, Extiende
<1>. QED BY <1>2, <1>3, <1>4, <1>5 DEF Integro

---------------------------------------------------------------------------
\* Every reachable diagram is well typed, and whole while every row came
\* under a new id.
THEOREM Inductivo == Spec => []IInv
<1>1. Init => IInv
  BY VacioBien DEF Init, IInv
<1>2. IInv /\ [Next]_<<d, pisado>> => IInv'
  <2>1. CASE UNCHANGED <<d, pisado>>
    BY <2>1 DEF IInv
  <2>2. ASSUME EsDiagrama(d), Integro(d), Agregar \/ Reescribir \/ Quitar
        PROVE  EsDiagrama(d') /\ Integro(d')
    <3>1. CASE Agregar
      BY <2>2, <3>1, IntegroAgregar DEF Agregar
    <3>2. CASE Reescribir
      BY <2>2, <3>2, TiposReescribir, IntegroReescribir
    <3>3. CASE Quitar
      BY <2>2, <3>3, TiposQuitar, IntegroQuitar
    <3>. QED BY <2>2, <3>1, <3>2, <3>3
  <2>3. ASSUME Pisar, pisado' = TRUE PROVE IInv'
    <3>1. EsDiagrama(d')
      BY <2>3 DEF Pisar
    <3>. QED BY <2>3, <3>1 DEF IInv
  <2>. QED BY <2>1, <2>2, <2>3 DEF IInv, Next
<1>. QED BY <1>1, <1>2, PTL DEF Spec

\* However the mutations follow one another, no relation, reference,
\* attribute or structure outlives what it depends on, and no key made for
\* a relation is left without a reference, while every creation comes under
\* a new id: what a mutation of the diagram owes to the rest
\* (cascadas_diagrama.py) is enough to keep it whole.
THEOREM SiempreEntero == Spec => []SiempreIntegro
<1>1. IInv => SiempreIntegro
  BY DEF IInv, SiempreIntegro
<1>. QED BY <1>1, Inductivo, PTL
=================================================================================
