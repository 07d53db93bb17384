------------------------------ MODULE AsistenteIA ------------------------------
(***************************************************************************)
(* The requests to the assistant: a text, a recording, a picture of a      *)
(* diagram or a mere transcription, from the idempotency lookup to the     *)
(* interaction that is closed, through the models and their circuit        *)
(* breakers and the plan that is executed on the diagram.                  *)
(* Source: procesar_mensaje_ia.py, procesar_audio_diagrama_ia.py,          *)
(* procesar_imagen_diagrama_ia.py, transcribir_audio_ia.py,                *)
(* estrategia_modelos_gemini.py, ejecutor_plan_ia.py, the interaction      *)
(* repository and interaccion_ia_router.py.                                *)
(*                                                                         *)
(* A text is served by a thread of its own; the other three endpoints are  *)
(* coroutines that never suspend while they work, so that the event loop   *)
(* serves one of them at a time.  Every request has one session, shared by *)
(* the interaction and by the use cases the plan calls.  One user and one  *)
(* diagram: the unique index is then on the key.  A request refused for    *)
(* want of permission or for its file changes nothing and is not modelled. *)
(***************************************************************************)
EXTENDS Naturals, Sequences, FiniteSets

CONSTANTS
    Hilos,       \* requests that may be in flight together
    Claves,      \* idempotency keys
    NumModelos,  \* length of the cascade of models
    Umbral,      \* failures_threshold
    Planes,      \* plans the models may propose, as sequences of TiposPaso
    Nulo         \* None

\* What the executor tells apart in an action.  It goes on after the refusal
\* of a relation, or of an attribute or a structure ("suelto"), and omits
\* the rest after that of any other ("ligado").
TiposPaso == {"relacion", "suelto", "ligado"}

Modelos == 1..NumModelos
ConClave == {"texto", "audio", "imagen"}
Tipos == ConClave \cup {"transcripcion"}
Salidas == {"exito", "recuperable", "no recuperable"}
Abiertas == {"PENDIENTE", "PROCESANDO"}
Cerradas == {"COMPLETADO", "ERROR"}
Resultados == {"completado", "rechazado", "fallido", "omitido"}
Lugares == {"consulta", "crea", "procesa", "contexto", "elige", "llama", "interpreta",
            "ejecuta", "completa", "disculpa", "error"}

PasoInfo == [tipo : TiposPaso, estado : Resultados]
Efecto == [paso : Nat, completo : BOOLEAN]
Corte == [estado : {"CLOSED", "OPEN", "HALF_OPEN"}, fallos : Nat, fresco : BOOLEAN]
Cerrado == [estado |-> "CLOSED", fallos |-> 0, fresco |-> FALSE]
Interaccion == [tipo : ConClave, estado : Abiertas \cup Cerradas, detalle : Seq(PasoInfo)]
Peticion == [lugar : Lugares, tipo : Tipos, clave : Claves \cup {Nulo},
             modelo : Nat, sonda : BOOLEAN,
             plan : Seq(TiposPaso), detalle : Seq(PasoInfo)]

ASSUME ConstantesAssumption ==
    /\ NumModelos \in Nat /\ Umbral \in Nat \ {0}
    /\ Planes \subseteq Seq(TiposPaso)
    /\ Nulo \notin Claves \cup Peticion \cup Interaccion
    /\ Nulo \notin [estado : Abiertas \cup Cerradas, hechos : Seq(Efecto)]

VARIABLES
    pet,        \* what each thread is doing or Nulo
    tabla,      \* interacciones_ia by key
    cortes,     \* the circuit breaker of each model
    sesion,     \* effects in the session of a thread that are not committed
    aplicado,   \* history: effects of the plan of a key committed to the diagram
    cortadas    \* history: keys whose request died or lost the database

vars == <<pet, tabla, cortes, sesion, aplicado, cortadas>>
datos == <<tabla, sesion, aplicado, cortadas>>

Libre == [h \in Hilos |-> Nulo]
Init ==
    /\ pet = Libre
    /\ tabla = [k \in Claves |-> Nulo]
    /\ cortes = [m \in Modelos |-> Cerrado]
    /\ sesion = [h \in Hilos |-> <<>>]
    /\ aplicado = [k \in Claves |-> <<>>]
    /\ cortadas = {}

En(h, lugar) == pet[h] # Nulo /\ pet[h].lugar = lugar
Sigue(h, lugar) == pet' = [pet EXCEPT ![h].lugar = lugar]
\* The request is answered and its session closed.
Termina(h) == pet' = [pet EXCEPT ![h] = Nulo]
BucleOcupado == \E h \in Hilos : pet[h] # Nulo /\ pet[h].tipo # "texto"

(***************************************************************************)
(* From the arrival to the interaction being processed.                    *)
(***************************************************************************)
Llegar(h, tipo, clave) ==
    /\ pet[h] = Nulo
    /\ tipo # "texto" => ~BucleOcupado
    /\ (clave = Nulo) = (tipo = "transcripcion")
    /\ pet' = [pet EXCEPT ![h] =
         [lugar |-> IF tipo = "transcripcion" THEN "elige" ELSE "consulta",
          tipo |-> tipo, clave |-> clave, modelo |-> 1, sonda |-> FALSE,
          plan |-> <<>>, detalle |-> <<>>]]
    /\ UNCHANGED <<datos, cortes>>

\* A key that is known is answered with its interaction, whatever became of
\* it, or refused when it was used for another type or another text: nothing
\* is written either way.
Consultar(h) ==
    /\ En(h, "consulta")
    /\ IF tabla[pet[h].clave] = Nulo THEN Sigue(h, "crea") ELSE Termina(h)
    /\ UNCHANGED <<datos, cortes>>

\* Slip: the table has no unique index.
ChocaNunca(k) == FALSE

\* guardar and commit of the interaction, PENDIENTE; the unique index keeps
\* out the second of two.
Choca(k) == tabla[k] # Nulo
Crear(h) ==
    /\ En(h, "crea")
    /\ LET k == pet[h].clave
       IN IF Choca(k)
          THEN Termina(h) /\ UNCHANGED tabla
          ELSE /\ tabla' = [tabla EXCEPT ![k] =
                    [tipo |-> pet[h].tipo, estado |-> "PENDIENTE", detalle |-> <<>>]]
               /\ Sigue(h, IF pet[h].tipo = "texto" THEN "contexto" ELSE "procesa")
    /\ UNCHANGED <<sesion, aplicado, cortadas, cortes>>

\* A text builds its context before it is marked PROCESANDO, a recording
\* after, a picture needs none.
Procesar(h) ==
    /\ En(h, "procesa")
    /\ tabla' = [tabla EXCEPT ![pet[h].clave].estado = "PROCESANDO"]
    /\ Sigue(h, IF pet[h].tipo = "audio" THEN "contexto" ELSE "elige")
    /\ UNCHANGED <<sesion, aplicado, cortadas, cortes>>

ConstruirContexto(h) ==
    /\ En(h, "contexto")
    /\ Sigue(h, IF pet[h].tipo = "texto" THEN "procesa" ELSE "elige")
    /\ UNCHANGED <<datos, cortes>>

(***************************************************************************)
(* The cascade of models.  The breakers belong to the process and nothing  *)
(* guards them: between the evaluation of one and the answer of its model  *)
(* other threads evaluate it and record their own answers.                 *)
(***************************************************************************)
Bloquea(c) == c.estado = "OPEN" /\ c.fresco
Evaluado(c) == IF c.estado = "OPEN" /\ ~c.fresco THEN [c EXCEPT !.estado = "HALF_OPEN"] ELSE c

\* Slip: the threshold is passed one failure late.
TrasFalloTarde(c, sonda) ==
    IF sonda THEN [c EXCEPT !.estado = "OPEN", !.fresco = TRUE]
    ELSE IF c.fallos >= Umbral
         THEN [estado |-> "OPEN", fallos |-> c.fallos + 1, fresco |-> TRUE]
         ELSE [c EXCEPT !.fallos = @ + 1, !.fresco = (c.estado = "OPEN")]

TrasFallo(c, sonda) ==
    IF sonda THEN [c EXCEPT !.estado = "OPEN", !.fresco = TRUE]
    ELSE IF c.fallos + 1 >= Umbral
         THEN [estado |-> "OPEN", fallos |-> c.fallos + 1, fresco |-> TRUE]
         ELSE [c EXCEPT !.fallos = @ + 1, !.fresco = (c.estado = "OPEN")]

Elegir(h) ==
    /\ En(h, "elige") /\ pet[h].modelo \in Modelos
    /\ LET m == pet[h].modelo
           c == Evaluado(cortes[m])
       IN IF Bloquea(c)
          THEN pet' = [pet EXCEPT ![h].modelo = m + 1] /\ UNCHANGED cortes
          ELSE /\ cortes' = [cortes EXCEPT ![m] = c]
               /\ pet' = [pet EXCEPT ![h] = [@ EXCEPT !.lugar = "llama",
                                                      !.sonda = (c.estado = "HALF_OPEN")]]
    /\ UNCHANGED datos

\* The cascade returns or raises; a transcription has nothing left to do.
Sale(h, lugar) ==
    IF pet[h].tipo = "transcripcion" THEN Termina(h)
    ELSE pet' = [pet EXCEPT ![h] = [@ EXCEPT !.lugar = lugar, !.modelo = 1, !.sonda = FALSE]]

Agotar(h) ==
    /\ En(h, "elige") /\ pet[h].modelo \notin Modelos
    /\ Sale(h, "error")
    /\ UNCHANGED <<datos, cortes>>

\* Slip: a model that fails is asked again until its breaker opens.
ContestarInsiste(h, salida) ==
    /\ En(h, "llama")
    /\ LET m == pet[h].modelo
       IN \/ /\ salida = "exito"
             /\ cortes' = [cortes EXCEPT ![m] = Cerrado]
             /\ Sale(h, "interpreta")
          \/ /\ salida = "recuperable"
             /\ cortes' = [cortes EXCEPT ![m] = TrasFallo(@, pet[h].sonda)]
             /\ pet' = [pet EXCEPT ![h] = [@ EXCEPT !.lugar = "elige", !.sonda = FALSE]]
          \/ salida = "no recuperable" /\ Sale(h, "error") /\ UNCHANGED cortes
    /\ UNCHANGED datos

Contestar(h, salida) ==
    /\ En(h, "llama")
    /\ LET m == pet[h].modelo
       IN \/ /\ salida = "exito"
             /\ cortes' = [cortes EXCEPT ![m] = Cerrado]
             /\ Sale(h, "interpreta")
          \/ /\ salida = "recuperable"
             /\ cortes' = [cortes EXCEPT ![m] = TrasFallo(@, pet[h].sonda)]
             /\ pet' = [pet EXCEPT ![h] = [@ EXCEPT !.lugar = "elige", !.modelo = m + 1,
                                                    !.sonda = FALSE]]
          \/ salida = "no recuperable" /\ Sale(h, "error") /\ UNCHANGED cortes
    /\ UNCHANGED datos

\* breaker_cooldown_seconds go by.
Enfriar(m) ==
    /\ cortes[m].fresco
    /\ cortes' = [cortes EXCEPT ![m].fresco = FALSE]
    /\ UNCHANGED <<pet, datos>>

(***************************************************************************)
(* The answer and its plan.                                                *)
(***************************************************************************)
\* What a plan that cannot be had becomes: a text excuses itself for a plan
\* that is wrong and fails for an answer that is not JSON; a picture excuses
\* itself for both and fails if its planning breaks; a recording fails for all
\* of these, and for silence.
TrasInvalida(tipo) ==
    IF tipo \in {"texto", "imagen"} THEN {"disculpa", "error"} ELSE {"error"}

Rechazar(h) ==
    /\ En(h, "interpreta")
    /\ \E lugar \in TrasInvalida(pet[h].tipo) : Sigue(h, lugar)
    /\ UNCHANGED <<datos, cortes>>

AceptarPlan(h, plan) ==
    /\ En(h, "interpreta")
    /\ pet' = [pet EXCEPT ![h] =
         [@ EXCEPT !.plan = plan, !.lugar = IF plan = <<>> THEN "completa" ELSE "ejecuta"]]
    /\ UNCHANGED <<datos, cortes>>

\* The result of the next step and, if the loop breaks, of those after it.
PasoActual(h) == Len(pet[h].detalle) + 1
TipoActual(h) == pet[h].plan[PasoActual(h)]
Info(h, estado) == [tipo |-> TipoActual(h), estado |-> estado]
\* Slip: the step that stopped the plan is omitted too.
OmitidosConEl(h) ==
    [i \in 1..(Len(pet[h].plan) - PasoActual(h) + 1) |->
        [tipo |-> pet[h].plan[PasoActual(h) + i - 1], estado |-> "omitido"]]
Omitidos(h) ==
    [i \in 1..(Len(pet[h].plan) - PasoActual(h)) |->
        [tipo |-> pet[h].plan[PasoActual(h) + i], estado |-> "omitido"]]
Sigan(h, nuevos) ==
    LET detalle == pet[h].detalle \o nuevos
    IN pet' = [pet EXCEPT ![h] =
         [@ EXCEPT !.detalle = detalle,
                   !.lugar = IF Len(detalle) = Len(pet[h].plan) THEN "completa" ELSE "ejecuta"]]
EfectoDe(h, completo) == <<[paso |-> PasoActual(h), completo |-> completo]>>

\* commit writes whatever the session holds.
Confirma(h, nuevos) ==
    /\ aplicado' = [aplicado EXCEPT ![pet[h].clave] = @ \o sesion[h] \o nuevos]
    /\ sesion' = [sesion EXCEPT ![h] = <<>>]

\* The use case commits and then the executor reads back what it made, to tell
\* the others: if a query fails, the step is reported failed and stays.
Efectuar(h, nuevos) ==
    /\ En(h, "ejecuta")
    /\ Confirma(h, EfectoDe(h, TRUE))
    /\ Sigan(h, nuevos)
    /\ UNCHANGED <<tabla, cortes, cortadas>>
Completar(h) == Efectuar(h, <<Info(h, "completado")>>)
FallarTrasConfirmar(h) == Efectuar(h, <<Info(h, "fallido")>> \o Omitidos(h))

\* Slip: any refusal lets the plan go on.
DesestimarSigue(h, resto) ==
    /\ En(h, "ejecuta")
    /\ resto => TipoActual(h) = "relacion"
    /\ sesion' = [sesion EXCEPT ![h] = IF resto THEN @ \o EfectoDe(h, FALSE) ELSE @]
    /\ Sigan(h, <<Info(h, "rechazado")>>)
    /\ UNCHANGED <<tabla, cortes, aplicado, cortadas>>

\* A DomainException does not roll back: CrearRelacion has saved the
\* relation, and perhaps its key, by the time it finds that they do not
\* materialize it.
Desestimar(h, resto) ==
    /\ En(h, "ejecuta")
    /\ resto => TipoActual(h) = "relacion"
    /\ sesion' = [sesion EXCEPT ![h] = IF resto THEN @ \o EfectoDe(h, FALSE) ELSE @]
    /\ Sigan(h, <<Info(h, "rechazado")>>
                  \o IF TipoActual(h) = "ligado" THEN Omitidos(h) ELSE <<>>)
    /\ UNCHANGED <<tabla, cortes, aplicado, cortadas>>

\* Any other exception before the commit: of the commit itself, which rolls
\* back, or of the code.
Fallar(h, revierte) ==
    /\ En(h, "ejecuta")
    /\ sesion' = [sesion EXCEPT ![h] = IF revierte THEN <<>> ELSE @]
    /\ Sigan(h, <<Info(h, "fallido")>> \o Omitidos(h))
    /\ UNCHANGED <<tabla, cortes, aplicado, cortadas>>

(***************************************************************************)
(* The interaction is closed and the request answered.                     *)
(***************************************************************************)
Cierra(h, estado, detalle) ==
    /\ tabla' = [tabla EXCEPT ![pet[h].clave] =
                    [@ EXCEPT !.estado = estado, !.detalle = detalle]]
    /\ Confirma(h, <<>>)
    /\ Termina(h)
    /\ UNCHANGED <<cortes, cortadas>>

\* Slip: the excuse is answered and not saved.
DisculparseSinGuardar(h) ==
    /\ En(h, "disculpa") /\ Termina(h)
    /\ UNCHANGED <<datos, cortes>>

CerrarCompleta(h) == En(h, "completa") /\ Cierra(h, "COMPLETADO", pet[h].detalle)
Disculparse(h) == En(h, "disculpa") /\ Cierra(h, "COMPLETADO", <<>>)
CerrarConError(h) == En(h, "error") /\ Cierra(h, "ERROR", <<>>)

(***************************************************************************)
(* Failures of the database, and of the process.                           *)
(***************************************************************************)
\* The commit that closes fails inside the try: it rolls back and the
\* handler closes with an error.  Elsewhere nobody is left to close.
FallarCierre(h) ==
    /\ En(h, "completa")
    /\ sesion' = [sesion EXCEPT ![h] = <<>>]
    /\ pet' = [pet EXCEPT ![h] = [@ EXCEPT !.lugar = "error", !.plan = <<>>, !.detalle = <<>>]]
    /\ UNCHANGED <<tabla, aplicado, cortadas, cortes>>

PerderBase(h) ==
    /\ pet[h] # Nulo
    /\ pet[h].lugar \in {"consulta", "crea", "procesa", "contexto", "ejecuta", "disculpa", "error"}
    /\ cortadas' = IF pet[h].lugar \in {"consulta", "crea"}
                   THEN cortadas ELSE cortadas \cup {pet[h].clave}
    /\ sesion' = [sesion EXCEPT ![h] = <<>>]
    /\ Termina(h)
    /\ UNCHANGED <<tabla, aplicado, cortes>>

Caer ==
    /\ pet # Libre
    /\ pet' = Libre
    /\ cortes' = [m \in Modelos |-> Cerrado]
    /\ sesion' = [h \in Hilos |-> <<>>]
    /\ cortadas' = cortadas \cup
         {pet[h].clave : h \in {g \in Hilos : pet[g] # Nulo /\ pet[g].tipo \in ConClave}}
    /\ UNCHANGED <<tabla, aplicado>>

Avanza(h) ==
    \/ Consultar(h) \/ Crear(h) \/ Procesar(h) \/ ConstruirContexto(h)
    \/ Elegir(h) \/ Agotar(h) \/ \E salida \in Salidas : Contestar(h, salida)
    \/ Rechazar(h) \/ \E plan \in Planes : AceptarPlan(h, plan)
    \/ Completar(h) \/ FallarTrasConfirmar(h)
    \/ \E resto \in BOOLEAN : Desestimar(h, resto)
    \/ \E revierte \in BOOLEAN : Fallar(h, revierte)
    \/ CerrarCompleta(h) \/ Disculparse(h) \/ CerrarConError(h) \/ FallarCierre(h)

Next ==
    \/ \E h \in Hilos : Avanza(h) \/ PerderBase(h)
    \/ \E h \in Hilos, tipo \in Tipos, clave \in Claves \cup {Nulo} : Llegar(h, tipo, clave)
    \/ \E m \in Modelos : Enfriar(m)
    \/ Caer

\* A thread or a coroutine that can go on does, and a call to a model ends,
\* if only by its timeout.
Spec == Init /\ [][Next]_vars /\ \A h \in Hilos : WF_vars(Avanza(h))

(***************************************************************************)
(* What the assistant promises.                                            *)
(***************************************************************************)
TypeOK ==
    /\ pet \in [Hilos -> Peticion \cup {Nulo}]
    /\ \A h \in Hilos : pet[h] # Nulo => Len(pet[h].detalle) <= Len(pet[h].plan)
    /\ tabla \in [Claves -> Interaccion \cup {Nulo}]
    /\ cortes \in [Modelos -> Corte]
    /\ sesion \in [Hilos -> Seq(Efecto)]
    /\ aplicado \in [Claves -> Seq(Efecto)]
    /\ cortadas \subseteq Claves

\* However many requests carry a key, and however they meet, their plan is
\* executed once, in order, while the interaction is being processed, and a
\* closed interaction is final: retries never touch the diagram again.
Unica == INSTANCE InteraccionUnica WITH
    interacciones <- [k \in Claves |-> IF tabla[k] = Nulo THEN Nulo
                                      ELSE [estado |-> tabla[k].estado, hechos |-> aplicado[k]]]
EsInteraccionUnica == Unica!Spec

\* An interaction that is open has exactly one request at work on it, unless
\* that request died or lost the database: no path of the three use cases
\* answers and forgets to close, and no two of them share an interaction.
Trabaja(h, k) == pet[h] # Nulo /\ pet[h].clave = k /\ pet[h].lugar \notin {"consulta", "crea"}
AbiertaAtendida ==
    \A k \in Claves :
        /\ tabla[k] # Nulo /\ tabla[k].estado \in Abiertas /\ k \notin cortadas
              => \E h \in Hilos : Trabaja(h, k)
        /\ \A h, otro \in Hilos : Trabaja(h, k) /\ Trabaja(otro, k) => h = otro
        /\ \A h \in Hilos : Trabaja(h, k) => tabla[k] # Nulo /\ tabla[k].estado \in Abiertas

\* The report the user is left with does not promise more than the diagram
\* has: the steps it calls done are committed, those committed are called done
\* or, when reading them back broke, failed, never refused nor omitted, and a
\* step is omitted exactly when one before failed, or was refused and others
\* could depend on it.
Fatal(info) == info.estado = "fallido" \/ (info.estado = "rechazado" /\ info.tipo = "ligado")
Hechos(k) ==
    {e.paso : e \in {aplicado[k][i] : i \in {j \in DOMAIN aplicado[k] : aplicado[k][j].completo}}}
Dichos(informe, estado) == {i \in DOMAIN informe : informe[i].estado = estado}
InformeVeraz ==
    \A k \in Claves : tabla[k] # Nulo /\ tabla[k].estado = "COMPLETADO" =>
        LET informe == tabla[k].detalle
        IN /\ Dichos(informe, "completado") \subseteq Hechos(k)
           /\ Hechos(k) \subseteq Dichos(informe, "completado") \cup Dichos(informe, "fallido")
           /\ \A i \in DOMAIN informe :
                 informe[i].estado = "omitido" <=> \E j \in 1..(i - 1) : Fatal(informe[j])

\* Threads that record failures and successes of one model in any order never
\* leave its breaker closed with the threshold passed, nor a closed one
\* waiting for its cooldown.
CorteCoherente ==
    \A m \in Modelos : cortes[m].estado = "CLOSED" => cortes[m].fallos < Umbral /\ ~cortes[m].fresco

\* Whoever is being served is answered: the cascade of models ends, and so
\* does the plan, whatever fails on the way.
TodaPeticionTermina == \A h \in Hilos : (pet[h] # Nulo) ~> (pet[h] = Nulo)
================================================================================
