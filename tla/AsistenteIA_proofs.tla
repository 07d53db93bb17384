--------------------------- MODULE AsistenteIA_proofs ---------------------------
(***************************************************************************)
(* Proofs about AsistenteIA, for any number of requests, keys, models and  *)
(* plans.                                                                  *)
(***************************************************************************)
EXTENDS AsistenteIA, SequenceTheorems, TLAPS

USE ConstantesAssumption

(***************************************************************************)
(* Where a request can be: what it needs of its row and of its plan.       *)
(***************************************************************************)
Antes == {"consulta", "crea"}
Etapa(lugar, tipo) ==
    IF lugar = "procesa" \/ (lugar = "contexto" /\ tipo = "texto")
    THEN "PENDIENTE" ELSE "PROCESANDO"
EnSuSitio(q) ==
    /\ (q.clave = Nulo) <=> (q.tipo = "transcripcion")
    /\ q.tipo = "transcripcion" => q.lugar \in {"elige", "llama"}
    /\ q.lugar = "ejecuta" => Len(q.detalle) < Len(q.plan)
    /\ q.lugar = "completa" => Len(q.detalle) = Len(q.plan)
    /\ q.lugar \notin {"ejecuta", "completa"} => q.detalle = <<>>
    /\ q.clave # Nulo /\ q.lugar \notin Antes =>
         /\ tabla[q.clave] # Nulo
         /\ tabla[q.clave].estado = Etapa(q.lugar, q.tipo)
Puestos == \A h \in Hilos : pet[h] # Nulo => EnSuSitio(pet[h])
Tipado ==
    /\ pet \in [Hilos -> Peticion \cup {Nulo}]
    /\ tabla \in [Claves -> Interaccion \cup {Nulo}]
    /\ cortes \in [Modelos -> Corte]
    /\ sesion \in [Hilos -> Seq(Efecto)]
    /\ aplicado \in [Claves -> Seq(Efecto)]
    /\ cortadas \subseteq Claves
Solos == \A k \in Claves, h, otro \in Hilos : Trabaja(h, k) /\ Trabaja(otro, k) => h = otro
Abierta(k) == tabla[k] # Nulo /\ tabla[k].estado \in Abiertas
Atendidas ==
    \A k \in Claves : Abierta(k) /\ k \notin cortadas => \E h \in Hilos : Trabaja(h, k)
Basico == Tipado /\ Puestos /\ Solos /\ Atendidas

LEMMA Inicio == Init => Basico
<1> SUFFICES ASSUME Init PROVE Basico
  OBVIOUS
<1>1. Tipado
  BY DEF Init, Tipado, Libre, Corte, Cerrado, Modelos
<1>2. Puestos /\ Solos /\ Atendidas
  BY DEF Init, Puestos, Solos, Atendidas, Abierta, Trabaja, Libre
<1> QED BY <1>1, <1>2 DEF Basico

\* What a request carries over when it moves to v.
Hereda(h, v) ==
    v # Nulo => /\ EnSuSitio(v)
                /\ v.clave # Nulo /\ v.lugar \notin Antes =>
                     pet[h] # Nulo /\ pet[h].clave = v.clave /\ pet[h].lugar \notin Antes

\* Nor does it leave its row unless it loses the database.
NoDeja(h, v) ==
    \A k \in Claves : Trabaja(h, k) /\ k \notin cortadas' =>
        v # Nulo /\ v.clave = k /\ v.lugar \notin Antes

LEMMA MueveBasico ==
    ASSUME Basico, NEW h \in Hilos, NEW v \in Peticion \cup {Nulo},
           pet' = [pet EXCEPT ![h] = v], Hereda(h, v), NoDeja(h, v), tabla' = tabla,
           cortes' \in [Modelos -> Corte], sesion' \in [Hilos -> Seq(Efecto)],
           aplicado' \in [Claves -> Seq(Efecto)],
           cortadas' \subseteq Claves, cortadas \subseteq cortadas'
    PROVE  Basico'
<1>1. pet' \in [Hilos -> Peticion \cup {Nulo}] /\ pet'[h] = v
      /\ \A g \in Hilos \ {h} : pet'[g] = pet[g]
  BY DEF Basico, Tipado
<1>2. Tipado'
  BY <1>1 DEF Basico, Tipado
<1>3. Puestos'
  BY <1>1 DEF Basico, Puestos, EnSuSitio, Hereda
<1>4. Solos'
  <2>1. \A k \in Claves, g \in Hilos : Trabaja(g, k)' => Trabaja(g, k)
    BY <1>1 DEF Trabaja, Hereda, Antes
  <2> QED BY <2>1 DEF Basico, Solos
<1>5. Atendidas'
  <2>1. ASSUME NEW k \in Claves, NEW g \in Hilos, Trabaja(g, k), k \notin cortadas'
        PROVE  Trabaja(g, k)'
    BY <1>1, <2>1 DEF Trabaja, NoDeja, Antes
  <2> QED BY <2>1 DEF Basico, Atendidas, Abierta
<1> QED BY <1>2, <1>3, <1>4, <1>5 DEF Basico

LEMMA LlegarBasico ==
    ASSUME Basico, NEW h \in Hilos, NEW tipo \in Tipos, NEW clave \in Claves \cup {Nulo},
           Llegar(h, tipo, clave)
    PROVE  Basico'
<1> DEFINE q == [lugar |-> IF tipo = "transcripcion" THEN "elige" ELSE "consulta",
                 tipo |-> tipo, clave |-> clave, modelo |-> 1, sonda |-> FALSE,
                 plan |-> <<>>, detalle |-> <<>>]
<1>1. q \in Peticion
  BY DEF Peticion, Lugares
<1>2. pet' = [pet EXCEPT ![h] = q] /\ UNCHANGED <<datos, cortes>>
      /\ ((clave = Nulo) <=> (tipo = "transcripcion"))
  BY DEF Llegar
<1>3. Hereda(h, q) /\ NoDeja(h, q)
  BY <1>2 DEF Llegar, Hereda, NoDeja, Trabaja, EnSuSitio, Antes
<1> QED
  BY <1>1, <1>2, <1>3, MueveBasico DEF Basico, Tipado, datos

\* A request that only goes to another place.
LEMMA SigueBasico ==
    ASSUME Basico, NEW h \in Hilos, pet[h] # Nulo, NEW lugar \in Lugares, Sigue(h, lugar),
           UNCHANGED <<datos, cortes>>, pet[h].tipo # "transcripcion",
           pet[h].lugar \in Antes <=> lugar \in Antes,
           {lugar, pet[h].lugar} \cap {"ejecuta", "completa"} = {},
           lugar \notin Antes => Etapa(lugar, pet[h].tipo) = Etapa(pet[h].lugar, pet[h].tipo)
    PROVE  Basico'
<1> DEFINE q == [pet[h] EXCEPT !.lugar = lugar]
<1>1. pet[h] \in Peticion /\ EnSuSitio(pet[h])
  BY DEF Basico, Tipado, Puestos
<1>0. q \in Peticion
  BY <1>1 DEF Peticion
<1>2. pet' = [pet EXCEPT ![h] = q]
  BY DEF Sigue
<1>3. q.lugar = lugar /\ q.tipo = pet[h].tipo /\ q.clave = pet[h].clave
      /\ q.detalle = pet[h].detalle
  BY <1>1 DEF Peticion
<1>4. Hereda(h, q) /\ NoDeja(h, q)
  BY <1>0, <1>1, <1>3 DEF Hereda, NoDeja, Trabaja, EnSuSitio, Antes
<1> QED
  BY <1>0, <1>2, <1>4, MueveBasico DEF Basico, Tipado, datos

\* A request that ends.
LEMMA TerminaBasico ==
    ASSUME Basico, NEW h \in Hilos, Termina(h), tabla' = tabla,
           \A k \in Claves \ cortadas' : ~Trabaja(h, k),
           cortes' \in [Modelos -> Corte], sesion' \in [Hilos -> Seq(Efecto)],
           aplicado' \in [Claves -> Seq(Efecto)],
           cortadas' \subseteq Claves, cortadas \subseteq cortadas'
    PROVE  Basico'
  BY MueveBasico DEF Termina, Hereda, NoDeja

LEMMA EnPeticion ==
    ASSUME Basico, NEW h \in Hilos, pet[h] # Nulo
    PROVE  /\ pet[h] \in Peticion /\ EnSuSitio(pet[h])
           /\ pet[h].tipo # "transcripcion" => pet[h].clave \in Claves
           /\ pet[h].lugar \notin {"elige", "llama"} => pet[h].tipo # "transcripcion"
<1>1. pet[h] \in Peticion /\ EnSuSitio(pet[h])
  BY DEF Basico, Tipado, Puestos
<1> QED BY <1>1 DEF EnSuSitio, Peticion

\* A request that writes the row of its key.
LEMMA EscribeBasico ==
    ASSUME Basico, NEW h \in Hilos, pet[h] # Nulo, NEW k \in Claves, pet[h].clave = k,
           NEW f \in Interaccion, tabla' = [tabla EXCEPT ![k] = f],
           NEW v \in Peticion \cup {Nulo}, pet' = [pet EXCEPT ![h] = v],
           \A g \in Hilos \ {h} : ~Trabaja(g, k),
           v # Nulo => /\ v.clave = k /\ v.tipo # "transcripcion" /\ v.detalle = <<>>
                       /\ v.lugar \notin Antes \cup {"ejecuta", "completa"}
                       /\ f.estado = Etapa(v.lugar, v.tipo),
           v = Nulo => f.estado \in Cerradas,
           cortes' \in [Modelos -> Corte], sesion' \in [Hilos -> Seq(Efecto)],
           aplicado' \in [Claves -> Seq(Efecto)], cortadas' = cortadas
    PROVE  Basico'
<1>1. pet' \in [Hilos -> Peticion \cup {Nulo}] /\ pet'[h] = v
      /\ \A g \in Hilos \ {h} : pet'[g] = pet[g]
  BY DEF Basico, Tipado
<1>2. tabla' \in [Claves -> Interaccion \cup {Nulo}] /\ tabla'[k] = f /\ f # Nulo
      /\ \A c \in Claves \ {k} : tabla'[c] = tabla[c]
  BY DEF Basico, Tipado
<1>3. Tipado'
  BY <1>1, <1>2 DEF Basico, Tipado
<1>4. Puestos'
  <2>1. v # Nulo => EnSuSitio(v)'
    BY <1>2 DEF EnSuSitio, Antes
  <2>2. ASSUME NEW g \in Hilos \ {h}, pet[g] # Nulo PROVE EnSuSitio(pet[g])'
    <3>1. pet[g] \in Peticion /\ EnSuSitio(pet[g]) /\ pet'[g] = pet[g]
      BY <1>1, <2>2 DEF Basico, Tipado, Puestos
    <3>2. pet[g].clave # Nulo /\ pet[g].lugar \notin Antes => pet[g].clave \in Claves \ {k}
      BY <2>2, <3>1 DEF Trabaja, Antes, Peticion
    <3> QED BY <1>2, <3>1, <3>2 DEF EnSuSitio
  <2> QED BY <1>1, <2>1, <2>2 DEF Puestos
<1>5. Solos'
  <2>1. \A c \in Claves, g \in Hilos \ {h} : Trabaja(g, c)' => Trabaja(g, c)
    BY <1>1 DEF Trabaja
  <2>2. \A c \in Claves : Trabaja(h, c)' => c = k
    BY <1>1 DEF Trabaja
  <2>3. \A c \in Claves, g, o \in Hilos : Trabaja(g, c)' /\ Trabaja(o, c)' => g = o
    <3> SUFFICES ASSUME NEW c \in Claves, NEW g \in Hilos, NEW o \in Hilos,
                        Trabaja(g, c)', Trabaja(o, c)'
                 PROVE  g = o
      OBVIOUS
    <3>1. CASE g = h /\ o # h
      BY <2>1, <2>2, <3>1
    <3>2. CASE o = h /\ g # h
      BY <2>1, <2>2, <3>2
    <3>3. CASE g # h /\ o # h
      BY <2>1, <3>3 DEF Basico, Solos
    <3> QED BY <3>1, <3>2, <3>3
  <2> QED BY <2>3 DEF Solos
<1>6. Atendidas'
  <2>1. ASSUME NEW c \in Claves \ {k}, NEW g \in Hilos, Trabaja(g, c) PROVE Trabaja(g, c)'
    BY <1>1, <2>1 DEF Trabaja
  <2>2. Abierta(k)' => Trabaja(h, k)'
    BY <1>1, <1>2 DEF Abierta, Trabaja, Abiertas, Cerradas, Antes
  <2>3. \A c \in Claves \ {k} : Abierta(c)' => Abierta(c)
    BY <1>2 DEF Abierta
  <2> QED BY <2>1, <2>2, <2>3 DEF Basico, Atendidas
<1> QED BY <1>3, <1>4, <1>5, <1>6 DEF Basico

(***************************************************************************)
(* The actions.                                                            *)
(***************************************************************************)
LEMMA ConsultarBasico ==
    ASSUME Basico, NEW h \in Hilos, Consultar(h) PROVE Basico'
<1>1. pet[h] # Nulo /\ pet[h].lugar = "consulta" /\ UNCHANGED <<datos, cortes>>
      /\ (Sigue(h, "crea") \/ Termina(h))
  BY DEF Consultar, En
<1>2. pet[h].tipo # "transcripcion"
  BY <1>1, EnPeticion
<1>3. CASE Sigue(h, "crea")
  BY <1>1, <1>2, <1>3, SigueBasico DEF Antes, Lugares
<1>4. CASE Termina(h)
  BY <1>1, <1>4, TerminaBasico DEF datos, Basico, Tipado, Trabaja
<1> QED BY <1>1, <1>3, <1>4

LEMMA CrearBasico ==
    ASSUME Basico, NEW h \in Hilos, Crear(h) PROVE Basico'
<1> DEFINE k == pet[h].clave
           f == [tipo |-> pet[h].tipo, estado |-> "PENDIENTE", detalle |-> <<>>]
           lugar == IF pet[h].tipo = "texto" THEN "contexto" ELSE "procesa"
           v == [pet[h] EXCEPT !.lugar = lugar]
<1>1. pet[h] # Nulo /\ pet[h].lugar = "crea" /\ UNCHANGED <<sesion, aplicado, cortadas, cortes>>
  BY DEF Crear, En
<1>2. pet[h] \in Peticion /\ pet[h].tipo \in ConClave /\ k \in Claves
  BY <1>1, EnPeticion DEF Peticion, Tipos
<1>3. CASE Choca(k)
  BY <1>1, <1>3, TerminaBasico DEF Crear, Basico, Tipado, Trabaja
<1>4. CASE ~Choca(k)
  <2>1. tabla[k] = Nulo /\ tabla' = [tabla EXCEPT ![k] = f] /\ pet' = [pet EXCEPT ![h] = v]
    BY <1>4 DEF Crear, Choca, Sigue
  <2>2. f \in Interaccion
    BY <1>2 DEF Interaccion, Abiertas
  <2>3. v \in Peticion
    BY <1>2 DEF Peticion, Lugares
  <2>4. v.lugar = lugar /\ v.tipo = pet[h].tipo /\ v.clave = k /\ v.detalle = <<>>
    BY <1>1, <1>2, EnPeticion DEF Peticion, EnSuSitio
  <2>5. \A g \in Hilos \ {h} : ~Trabaja(g, k)
    BY <1>2, <2>1 DEF Trabaja, Basico, Puestos, EnSuSitio, Antes
  <2>6. v.tipo # "transcripcion" /\ v.lugar \notin Antes \cup {"ejecuta", "completa"}
        /\ f.estado = Etapa(v.lugar, v.tipo)
    BY <1>2, <2>4 DEF Antes, Etapa, ConClave
  <2> QED
    BY <1>1, <1>2, <2>1, <2>2, <2>3, <2>4, <2>5, <2>6, EscribeBasico DEF Basico, Tipado
<1> QED BY <1>3, <1>4

\* A request that works on a key is alone with it.
LEMMA SoloEnSuClave ==
    ASSUME Basico, NEW h \in Hilos, pet[h] # Nulo, pet[h].lugar \notin Antes,
           NEW k \in Claves, pet[h].clave = k
    PROVE  /\ Trabaja(h, k)
           /\ \A g \in Hilos \ {h} : ~Trabaja(g, k)
           /\ tabla[k] \in Interaccion /\ tabla[k].estado = Etapa(pet[h].lugar, pet[h].tipo)
<1>1. Trabaja(h, k)
  BY DEF Trabaja, Antes
<1>2. \A g \in Hilos \ {h} : ~Trabaja(g, k)
  BY <1>1 DEF Basico, Solos
<1>3. EnSuSitio(pet[h]) /\ k # Nulo
  BY EnPeticion
<1> QED BY <1>1, <1>2, <1>3 DEF EnSuSitio, Basico, Tipado

LEMMA ProcesarBasico ==
    ASSUME Basico, NEW h \in Hilos, Procesar(h) PROVE Basico'
<1> DEFINE k == pet[h].clave
           f == [tabla[k] EXCEPT !.estado = "PROCESANDO"]
           lugar == IF pet[h].tipo = "audio" THEN "contexto" ELSE "elige"
           v == [pet[h] EXCEPT !.lugar = lugar]
<1>1. pet[h] # Nulo /\ pet[h].lugar = "procesa" /\ UNCHANGED <<sesion, aplicado, cortadas, cortes>>
      /\ tabla' = [tabla EXCEPT ![k] = f] /\ pet' = [pet EXCEPT ![h] = v]
  BY DEF Procesar, En, Sigue
<1>2. pet[h] \in Peticion /\ pet[h].tipo # "transcripcion" /\ k \in Claves
  BY <1>1, EnPeticion
<1>3. tabla[k] \in Interaccion /\ \A g \in Hilos \ {h} : ~Trabaja(g, k)
  BY <1>1, <1>2, SoloEnSuClave DEF Antes
<1>4. f \in Interaccion /\ f.estado = "PROCESANDO"
  BY <1>3 DEF Interaccion, Abiertas
<1>5. v \in Peticion
  BY <1>2 DEF Peticion, Lugares
<1>6. v.lugar = lugar /\ v.tipo = pet[h].tipo /\ v.clave = k /\ v.detalle = <<>>
  BY <1>1, <1>2, EnPeticion DEF Peticion, EnSuSitio
<1>7. v.tipo # "transcripcion" /\ v.lugar \notin Antes \cup {"ejecuta", "completa"}
      /\ f.estado = Etapa(v.lugar, v.tipo)
  BY <1>2, <1>4, <1>6 DEF Antes, Etapa
<1> QED
  BY <1>1, <1>2, <1>3, <1>4, <1>5, <1>6, <1>7, EscribeBasico DEF Basico, Tipado

LEMMA ConstruirContextoBasico ==
    ASSUME Basico, NEW h \in Hilos, ConstruirContexto(h) PROVE Basico'
<1> DEFINE lugar == IF pet[h].tipo = "texto" THEN "procesa" ELSE "elige"
<1>1. pet[h] # Nulo /\ pet[h].lugar = "contexto" /\ UNCHANGED <<datos, cortes>> /\ Sigue(h, lugar)
  BY DEF ConstruirContexto, En
<1>2. pet[h].tipo # "transcripcion"
  BY <1>1, EnPeticion
<1>3. Etapa(lugar, pet[h].tipo) = Etapa(pet[h].lugar, pet[h].tipo)
  BY <1>1 DEF Etapa
<1>4. lugar \in Lugares /\ lugar \notin Antes
      /\ {lugar, pet[h].lugar} \cap {"ejecuta", "completa"} = {} /\ pet[h].lugar \notin Antes
  BY <1>1 DEF Lugares, Antes
<1> QED BY <1>1, <1>2, <1>3, <1>4, SigueBasico

\* The breakers keep their type.
LEMMA CortesTipados ==
    ASSUME NEW c \in Corte, NEW sonda \in BOOLEAN
    PROVE  Evaluado(c) \in Corte /\ TrasFallo(c, sonda) \in Corte /\ Cerrado \in Corte
<1>1. Evaluado(c) \in Corte /\ Cerrado \in Corte
  BY DEF Corte, Evaluado, Cerrado
<1>2. TrasFallo(c, sonda) \in Corte
  <2>1. c.fallos + 1 \in Nat
    BY DEF Corte
  <2>2. [c EXCEPT !.estado = "OPEN", !.fresco = TRUE] \in Corte
    BY DEF Corte
  <2>3. [estado |-> "OPEN", fallos |-> c.fallos + 1, fresco |-> TRUE] \in Corte
    BY <2>1 DEF Corte
  <2>4. [c EXCEPT !.fallos = c.fallos + 1, !.fresco = (c.estado = "OPEN")] \in Corte
    BY <2>1 DEF Corte
  <2> QED BY <2>2, <2>3, <2>4 DEF TrasFallo
<1> QED BY <1>1, <1>2

\* A request in the cascade of models that moves within the processing.
LEMMA CascadaBasico ==
    ASSUME Basico, NEW h \in Hilos, pet[h] # Nulo, pet[h].lugar \in {"elige", "llama"},
           NEW v \in Peticion, pet' = [pet EXCEPT ![h] = v],
           v.clave = pet[h].clave, v.tipo = pet[h].tipo, v.detalle = pet[h].detalle,
           v.lugar \in {"elige", "llama", "interpreta", "error"},
           v.tipo = "transcripcion" => v.lugar \in {"elige", "llama"},
           UNCHANGED datos, cortes' \in [Modelos -> Corte]
    PROVE  Basico'
<1>1. EnSuSitio(pet[h])
  BY EnPeticion
<1>2. Hereda(h, v) /\ NoDeja(h, v)
  BY <1>1 DEF Hereda, NoDeja, Trabaja, EnSuSitio, Antes, Etapa
<1> QED BY <1>2, MueveBasico DEF datos, Basico, Tipado

LEMMA SaleBasico ==
    ASSUME Basico, NEW h \in Hilos, pet[h] # Nulo, pet[h].lugar \in {"elige", "llama"},
           NEW lugar \in {"interpreta", "error"}, Sale(h, lugar),
           UNCHANGED datos, cortes' \in [Modelos -> Corte]
    PROVE  Basico'
<1> DEFINE v == [pet[h] EXCEPT !.lugar = lugar, !.modelo = 1, !.sonda = FALSE]
<1>1. CASE pet[h].tipo = "transcripcion"
  <2>1. pet[h].clave = Nulo
    BY <1>1, EnPeticion DEF EnSuSitio
  <2> QED BY <1>1, <2>1, TerminaBasico DEF Sale, datos, Basico, Tipado, Trabaja
<1>2. CASE pet[h].tipo # "transcripcion"
  <2>1. pet[h] \in Peticion /\ pet' = [pet EXCEPT ![h] = v]
    BY <1>2, EnPeticion DEF Sale
  <2>2. v \in Peticion
    BY <2>1 DEF Peticion, Lugares
  <2>3. v.clave = pet[h].clave /\ v.tipo = pet[h].tipo /\ v.lugar = lugar
        /\ v.detalle = pet[h].detalle
    BY <2>1 DEF Peticion
  <2> QED BY <1>2, <2>1, <2>2, <2>3, CascadaBasico
<1> QED BY <1>1, <1>2

LEMMA ElegirBasico ==
    ASSUME Basico, NEW h \in Hilos, Elegir(h) PROVE Basico'
<1> DEFINE m == pet[h].modelo
           c == Evaluado(cortes[m])
           salta == [pet[h] EXCEPT !.modelo = m + 1]
           llama == [pet[h] EXCEPT !.lugar = "llama", !.sonda = (c.estado = "HALF_OPEN")]
<1>1. pet[h] # Nulo /\ pet[h].lugar = "elige" /\ m \in Modelos /\ UNCHANGED datos
  BY DEF Elegir, En
<1>2. pet[h] \in Peticion
  BY <1>1, EnPeticion
<1>3. c \in Corte
  BY <1>1, CortesTipados DEF Basico, Tipado
<1>4. CASE Bloquea(c)
  <2>1. pet' = [pet EXCEPT ![h] = salta] /\ cortes' = cortes
    BY <1>4 DEF Elegir
  <2>2. salta \in Peticion
    BY <1>2 DEF Peticion
  <2>3. salta.clave = pet[h].clave /\ salta.tipo = pet[h].tipo /\ salta.lugar = "elige"
        /\ salta.detalle = pet[h].detalle
    BY <1>1, <1>2 DEF Peticion
  <2> QED BY <1>1, <2>1, <2>2, <2>3, CascadaBasico DEF Basico, Tipado
<1>5. CASE ~Bloquea(c)
  <2>1. pet' = [pet EXCEPT ![h] = llama] /\ cortes' = [cortes EXCEPT ![m] = c]
    BY <1>5 DEF Elegir
  <2>2. llama \in Peticion
    BY <1>2 DEF Peticion, Lugares
  <2>3. llama.clave = pet[h].clave /\ llama.tipo = pet[h].tipo /\ llama.lugar = "llama"
        /\ llama.detalle = pet[h].detalle
    BY <1>2 DEF Peticion
  <2>4. cortes' \in [Modelos -> Corte]
    BY <1>3, <2>1 DEF Basico, Tipado
  <2> QED BY <1>1, <2>1, <2>2, <2>3, <2>4, CascadaBasico
<1> QED BY <1>4, <1>5

LEMMA AgotarBasico ==
    ASSUME Basico, NEW h \in Hilos, Agotar(h) PROVE Basico'
  BY SaleBasico DEF Agotar, En, Basico, Tipado

LEMMA ContestarBasico ==
    ASSUME Basico, NEW h \in Hilos, NEW salida \in Salidas, Contestar(h, salida) PROVE Basico'
<1> DEFINE m == pet[h].modelo
           otro == [pet[h] EXCEPT !.lugar = "elige", !.modelo = m + 1, !.sonda = FALSE]
<1>1. pet[h] # Nulo /\ pet[h].lugar = "llama" /\ UNCHANGED datos
  BY DEF Contestar, En
<1>2. pet[h] \in Peticion /\ pet[h].sonda \in BOOLEAN
  BY <1>1, EnPeticion DEF Peticion
<1>3. CASE cortes' = [cortes EXCEPT ![m] = Cerrado] /\ Sale(h, "interpreta")
  <2>1. cortes' \in [Modelos -> Corte]
    BY <1>3, CortesTipados DEF Basico, Tipado, Corte, Cerrado
  <2> QED BY <1>1, <1>3, <2>1, SaleBasico
<1>4. CASE cortes' = [cortes EXCEPT ![m] = TrasFallo(@, pet[h].sonda)]
           /\ pet' = [pet EXCEPT ![h] = otro]
  <2>1. cortes' \in [Modelos -> Corte]
    BY <1>2, <1>4, CortesTipados DEF Basico, Tipado
  <2>2. otro \in Peticion
    <3>1. m + 1 \in Nat /\ "elige" \in Lugares
      BY <1>2 DEF Peticion, Lugares
    <3> HIDE DEF m
    <3> QED BY <1>2, <3>1 DEF Peticion
  <2>3. otro.clave = pet[h].clave /\ otro.tipo = pet[h].tipo /\ otro.lugar = "elige"
        /\ otro.detalle = pet[h].detalle
    BY <1>2 DEF Peticion
  <2> QED BY <1>1, <1>4, <2>1, <2>2, <2>3, CascadaBasico
<1>5. CASE cortes' = cortes /\ Sale(h, "error")
  BY <1>1, <1>5, SaleBasico DEF Basico, Tipado
<1> QED BY <1>3, <1>4, <1>5 DEF Contestar

LEMMA RechazarBasico ==
    ASSUME Basico, NEW h \in Hilos, Rechazar(h) PROVE Basico'
<1>1. pet[h] # Nulo /\ pet[h].lugar = "interpreta" /\ UNCHANGED <<datos, cortes>>
  BY DEF Rechazar, En
<1>2. PICK lugar \in {"disculpa", "error"} : Sigue(h, lugar)
  BY DEF Rechazar, TrasInvalida
<1>3. lugar \in Lugares /\ lugar \notin Antes
      /\ {lugar, pet[h].lugar} \cap {"ejecuta", "completa"} = {} /\ pet[h].lugar \notin Antes /\ Etapa(lugar, pet[h].tipo) = Etapa(pet[h].lugar, pet[h].tipo)
  BY <1>1 DEF Lugares, Antes, Etapa
<1> QED BY <1>1, <1>2, <1>3, EnPeticion, SigueBasico

\* A request that is interpreting or executing a plan moves to v.
LEMMA TrabajoBasico ==
    ASSUME Basico, NEW h \in Hilos, pet[h] # Nulo,
           pet[h].lugar \in {"interpreta", "ejecuta", "completa"},
           NEW v \in Peticion, pet' = [pet EXCEPT ![h] = v],
           v.clave = pet[h].clave, v.tipo = pet[h].tipo,
           v.lugar \in {"ejecuta", "completa", "error"},
           v.lugar = "ejecuta" => Len(v.detalle) < Len(v.plan),
           v.lugar = "completa" => Len(v.detalle) = Len(v.plan),
           v.lugar = "error" => v.detalle = <<>>,
           tabla' = tabla, cortes' = cortes, sesion' \in [Hilos -> Seq(Efecto)],
           aplicado' \in [Claves -> Seq(Efecto)], cortadas' = cortadas
    PROVE  Basico'
<1>1. EnSuSitio(pet[h]) /\ pet[h].tipo # "transcripcion"
  BY EnPeticion
<1>2. Hereda(h, v) /\ NoDeja(h, v)
  BY <1>1 DEF Hereda, NoDeja, Trabaja, EnSuSitio, Antes, Etapa
<1> QED BY <1>2, MueveBasico DEF Basico, Tipado

LEMMA AceptarPlanBasico ==
    ASSUME Basico, NEW h \in Hilos, NEW plan \in Planes, AceptarPlan(h, plan) PROVE Basico'
<1> DEFINE lugar == IF plan = <<>> THEN "completa" ELSE "ejecuta"
           v == [pet[h] EXCEPT !.plan = plan, !.lugar = lugar]
<1>1. pet[h] # Nulo /\ pet[h].lugar = "interpreta" /\ pet' = [pet EXCEPT ![h] = v]
      /\ UNCHANGED <<datos, cortes>>
  BY DEF AceptarPlan, En
<1>2. pet[h] \in Peticion /\ plan \in Seq(TiposPaso)
  BY <1>1, EnPeticion
<1>3. v \in Peticion
  BY <1>2 DEF Peticion, Lugares
<1>4. v.clave = pet[h].clave /\ v.tipo = pet[h].tipo /\ v.lugar = lugar
      /\ v.plan = plan /\ v.detalle = <<>>
  BY <1>1, <1>2, EnPeticion DEF Peticion, EnSuSitio
<1>5. (plan = <<>> => Len(plan) = 0) /\ (plan # <<>> => Len(plan) > 0) /\ Len(v.detalle) = 0
  BY <1>2, <1>4, EmptySeq
<1>6. v.lugar \in {"ejecuta", "completa"}
      /\ (v.lugar = "ejecuta" => Len(v.detalle) < Len(v.plan))
      /\ (v.lugar = "completa" => Len(v.detalle) = Len(v.plan))
  BY <1>4, <1>5
<1> HIDE DEF v
<1> QED BY <1>1, <1>3, <1>4, <1>6, TrabajoBasico DEF datos, Basico, Tipado

LEMMA OmitidosTipados ==
    ASSUME Basico, NEW h \in Hilos, En(h, "ejecuta")
    PROVE  /\ pet[h] \in Peticion /\ pet[h].clave \in Claves
           /\ PasoActual(h) \in 1..Len(pet[h].plan)
           /\ \A estado \in Resultados : Info(h, estado) \in PasoInfo
           /\ Omitidos(h) \in Seq(PasoInfo)
           /\ Len(Omitidos(h)) = Len(pet[h].plan) - PasoActual(h)
           /\ \A i \in DOMAIN Omitidos(h) : Omitidos(h)[i].estado = "omitido"
<1> DEFINE n == Len(pet[h].plan) - PasoActual(h)
<1>1. pet[h] \in Peticion /\ pet[h].clave \in Claves /\ Len(pet[h].detalle) < Len(pet[h].plan)
  BY EnPeticion DEF En, EnSuSitio
<1>2. pet[h].plan \in Seq(TiposPaso) /\ pet[h].detalle \in Seq(PasoInfo)
  BY <1>1 DEF Peticion
<1>3. PasoActual(h) \in 1..Len(pet[h].plan) /\ n \in Nat
  BY <1>1, <1>2 DEF PasoActual
<1>4. \A i \in 1..n : pet[h].plan[PasoActual(h) + i] \in TiposPaso
  BY <1>2, <1>3
<1>5. Omitidos(h) \in [1..n -> PasoInfo]
  BY <1>4 DEF Omitidos, PasoInfo, Resultados
<1>6. Omitidos(h) \in Seq(PasoInfo) /\ Len(Omitidos(h)) = n /\ DOMAIN Omitidos(h) = 1..n
  BY <1>3, <1>5
<1>7. \A i \in 1..n : Omitidos(h)[i].estado = "omitido"
  BY DEF Omitidos
<1>8. \A estado \in Resultados : Info(h, estado) \in PasoInfo
  BY <1>2, <1>3 DEF Info, TipoActual, PasoInfo
<1> QED BY <1>1, <1>3, <1>6, <1>7, <1>8

\* What a step of the plan does to its request.
LEMMA SiganForma ==
    ASSUME Basico, NEW h \in Hilos, En(h, "ejecuta"), NEW nuevos \in Seq(PasoInfo),
           Len(nuevos) <= Len(pet[h].plan) - Len(pet[h].detalle), Sigan(h, nuevos)
    PROVE  \E v \in Peticion :
             /\ pet' = [pet EXCEPT ![h] = v]
             /\ v.clave = pet[h].clave /\ v.tipo = pet[h].tipo /\ v.plan = pet[h].plan
             /\ v.detalle = pet[h].detalle \o nuevos
             /\ v.lugar \in {"ejecuta", "completa"}
             /\ v.lugar = "ejecuta" => Len(v.detalle) < Len(v.plan)
             /\ v.lugar = "completa" => Len(v.detalle) = Len(v.plan)
<1> DEFINE detalle == pet[h].detalle \o nuevos
           lugar == IF Len(detalle) = Len(pet[h].plan) THEN "completa" ELSE "ejecuta"
           v == [pet[h] EXCEPT !.detalle = detalle, !.lugar = lugar]
<1>1. pet[h] # Nulo /\ pet[h].lugar = "ejecuta" /\ pet' = [pet EXCEPT ![h] = v]
  BY DEF Sigan, En
<1>2. pet[h] \in Peticion /\ pet[h].plan \in Seq(TiposPaso) /\ pet[h].detalle \in Seq(PasoInfo)
  BY <1>1, EnPeticion DEF Peticion
<1>3. detalle \in Seq(PasoInfo) /\ Len(detalle) <= Len(pet[h].plan)
  BY <1>2, ConcatProperties
<1>4. v \in Peticion
  <2> HIDE DEF detalle
  <2>1. lugar \in Lugares
    BY DEF Lugares
  <2> QED BY <1>2, <1>3, <2>1 DEF Peticion
<1>5. v.clave = pet[h].clave /\ v.tipo = pet[h].tipo /\ v.lugar = lugar
      /\ v.plan = pet[h].plan /\ v.detalle = detalle
  BY <1>2 DEF Peticion
<1>6. lugar \in {"ejecuta", "completa"}
      /\ (lugar = "ejecuta" => Len(detalle) < Len(pet[h].plan))
      /\ (lugar = "completa" => Len(detalle) = Len(pet[h].plan))
  <2>1. Len(detalle) \in Nat /\ Len(pet[h].plan) \in Nat
    BY <1>2, <1>3
  <2> HIDE DEF detalle
  <2> QED BY <1>3, <2>1
<1> HIDE DEF v, lugar
<1> QED BY <1>1, <1>4, <1>5, <1>6

\* A step of the plan that leaves a report no longer than the plan.
LEMMA SiganBasico ==
    ASSUME Basico, NEW h \in Hilos, En(h, "ejecuta"), NEW nuevos \in Seq(PasoInfo),
           Len(nuevos) <= Len(pet[h].plan) - Len(pet[h].detalle), Sigan(h, nuevos),
           tabla' = tabla, cortes' = cortes, sesion' \in [Hilos -> Seq(Efecto)],
           aplicado' \in [Claves -> Seq(Efecto)], cortadas' = cortadas
    PROVE  Basico'
  BY SiganForma, TrabajoBasico, ZenonT(30) DEF En

\* Effects written by a step are those of the type.
LEMMA EfectosTipados ==
    ASSUME Basico, NEW h \in Hilos, En(h, "ejecuta"), NEW completo \in BOOLEAN
    PROVE  EfectoDe(h, completo) \in Seq(Efecto)
<1>1. PasoActual(h) \in Nat
  BY OmitidosTipados
<1> QED BY <1>1 DEF EfectoDe, Efecto

LEMMA ConfirmaTipada ==
    ASSUME Basico, NEW h \in Hilos, pet[h] # Nulo, pet[h].clave \in Claves,
           NEW nuevos \in Seq(Efecto), Confirma(h, nuevos)
    PROVE  sesion' \in [Hilos -> Seq(Efecto)] /\ aplicado' \in [Claves -> Seq(Efecto)]
<1> DEFINE k == pet[h].clave
           todos == aplicado[k] \o sesion[h] \o nuevos
<1>1. todos \in Seq(Efecto)
  BY ConcatProperties DEF Basico, Tipado
<1>2. sesion' \in [Hilos -> Seq(Efecto)]
  BY EmptySeq DEF Confirma, Basico, Tipado
<1>3. aplicado' = [aplicado EXCEPT ![k] = todos]
  BY DEF Confirma
<1>4. aplicado' \in [Claves -> Seq(Efecto)]
  <2> HIDE DEF todos
  <2> QED BY <1>1, <1>3 DEF Basico, Tipado
<1> QED BY <1>2, <1>4

LEMMA Cabe ==
    ASSUME NEW p \in Nat, NEW d \in Nat, NEW r \in Nat, r <= p - (d + 1)
    PROVE  1 + r <= p - d
  OBVIOUS

\* The report after a step that is not done, and after those it stops.
LEMMA Cola ==
    ASSUME Basico, NEW h \in Hilos, En(h, "ejecuta"), NEW estado \in Resultados,
           NEW resto \in {<<>>, Omitidos(h)}
    PROVE  /\ <<Info(h, estado)>> \o resto \in Seq(PasoInfo)
           /\ Len(<<Info(h, estado)>> \o resto) <= Len(pet[h].plan) - Len(pet[h].detalle)
<1>1. resto \in Seq(PasoInfo) /\ Len(resto) <= Len(pet[h].plan) - PasoActual(h)
  <2>1. CASE resto = <<>>
    BY <2>1, OmitidosTipados, EmptySeq DEF Peticion
  <2>2. CASE resto = Omitidos(h)
    BY <2>2, OmitidosTipados DEF Peticion
  <2> QED BY <2>1, <2>2
<1>2. <<Info(h, estado)>> \in Seq(PasoInfo) /\ Len(<<Info(h, estado)>>) = 1
  BY OmitidosTipados
<1>3. <<Info(h, estado)>> \o resto \in Seq(PasoInfo)
      /\ Len(<<Info(h, estado)>> \o resto) = 1 + Len(resto)
  BY <1>1, <1>2, ConcatProperties
<1>4. Len(pet[h].plan) \in Nat /\ Len(pet[h].detalle) \in Nat /\ Len(resto) \in Nat
  BY <1>1, OmitidosTipados, SMTT(30) DEF Peticion
<1> DEFINE todo == <<Info(h, estado)>> \o resto
           n == Len(todo)
<1>5. n = 1 + Len(resto) /\ PasoActual(h) = Len(pet[h].detalle) + 1
  BY <1>3 DEF PasoActual
<1>6. todo \in Seq(PasoInfo)
  BY <1>3
<1>7. n <= Len(pet[h].plan) - Len(pet[h].detalle)
  <2>1. Len(resto) <= Len(pet[h].plan) - (Len(pet[h].detalle) + 1)
    BY <1>1, <1>5
  <2>2. 1 + Len(resto) <= Len(pet[h].plan) - Len(pet[h].detalle)
    BY <1>4, <2>1, Cabe
  <2> QED BY <1>5, <2>2
<1> QED BY <1>6, <1>7

\* What commits a step says that it is done, or that it failed and stops the
\* plan.
LEMMA Efectuados ==
    ASSUME Basico, NEW h \in Hilos, Completar(h) \/ FallarTrasConfirmar(h)
    PROVE  \E estado \in {"completado", "fallido"}, resto \in {<<>>, Omitidos(h)} :
             /\ Efectuar(h, <<Info(h, estado)>> \o resto)
             /\ \/ estado = "completado" /\ resto = <<>>
                \/ estado = "fallido" /\ resto = Omitidos(h)
<1>1. CASE Completar(h)
  <2>1. Efectuar(h, <<Info(h, "completado")>>) /\ En(h, "ejecuta")
    BY <1>1 DEF Completar, Efectuar
  <2>2. <<Info(h, "completado")>> = <<Info(h, "completado")>> \o <<>>
    <3>1. <<Info(h, "completado")>> \in Seq(PasoInfo)
      BY <2>1, OmitidosTipados DEF Resultados
    <3> QED BY <3>1, ConcatEmptySeq
  <2>3. Efectuar(h, <<Info(h, "completado")>> \o <<>>)
    BY <2>1, <2>2
  <2> QED BY <2>3
<1>2. CASE FallarTrasConfirmar(h)
  BY <1>2 DEF FallarTrasConfirmar
<1> QED BY <1>1, <1>2

LEMMA EfectuarBasico ==
    ASSUME Basico, NEW h \in Hilos, Completar(h) \/ FallarTrasConfirmar(h) PROVE Basico'
<1>0. PICK estado \in {"completado", "fallido"}, resto \in {<<>>, Omitidos(h)} :
         Efectuar(h, <<Info(h, estado)>> \o resto)
  BY Efectuados
<1> DEFINE nuevos == <<Info(h, estado)>> \o resto
<1>1. En(h, "ejecuta") /\ Sigan(h, nuevos) /\ Confirma(h, EfectoDe(h, TRUE))
      /\ UNCHANGED <<tabla, cortes, cortadas>>
  BY <1>0 DEF Efectuar
<1>2. nuevos \in Seq(PasoInfo) /\ Len(nuevos) <= Len(pet[h].plan) - Len(pet[h].detalle)
  BY <1>1, Cola DEF Resultados
<1>3. sesion' \in [Hilos -> Seq(Efecto)] /\ aplicado' \in [Claves -> Seq(Efecto)]
  BY <1>1, EfectosTipados, ConfirmaTipada, OmitidosTipados DEF En
<1> HIDE DEF nuevos
<1> QED BY <1>1, <1>2, <1>3, SiganBasico DEF Basico, Tipado

LEMMA DesestimarBasico ==
    ASSUME Basico, NEW h \in Hilos, NEW resto \in BOOLEAN, Desestimar(h, resto) PROVE Basico'
<1> DEFINE cola == IF TipoActual(h) = "ligado" THEN Omitidos(h) ELSE <<>>
           nuevos == <<Info(h, "rechazado")>> \o cola
<1>1. En(h, "ejecuta") /\ Sigan(h, nuevos) /\ UNCHANGED <<tabla, cortes, aplicado, cortadas>>
      /\ sesion' = [sesion EXCEPT ![h] = IF resto THEN @ \o EfectoDe(h, FALSE) ELSE @]
  BY DEF Desestimar
<1>2. nuevos \in Seq(PasoInfo) /\ Len(nuevos) <= Len(pet[h].plan) - Len(pet[h].detalle)
  BY <1>1, Cola DEF Resultados
<1>3. sesion[h] \in Seq(Efecto) /\ sesion[h] \o EfectoDe(h, FALSE) \in Seq(Efecto)
  BY <1>1, EfectosTipados, ConcatProperties DEF Basico, Tipado
<1>4. sesion' \in [Hilos -> Seq(Efecto)]
  BY <1>1, <1>3 DEF Basico, Tipado
<1> HIDE DEF nuevos
<1> QED BY <1>1, <1>2, <1>4, SiganBasico DEF Basico, Tipado

LEMMA FallarBasico ==
    ASSUME Basico, NEW h \in Hilos, NEW revierte \in BOOLEAN, Fallar(h, revierte) PROVE Basico'
<1> DEFINE nuevos == <<Info(h, "fallido")>> \o Omitidos(h)
<1>1. En(h, "ejecuta") /\ Sigan(h, nuevos) /\ UNCHANGED <<tabla, cortes, aplicado, cortadas>>
      /\ sesion' = [sesion EXCEPT ![h] = IF revierte THEN <<>> ELSE @]
  BY DEF Fallar
<1>2. nuevos \in Seq(PasoInfo) /\ Len(nuevos) <= Len(pet[h].plan) - Len(pet[h].detalle)
  BY <1>1, Cola DEF Resultados
<1>3. sesion' \in [Hilos -> Seq(Efecto)]
  BY <1>1, EmptySeq DEF Basico, Tipado
<1> HIDE DEF nuevos
<1> QED BY <1>1, <1>2, <1>3, SiganBasico DEF Basico, Tipado

LEMMA CierraBasico ==
    ASSUME Basico, NEW h \in Hilos, pet[h] # Nulo, pet[h].lugar \in {"completa", "disculpa", "error"},
           NEW estado \in Cerradas, NEW detalle \in Seq(PasoInfo), Cierra(h, estado, detalle)
    PROVE  Basico'
<1> DEFINE k == pet[h].clave
           f == [tabla[k] EXCEPT !.estado = estado, !.detalle = detalle]
<1>1. tabla' = [tabla EXCEPT ![k] = f] /\ Confirma(h, <<>>) /\ pet' = [pet EXCEPT ![h] = Nulo]
      /\ UNCHANGED <<cortes, cortadas>>
  BY DEF Cierra, Termina
<1>2. k \in Claves
  BY EnPeticion
<1>3. tabla[k] \in Interaccion /\ \A g \in Hilos \ {h} : ~Trabaja(g, k)
  BY <1>2, SoloEnSuClave DEF Antes
<1>4. f \in Interaccion
  BY <1>3 DEF Interaccion
<1>5. sesion' \in [Hilos -> Seq(Efecto)] /\ aplicado' \in [Claves -> Seq(Efecto)]
  BY <1>1, <1>2, ConfirmaTipada, EmptySeq
<1>6. f.estado \in Cerradas
  BY <1>3 DEF Interaccion
<1> HIDE DEF f
<1> QED BY <1>1, <1>2, <1>3, <1>4, <1>5, <1>6, EscribeBasico DEF Basico, Tipado

LEMMA CierresBasico ==
    ASSUME Basico, NEW h \in Hilos, CerrarCompleta(h) \/ Disculparse(h) \/ CerrarConError(h)
    PROVE  Basico'
<1>1. CASE CerrarCompleta(h)
  BY <1>1, EnPeticion, CierraBasico DEF CerrarCompleta, En, Cerradas, Peticion
<1>2. CASE Disculparse(h)
  BY <1>2, EmptySeq, CierraBasico DEF Disculparse, En, Cerradas
<1>3. CASE CerrarConError(h)
  BY <1>3, EmptySeq, CierraBasico DEF CerrarConError, En, Cerradas
<1> QED BY <1>1, <1>2, <1>3

LEMMA FallarCierreBasico ==
    ASSUME Basico, NEW h \in Hilos, FallarCierre(h) PROVE Basico'
<1> DEFINE v == [pet[h] EXCEPT !.lugar = "error", !.plan = <<>>, !.detalle = <<>>]
<1>1. pet[h] # Nulo /\ pet[h].lugar = "completa" /\ pet' = [pet EXCEPT ![h] = v]
      /\ UNCHANGED <<tabla, aplicado, cortadas, cortes>> /\ sesion' = [sesion EXCEPT ![h] = <<>>]
  BY DEF FallarCierre, En
<1>2. pet[h] \in Peticion
  BY <1>1, EnPeticion
<1>3. v \in Peticion
  BY <1>2, EmptySeq DEF Peticion, Lugares
<1>4. v.clave = pet[h].clave /\ v.tipo = pet[h].tipo /\ v.lugar = "error" /\ v.detalle = <<>>
  BY <1>2 DEF Peticion
<1>5. sesion' \in [Hilos -> Seq(Efecto)]
  BY <1>1, EmptySeq DEF Basico, Tipado
<1> HIDE DEF v
<1> QED BY <1>1, <1>3, <1>4, <1>5, TrabajoBasico DEF Basico, Tipado

LEMMA PerderBaseBasico ==
    ASSUME Basico, NEW h \in Hilos, PerderBase(h) PROVE Basico'
<1>1. pet[h] # Nulo /\ Termina(h) /\ UNCHANGED <<tabla, aplicado, cortes>>
      /\ pet[h].lugar \notin {"elige", "llama"}
  BY DEF PerderBase
<1>2. pet[h].clave \in Claves
  BY <1>1, EnPeticion
<1>3. sesion' \in [Hilos -> Seq(Efecto)] /\ cortadas' \subseteq Claves
      /\ cortadas \subseteq cortadas'
  BY <1>2, EmptySeq DEF PerderBase, Basico, Tipado
<1>4. \A k \in Claves \ cortadas' : ~Trabaja(h, k)
  BY DEF PerderBase, Trabaja
<1> QED BY <1>1, <1>3, <1>4, TerminaBasico DEF Basico, Tipado

LEMMA CaerBasico == ASSUME Basico, Caer PROVE Basico'
<1>1. cortadas' \subseteq Claves
  <2>1. \A g \in Hilos : pet[g] # Nulo /\ pet[g].tipo \in ConClave => pet[g].clave \in Claves
    BY EnPeticion DEF ConClave
  <2> QED BY <2>1 DEF Caer, Basico, Tipado
<1>2. Tipado'
  BY <1>1, EmptySeq DEF Basico, Tipado, Caer, Libre, Cerrado, Corte
<1>3. Puestos' /\ Solos'
  BY DEF Puestos, Solos, Trabaja, Caer, Libre
<1>4. Atendidas'
  <2>1. ASSUME NEW k \in Claves, NEW g \in Hilos, Trabaja(g, k) PROVE k \in cortadas'
    <3>1. pet[g] \in Peticion /\ pet[g].tipo # "transcripcion"
      BY <2>1, EnPeticion DEF Trabaja, EnSuSitio
    <3> QED BY <2>1, <3>1 DEF Caer, Trabaja, Peticion, Tipos
  <2>2. cortadas \subseteq cortadas' /\ tabla' = tabla
    BY DEF Caer
  <2> QED BY <2>1, <2>2 DEF Basico, Atendidas, Abierta
<1> QED BY <1>2, <1>3, <1>4 DEF Basico

LEMMA EnfriarBasico == ASSUME Basico, NEW m \in Modelos, Enfriar(m) PROVE Basico'
<1> DEFINE c == [cortes[m] EXCEPT !.fresco = FALSE]
<1>1. cortes' = [cortes EXCEPT ![m] = c] /\ UNCHANGED <<pet, datos>>
  BY DEF Enfriar
<1>2. c \in Corte
  <2>1. cortes[m] \in Corte
    BY DEF Basico, Tipado
  <2> QED BY <2>1 DEF Corte
<1>3. cortes' \in [Modelos -> Corte]
  BY <1>1, <1>2 DEF Basico, Tipado
<1> QED BY <1>1, <1>3 DEF Basico, Tipado, Puestos, EnSuSitio, Solos, Trabaja, Atendidas, Abierta, datos

LEMMA QuietoBasico == ASSUME Basico, UNCHANGED vars PROVE Basico'
  BY DEF Basico, Tipado, Puestos, EnSuSitio, Solos, Trabaja, Atendidas, Abierta, vars

LEMMA AvanzaBasico == ASSUME Basico, NEW h \in Hilos, Avanza(h) PROVE Basico'
  BY ConsultarBasico, CrearBasico, ProcesarBasico, ConstruirContextoBasico, ElegirBasico,
     AgotarBasico, ContestarBasico, RechazarBasico, AceptarPlanBasico, EfectuarBasico,
     DesestimarBasico, FallarBasico, CierresBasico, FallarCierreBasico
  DEF Avanza

LEMMA PasoBasico == Basico /\ [Next]_vars => Basico'
<1> SUFFICES ASSUME Basico, [Next]_vars PROVE Basico'
  OBVIOUS
<1> QED
  BY AvanzaBasico, PerderBaseBasico, LlegarBasico, EnfriarBasico, CaerBasico, QuietoBasico
  DEF Next

LEMMA SiempreBasico == Spec => []Basico
  BY Inicio, PasoBasico, PTL DEF Spec

\* The state of the assistant is always well formed: no report is longer than
\* its plan, whichever way the requests and their failures meet.
THEOREM Tipos1 == Spec => []TypeOK
<1>1. Basico => TypeOK
  <2> SUFFICES ASSUME Basico PROVE TypeOK
    OBVIOUS
  <2>1. \A h \in Hilos : pet[h] # Nulo => Len(pet[h].detalle) <= Len(pet[h].plan)
    <3> SUFFICES ASSUME NEW h \in Hilos, pet[h] # Nulo
                 PROVE  Len(pet[h].detalle) <= Len(pet[h].plan)
      OBVIOUS
    <3>1. /\ Len(pet[h].plan) \in Nat /\ Len(pet[h].detalle) \in Nat
          /\ pet[h].detalle = <<>> => Len(pet[h].detalle) = 0
      BY EnPeticion, EmptySeq DEF Peticion
    <3> QED BY <3>1, EnPeticion DEF EnSuSitio
  <2> QED BY <2>1 DEF Basico, Tipado, TypeOK
<1> QED BY <1>1, SiempreBasico, PTL

\* No path of the three use cases answers and forgets to close, and no two of
\* them share an interaction: an open one has exactly one request at work on it
\* unless that request died or lost the database.
THEOREM Atencion == Spec => []AbiertaAtendida
<1>1. Basico => AbiertaAtendida
  <2> SUFFICES ASSUME Basico, NEW k \in Claves
               PROVE  /\ Abierta(k) /\ k \notin cortadas => \E h \in Hilos : Trabaja(h, k)
                      /\ \A h, otro \in Hilos : Trabaja(h, k) /\ Trabaja(otro, k) => h = otro
                      /\ \A h \in Hilos : Trabaja(h, k) => Abierta(k)
    BY DEF AbiertaAtendida, Abierta
  <2>1. ASSUME NEW h \in Hilos, Trabaja(h, k) PROVE Abierta(k)
    BY <2>1 DEF Basico, Puestos, EnSuSitio, Trabaja, Antes, Abierta, Abiertas, Etapa
  <2> QED BY <2>1 DEF Basico, Solos, Atendidas
<1> QED BY <1>1, SiempreBasico, PTL

(***************************************************************************)
(* The circuit breakers.                                                   *)
(***************************************************************************)
Sano(c) == c.estado = "CLOSED" => c.fallos < Umbral /\ ~c.fresco

LEMMA CortesSanos ==
    ASSUME NEW c \in Corte, Sano(c), NEW sonda \in BOOLEAN
    PROVE  Sano(Evaluado(c)) /\ Sano(TrasFallo(c, sonda)) /\ Sano(Cerrado)
<1>1. Sano(Evaluado(c)) /\ Sano(Cerrado)
  BY DEF Sano, Evaluado, Cerrado, Corte
<1>2. Sano(TrasFallo(c, sonda))
  <2>1. c.fallos \in Nat
    BY DEF Corte
  <2>2. c.fallos + 1 >= Umbral \/ c.fallos + 1 < Umbral
    BY <2>1
  <2> QED BY <2>1, <2>2 DEF Sano, TrasFallo, Corte
<1> QED BY <1>1, <1>2

LEMMA PasoCortes == ASSUME Basico, CorteCoherente, [Next]_vars PROVE CorteCoherente'
<1> DEFINE Va(h) ==
      cortes' = cortes
      \/ \E m \in Modelos :
            \E c \in {Evaluado(cortes[m]), TrasFallo(cortes[m], pet[h].sonda), Cerrado} :
            pet[h].sonda \in BOOLEAN /\ cortes' = [cortes EXCEPT ![m] = c]
<1>1. \A m \in Modelos : cortes[m] \in Corte /\ Sano(cortes[m])
  BY DEF Basico, Tipado, CorteCoherente, Sano
<1>2. ASSUME NEW h \in Hilos, Va(h) PROVE CorteCoherente'
  <2>1. CASE cortes' = cortes
    BY <2>1 DEF CorteCoherente
  <2>2. ASSUME NEW m \in Modelos,
               NEW c \in {Evaluado(cortes[m]), TrasFallo(cortes[m], pet[h].sonda), Cerrado},
               pet[h].sonda \in BOOLEAN, cortes' = [cortes EXCEPT ![m] = c]
        PROVE  CorteCoherente'
    <3>1. Sano(c)
      BY <1>1, <2>2, CortesSanos
    <3>2. cortes'[m] = c /\ \A n \in Modelos \ {m} : cortes'[n] = cortes[n]
      BY <2>2 DEF Basico, Tipado
    <3> QED BY <1>1, <3>1, <3>2 DEF CorteCoherente, Sano
  <2> QED BY <1>2, <2>1, <2>2
<1>3. ASSUME NEW h \in Hilos, Avanza(h) \/ PerderBase(h) PROVE CorteCoherente'
  <2>1. CASE Elegir(h)
    <3>1. pet[h].sonda \in BOOLEAN
      BY <2>1, EnPeticion DEF Elegir, En, Peticion
    <3> QED BY <1>2, <2>1, <3>1 DEF Elegir
  <2>2. ASSUME NEW salida \in Salidas, Contestar(h, salida) PROVE CorteCoherente'
    <3>1. pet[h].sonda \in BOOLEAN
      BY <2>2, EnPeticion DEF Contestar, En, Peticion
    <3>2. CASE pet[h].modelo \in Modelos
      BY <1>2, <2>2, <3>1, <3>2 DEF Contestar
    <3>3. CASE pet[h].modelo \notin Modelos
      <4>1. \A c : [cortes EXCEPT ![pet[h].modelo] = c] = cortes
        BY <3>3 DEF Basico, Tipado
      <4> QED BY <1>2, <2>2, <4>1 DEF Contestar
    <3> QED BY <3>2, <3>3
  <2>3. CASE ~Elegir(h) /\ ~\E salida \in Salidas : Contestar(h, salida)
    <3>1. cortes' = cortes
      BY <1>3, <2>3 DEF Avanza, PerderBase, Consultar, Crear, Procesar, ConstruirContexto,
         Agotar, Rechazar, AceptarPlan, Completar, FallarTrasConfirmar, Efectuar,
         Desestimar, Fallar, CerrarCompleta,
         Disculparse, CerrarConError, FallarCierre, Cierra
    <3> QED BY <1>2, <3>1
  <2> QED BY <2>1, <2>2, <2>3
<1>4. ASSUME NEW m \in Modelos, Enfriar(m) PROVE CorteCoherente'
  <2>1. cortes' = [cortes EXCEPT ![m] = [cortes[m] EXCEPT !.fresco = FALSE]]
    BY <1>4 DEF Enfriar
  <2>2. Sano([cortes[m] EXCEPT !.fresco = FALSE])
    BY <1>1 DEF Sano, Corte
  <2> QED BY <1>1, <2>1, <2>2 DEF CorteCoherente, Sano, Basico, Tipado
<1>5. CASE Caer
  BY <1>5 DEF Caer, CorteCoherente, Cerrado
<1>6. CASE UNCHANGED vars
  BY <1>6 DEF vars, CorteCoherente
<1>7. ASSUME NEW h \in Hilos, NEW tipo \in Tipos, NEW clave \in Claves \cup {Nulo},
             Llegar(h, tipo, clave)
      PROVE  CorteCoherente'
  BY <1>7 DEF Llegar, CorteCoherente
<1> QED BY <1>3, <1>4, <1>5, <1>6, <1>7 DEF Next

\* Failures and successes of a model, recorded by threads in any order, never
\* leave its breaker closed with the threshold passed.
THEOREM Cortes == Spec => []CorteCoherente
<1>1. Init => CorteCoherente
  BY DEF Init, CorteCoherente, Cerrado
<1>2. Basico /\ CorteCoherente /\ [Next]_vars => CorteCoherente'
  BY PasoCortes
<1> QED BY <1>1, <1>2, SiempreBasico, PTL DEF Spec

(***************************************************************************)
(* The effects of a plan are committed in order and none twice: what the   *)
(* session holds comes after what is applied, and neither is ahead of the  *)
(* report.                                                                 *)
(***************************************************************************)
Creciente(s) == \A i, j \in 1..Len(s) : i < j => s[i].paso < s[j].paso
Hasta(s, n) == \A i \in 1..Len(s) : s[i].paso <= n
Precede(s, t) == \A i \in 1..Len(s), j \in 1..Len(t) : s[i].paso < t[j].paso

LEMMA Concatena ==
    ASSUME NEW a \in Seq(Efecto), NEW b \in Seq(Efecto), Creciente(a), Creciente(b), Precede(a, b)
    PROVE  /\ a \o b \in Seq(Efecto) /\ Creciente(a \o b)
           /\ Len(a) <= Len(a \o b) /\ \A i \in 1..Len(a) : (a \o b)[i] = a[i]
           /\ \A n : Hasta(a, n) /\ Hasta(b, n) => Hasta(a \o b, n)
           /\ \A c : Precede(a, c) /\ Precede(b, c) => Precede(a \o b, c)
<1> DEFINE s == a \o b
           m == Len(a)
           n == Len(b)
<1>1. /\ s \in Seq(Efecto) /\ Len(s) = m + n /\ m \in Nat /\ n \in Nat
      /\ \A i \in 1..(m + n) : s[i] = IF i <= m THEN a[i] ELSE b[i - m]
  BY ConcatProperties
<1> HIDE DEF s
<1>2. \A i \in 1..Len(s) : \/ i \in 1..m /\ s[i] = a[i]
                           \/ i - m \in 1..n /\ s[i] = b[i - m]
  BY <1>1
<1>3. Creciente(s)
  <2> SUFFICES ASSUME NEW i \in 1..Len(s), NEW j \in 1..Len(s), i < j
               PROVE  s[i].paso < s[j].paso
    BY DEF Creciente
  <2>1. CASE j \in 1..m
    <3>1. i \in 1..m /\ s[i] = a[i] /\ s[j] = a[j]
      BY <1>1, <2>1
    <3> QED BY <2>1, <3>1 DEF Creciente
  <2>2. CASE j \notin 1..m /\ i \in 1..m
    <3>1. j - m \in 1..n /\ s[i] = a[i] /\ s[j] = b[j - m]
      BY <1>1, <2>2
    <3> QED BY <2>2, <3>1 DEF Precede
  <2>3. CASE j \notin 1..m /\ i \notin 1..m
    <3>1. j - m \in 1..n /\ i - m \in 1..n /\ s[i] = b[i - m] /\ s[j] = b[j - m] /\ i - m < j - m
      BY <1>1, <2>3
    <3> QED BY <3>1 DEF Creciente
  <2> QED BY <2>1, <2>2, <2>3
<1>4. Len(a) <= Len(s) /\ \A i \in 1..Len(a) : s[i] = a[i]
  BY <1>1
<1>5. \A l : Hasta(a, l) /\ Hasta(b, l) => Hasta(s, l)
  BY <1>2 DEF Hasta
<1>6. \A c : Precede(a, c) /\ Precede(b, c) => Precede(s, c)
  BY <1>2 DEF Precede
<1> QED BY <1>1, <1>3, <1>4, <1>5, <1>6 DEF s

EnPlan == {"ejecuta", "completa"}
Reciente(h) ==
    /\ pet[h] = Nulo \/ pet[h].lugar \notin EnPlan => sesion[h] = <<>>
    /\ pet[h] # Nulo /\ pet[h].clave \in Claves =>
         LET previos == aplicado[pet[h].clave]
             n == Len(pet[h].detalle)
         IN /\ pet[h].lugar \notin Antes \cup EnPlan \cup {"error"} => previos = <<>>
            /\ pet[h].lugar \in EnPlan =>
                 /\ Creciente(sesion[h]) /\ Precede(previos, sesion[h])
                 /\ Hasta(previos, n) /\ Hasta(sesion[h], n)
Ordenado ==
    /\ \A k \in Claves : Creciente(aplicado[k]) /\ (tabla[k] = Nulo => aplicado[k] = <<>>)
    /\ \A h \in Hilos : Reciente(h)

LEMMA Vacias == \A s : /\ Creciente(<<>>) /\ Precede(<<>>, s) /\ Precede(s, <<>>)
                       /\ \A n : Hasta(<<>>, n)
  BY EmptySeq DEF Creciente, Precede, Hasta

\* A step of one request leaves the others in order.
LEMMA OrdenDeOtros ==
    ASSUME Basico, Ordenado, NEW h \in Hilos,
           \A g \in Hilos \ {h} : pet'[g] = pet[g] /\ sesion'[g] = sesion[g],
           \A k \in Claves : aplicado'[k] = aplicado[k]
                             \/ (Trabaja(h, k) /\ Creciente(aplicado'[k])),
           \A k \in Claves : tabla'[k] = Nulo => tabla[k] = Nulo,
           Reciente(h)'
    PROVE  Ordenado'
<1>1. ASSUME NEW g \in Hilos \ {h} PROVE Reciente(g)'
  <2>1. pet[g] # Nulo /\ pet[g].clave \in Claves /\ pet[g].lugar \notin Antes
           => aplicado'[pet[g].clave] = aplicado[pet[g].clave]
    BY DEF Basico, Solos, Trabaja, Antes
  <2>2. Reciente(g) /\ pet'[g] = pet[g] /\ sesion'[g] = sesion[g]
    BY DEF Ordenado
  <2> QED BY <2>1, <2>2 DEF Reciente, Antes, EnPlan
<1>2. \A k \in Claves : Trabaja(h, k) => tabla[k] # Nulo
  BY DEF Basico, Puestos, EnSuSitio, Trabaja, Antes
<1>3. \A k \in Claves : Creciente(aplicado'[k]) /\ (tabla'[k] = Nulo => aplicado'[k] = <<>>)
  BY <1>2 DEF Ordenado
<1> QED BY <1>1, <1>3 DEF Ordenado

\* A step outside the execution of a plan.
LEMMA OrdenQuieto ==
    ASSUME Basico, Ordenado, NEW h \in Hilos,
           \A g \in Hilos \ {h} : pet'[g] = pet[g] /\ sesion'[g] = sesion[g],
           aplicado' = aplicado, \A k \in Claves : tabla'[k] = Nulo => tabla[k] = Nulo,
           sesion'[h] = <<>>,
           pet'[h] # Nulo =>
               /\ pet'[h].lugar \notin EnPlan
               /\ pet'[h].clave \in Claves /\ pet'[h].lugar \notin Antes \cup {"error"}
                     => aplicado[pet'[h].clave] = <<>>
    PROVE  Ordenado'
<1>1. Reciente(h)'
  BY DEF Reciente
<1> QED BY <1>1, OrdenDeOtros

\* The places a request that is not executing a plan goes to.
LEMMA PasosQuietos ==
    ASSUME Basico, NEW h \in Hilos,
           \/ Consultar(h) \/ Procesar(h) \/ ConstruirContexto(h) \/ Elegir(h) \/ Agotar(h)
           \/ Rechazar(h) \/ \E salida \in Salidas : Contestar(h, salida)
    PROVE  /\ pet[h] # Nulo /\ pet[h].lugar \notin EnPlan
           /\ \A g \in Hilos \ {h} : pet'[g] = pet[g]
           /\ aplicado' = aplicado /\ sesion' = sesion
           /\ pet'[h] # Nulo =>
                /\ pet'[h].clave = pet[h].clave /\ pet'[h].lugar \notin EnPlan
                /\ pet'[h].lugar \notin Antes \cup {"error"}
                      => pet[h].lugar \notin Antes \cup {"error"}
<1>1. pet[h] # Nulo /\ pet[h] \in Peticion /\ pet[h].lugar \notin EnPlan
  BY EnPeticion DEF Consultar, Procesar, ConstruirContexto, Elegir, Agotar, Rechazar, Contestar,
     En, EnPlan
<1>2. aplicado' = aplicado /\ sesion' = sesion
  BY DEF Consultar, Procesar, ConstruirContexto, Elegir, Agotar, Rechazar, Contestar, datos
<1> DEFINE Bien ==
      /\ \A g \in Hilos \ {h} : pet'[g] = pet[g]
      /\ pet'[h] # Nulo =>
           /\ pet'[h].clave = pet[h].clave /\ pet'[h].lugar \notin EnPlan
           /\ pet'[h].lugar \notin Antes \cup {"error"} => pet[h].lugar \notin Antes \cup {"error"}
<1>3. \A v : pet' = [pet EXCEPT ![h] = v] =>
              pet'[h] = v /\ \A g \in Hilos \ {h} : pet'[g] = pet[g]
  BY DEF Basico, Tipado
<1>4. ASSUME NEW lugar \in Lugares, Sigue(h, lugar), lugar \notin EnPlan,
             lugar \in Antes \cup {"error"} \/ pet[h].lugar \notin Antes \cup {"error"}
      PROVE  Bien
  <2>1. pet' = [pet EXCEPT ![h] = [pet[h] EXCEPT !.lugar = lugar]]
    BY <1>4 DEF Sigue
  <2>2. [pet[h] EXCEPT !.lugar = lugar].lugar = lugar
        /\ [pet[h] EXCEPT !.lugar = lugar].clave = pet[h].clave
    BY <1>1 DEF Peticion
  <2> QED BY <1>3, <1>4, <2>1, <2>2
<1>5. ASSUME Termina(h) PROVE Bien
  BY <1>3, <1>5 DEF Termina
<1>6. ASSUME NEW lugar \in {"interpreta", "error"}, Sale(h, lugar), pet[h].lugar \in {"elige", "llama"}
      PROVE  Bien
  <2>1. CASE Termina(h)
    BY <1>5, <2>1
  <2>2. CASE pet' = [pet EXCEPT ![h] = [pet[h] EXCEPT !.lugar = lugar, !.modelo = 1, !.sonda = FALSE]]
    <3> DEFINE v == [pet[h] EXCEPT !.lugar = lugar, !.modelo = 1, !.sonda = FALSE]
    <3>1. v.lugar = lugar /\ v.clave = pet[h].clave
      BY <1>1 DEF Peticion
    <3> HIDE DEF v
    <3>2. pet' = [pet EXCEPT ![h] = v]
      BY <2>2 DEF v
    <3> QED BY <1>3, <1>6, <3>1, <3>2 DEF EnPlan, Antes
  <2> QED BY <1>6, <2>1, <2>2 DEF Sale
<1>7. ASSUME Consultar(h) PROVE Bien
  BY <1>4, <1>5, <1>7 DEF Consultar, Lugares, Antes, EnPlan
<1>8. ASSUME Procesar(h) \/ ConstruirContexto(h) PROVE Bien
  BY <1>4, <1>8 DEF Procesar, ConstruirContexto, En, Lugares, Antes, EnPlan
<1>9. ASSUME Rechazar(h) PROVE Bien
  BY <1>4, <1>9 DEF Rechazar, TrasInvalida, En, Lugares, Antes, EnPlan
<1>10. ASSUME Agotar(h) PROVE Bien
  BY <1>6, <1>10 DEF Agotar, En
<1>11. ASSUME Elegir(h) PROVE Bien
  <2> DEFINE c == Evaluado(cortes[pet[h].modelo])
             salta == [pet[h] EXCEPT !.modelo = pet[h].modelo + 1]
             llama == [pet[h] EXCEPT !.lugar = "llama", !.sonda = (c.estado = "HALF_OPEN")]
  <2>1. pet[h].lugar = "elige" /\ (pet' = [pet EXCEPT ![h] = salta] \/ pet' = [pet EXCEPT ![h] = llama])
    BY <1>11 DEF Elegir, En
  <2>2. salta.lugar = "elige" /\ llama.lugar = "llama" /\ salta.clave = pet[h].clave
        /\ llama.clave = pet[h].clave
    BY <1>1, <2>1 DEF Peticion
  <2> HIDE DEF salta, llama
  <2> QED BY <1>3, <2>1, <2>2 DEF EnPlan, Antes
<1>12. ASSUME NEW salida \in Salidas, Contestar(h, salida) PROVE Bien
  <2> DEFINE otro == [pet[h] EXCEPT !.lugar = "elige", !.modelo = pet[h].modelo + 1, !.sonda = FALSE]
  <2>1. pet[h].lugar = "llama"
        /\ (Sale(h, "interpreta") \/ Sale(h, "error") \/ pet' = [pet EXCEPT ![h] = otro])
    BY <1>12 DEF Contestar, En
  <2>2. otro.lugar = "elige" /\ otro.clave = pet[h].clave
    BY <1>1 DEF Peticion
  <2> HIDE DEF otro
  <2>3. CASE pet' = [pet EXCEPT ![h] = otro]
    BY <1>3, <2>1, <2>2, <2>3 DEF EnPlan, Antes
  <2> QED BY <1>6, <2>1, <2>3
<1> HIDE DEF Bien
<1>13. Bien
  BY <1>7, <1>8, <1>9, <1>10, <1>11, <1>12
<1> QED BY <1>1, <1>2, <1>13 DEF Bien

\* What a step of the plan leaves behind, with the report it adds to.
LEMMA TrasSigan ==
    ASSUME Basico, NEW h \in Hilos, En(h, "ejecuta"), NEW nuevos \in Seq(PasoInfo),
           Len(nuevos) <= Len(pet[h].plan) - Len(pet[h].detalle), 1 <= Len(nuevos),
           Sigan(h, nuevos)
    PROVE  /\ pet'[h] # Nulo /\ pet'[h].clave = pet[h].clave /\ pet'[h].lugar \in EnPlan
           /\ pet'[h].detalle = pet[h].detalle \o nuevos
           /\ pet'[h].lugar = "ejecuta" => Len(pet'[h].detalle) < Len(pet[h].plan)
           /\ Len(pet'[h].detalle) = Len(pet[h].detalle) + Len(nuevos)
           /\ Len(pet'[h].detalle) \in Nat /\ PasoActual(h) <= Len(pet'[h].detalle)
           /\ \A g \in Hilos \ {h} : pet'[g] = pet[g]
<1>1. PICK v \in Peticion :
        /\ pet' = [pet EXCEPT ![h] = v]
        /\ v.clave = pet[h].clave /\ v.plan = pet[h].plan
        /\ v.detalle = pet[h].detalle \o nuevos /\ v.lugar \in {"ejecuta", "completa"}
        /\ v.lugar = "ejecuta" => Len(v.detalle) < Len(v.plan)
  BY SiganForma
<1>2. pet'[h] = v /\ \A g \in Hilos \ {h} : pet'[g] = pet[g]
  BY <1>1 DEF Basico, Tipado
<1>3. pet[h].detalle \in Seq(PasoInfo)
  BY OmitidosTipados DEF Peticion
<1>4. Len(v.detalle) = Len(pet[h].detalle) + Len(nuevos)
  BY <1>1, <1>3, ConcatProperties
<1>5. Len(v.detalle) \in Nat /\ Len(pet[h].detalle) \in Nat /\ Len(nuevos) \in Nat
  BY <1>3 DEF Peticion
<1>6. Len(pet[h].detalle) + 1 <= Len(v.detalle)
  BY <1>4, <1>5
<1> QED BY <1>1, <1>2, <1>4, <1>5, <1>6 DEF EnPlan, PasoActual

LEMMA HastaMas ==
    ASSUME NEW s \in Seq(Efecto), NEW n \in Nat, NEW m \in Nat, n <= m, Hasta(s, n)
    PROVE  Hasta(s, m)
<1> SUFFICES ASSUME NEW i \in 1..Len(s) PROVE s[i].paso <= m
  BY DEF Hasta
<1>1. s[i] \in Efecto /\ s[i].paso <= n
  BY ElementOfSeq DEF Hasta
<1>2. s[i].paso \in Nat
  BY <1>1 DEF Efecto
<1> QED BY <1>1, <1>2

\* One more effect, of the step the report has reached.
LEMMA UnEfecto ==
    ASSUME NEW n \in Nat, NEW b \in BOOLEAN, NEW e, e = <<[paso |-> n + 1, completo |-> b]>>
    PROVE  /\ e \in Seq(Efecto) /\ Len(e) = 1 /\ Creciente(e) /\ Hasta(e, n + 1)
           /\ \A s \in Seq(Efecto) : Hasta(s, n) => Precede(s, e)
<1>1. e \in Seq(Efecto) /\ Len(e) = 1 /\ e[1].paso = n + 1
  BY DEF Efecto
<1>2. Creciente(e) /\ Hasta(e, n + 1)
  BY <1>1 DEF Creciente, Hasta
<1>3. ASSUME NEW s \in Seq(Efecto), Hasta(s, n) PROVE Precede(s, e)
  <2> SUFFICES ASSUME NEW i \in 1..Len(s) PROVE s[i].paso < n + 1
    BY <1>1 DEF Precede
  <2>1. s[i] \in Efecto /\ s[i].paso <= n
    BY <1>3, ElementOfSeq DEF Hasta
  <2>2. s[i].paso \in Nat
    BY <2>1 DEF Efecto
  <2> QED BY <2>1, <2>2
<1> QED BY <1>1, <1>2, <1>3

\* What a commit applies while a plan is executed or has been.
LEMMA Historia ==
    ASSUME Basico, Ordenado, NEW h \in Hilos, pet[h] # Nulo, pet[h].lugar \in EnPlan,
           NEW k \in Claves, pet[h].clave = k
    PROVE  LET t == aplicado[k] \o sesion[h]
               n == Len(pet[h].detalle)
           IN /\ n \in Nat /\ Len(aplicado[k]) \in Nat
              /\ t \in Seq(Efecto) /\ Creciente(t) /\ Hasta(t, n)
              /\ Len(aplicado[k]) <= Len(t) /\ \A i \in 1..Len(aplicado[k]) : t[i] = aplicado[k][i]
<1>1. aplicado[k] \in Seq(Efecto) /\ sesion[h] \in Seq(Efecto) /\ Len(pet[h].detalle) \in Nat
  BY EnPeticion DEF Basico, Tipado, Peticion
<1>3. Len(aplicado[k]) \in Nat
  BY <1>1
<1>2. /\ Creciente(aplicado[k]) /\ Creciente(sesion[h]) /\ Precede(aplicado[k], sesion[h])
      /\ Hasta(aplicado[k], Len(pet[h].detalle)) /\ Hasta(sesion[h], Len(pet[h].detalle))
  BY DEF Ordenado, Reciente
<1> QED BY <1>1, <1>2, <1>3, Concatena, ZenonT(30)

\* The commit of a step that is done.
LEMMA HistoriaMas ==
    ASSUME Basico, Ordenado, NEW h \in Hilos, En(h, "ejecuta"), NEW k \in Claves, pet[h].clave = k
    PROVE  LET t == aplicado[k] \o sesion[h] \o EfectoDe(h, TRUE)
           IN /\ t \in Seq(Efecto) /\ Creciente(t) /\ Hasta(t, PasoActual(h))
              /\ Len(aplicado[k]) <= Len(t) /\ \A i \in 1..Len(aplicado[k]) : t[i] = aplicado[k][i]
<1> DEFINE t == aplicado[k] \o sesion[h]
           n == Len(pet[h].detalle)
           e == EfectoDe(h, TRUE)
<1>1. pet[h] # Nulo /\ pet[h].lugar \in EnPlan
  BY DEF En, EnPlan
<1>2. /\ n \in Nat /\ t \in Seq(Efecto) /\ Creciente(t) /\ Hasta(t, n)
      /\ Len(aplicado[k]) \in Nat
      /\ Len(aplicado[k]) <= Len(t) /\ \A i \in 1..Len(aplicado[k]) : t[i] = aplicado[k][i]
  BY <1>1, Historia
<1>3. e = <<[paso |-> n + 1, completo |-> TRUE]>> /\ PasoActual(h) = n + 1
  BY DEF EfectoDe, PasoActual
<1> HIDE DEF t, n, e
<1>4. e \in Seq(Efecto) /\ Creciente(e) /\ Hasta(e, n + 1) /\ Precede(t, e)
  BY <1>2, <1>3, UnEfecto
<1>5. Hasta(t, n + 1)
  BY <1>2, HastaMas
<1>6. /\ t \o e \in Seq(Efecto) /\ Creciente(t \o e) /\ Hasta(t \o e, n + 1)
      /\ Len(t) <= Len(t \o e) /\ \A i \in 1..Len(t) : (t \o e)[i] = t[i]
  BY <1>2, <1>4, <1>5, Concatena
<1>7. Len(aplicado[k]) <= Len(t \o e) /\ \A i \in 1..Len(aplicado[k]) : (t \o e)[i] = aplicado[k][i]
  BY <1>2, <1>6
<1> QED BY <1>3, <1>6, <1>7 DEF t, e

LEMMA QuietasOrden ==
    ASSUME Basico, Basico', Ordenado, NEW h \in Hilos,
           \/ Consultar(h) \/ Procesar(h) \/ ConstruirContexto(h) \/ Elegir(h) \/ Agotar(h)
           \/ Rechazar(h) \/ \E salida \in Salidas : Contestar(h, salida)
    PROVE  Ordenado'
<1>1. /\ pet[h] # Nulo /\ pet[h].lugar \notin EnPlan
      /\ \A g \in Hilos \ {h} : pet'[g] = pet[g]
      /\ aplicado' = aplicado /\ sesion' = sesion
      /\ pet'[h] # Nulo =>
           /\ pet'[h].clave = pet[h].clave /\ pet'[h].lugar \notin EnPlan
           /\ pet'[h].lugar \notin Antes \cup {"error"} => pet[h].lugar \notin Antes \cup {"error"}
  BY PasosQuietos
<1>2. Reciente(h)
  BY DEF Ordenado
<1>3. \A k \in Claves : tabla'[k] = Nulo => tabla[k] = Nulo
  <2>1. CASE Procesar(h)
    <3>1. pet[h].clave \in Claves
      BY <2>1, EnPeticion DEF Procesar, En
    <3>2. tabla[pet[h].clave] \in Interaccion
      BY <2>1, <3>1, SoloEnSuClave DEF Procesar, En, Antes
    <3>3. [tabla[pet[h].clave] EXCEPT !.estado = "PROCESANDO"] \in Interaccion
      BY <3>2 DEF Interaccion, Abiertas
    <3>4. tabla' = [tabla EXCEPT ![pet[h].clave] = [tabla[pet[h].clave] EXCEPT !.estado = "PROCESANDO"]]
      BY <2>1 DEF Procesar
    <3> QED BY <3>1, <3>3, <3>4 DEF Basico, Tipado
  <2>2. CASE ~Procesar(h)
    <3>1. tabla' = tabla
      BY <2>2 DEF Consultar, ConstruirContexto, Elegir, Agotar, Rechazar, Contestar, datos
    <3> QED BY <3>1
  <2> QED BY <2>1, <2>2
<1>4. pet'[h] # Nulo /\ pet'[h].clave \in Claves /\ pet'[h].lugar \notin Antes \cup {"error"}
        => aplicado[pet'[h].clave] = <<>>
  BY <1>1, <1>2 DEF Reciente
<1>5. sesion'[h] = <<>>
  BY <1>1, <1>2 DEF Reciente
<1> QED BY <1>1, <1>3, <1>4, <1>5, OrdenQuieto

LEMMA CrearOrden ==
    ASSUME Basico, Basico', Ordenado, NEW h \in Hilos, Crear(h) PROVE Ordenado'
<1> DEFINE k == pet[h].clave
           f == [tipo |-> pet[h].tipo, estado |-> "PENDIENTE", detalle |-> <<>>]
<1>1. pet[h] # Nulo /\ pet[h].lugar = "crea" /\ sesion' = sesion /\ aplicado' = aplicado
  BY DEF Crear, En
<1>2. pet[h] \in Peticion /\ k \in Claves /\ sesion[h] = <<>>
  BY <1>1, EnPeticion DEF Ordenado, Reciente, EnPlan
<1>3. CASE Termina(h) /\ tabla' = tabla
  BY <1>1, <1>2, <1>3, OrdenQuieto DEF Termina, Basico, Tipado
<1>4. ASSUME ~Choca(k), NEW lugar \in {"contexto", "procesa"}, Sigue(h, lugar),
             tabla' = [tabla EXCEPT ![k] = f]
      PROVE  Ordenado'
  <2> DEFINE v == [pet[h] EXCEPT !.lugar = lugar]
  <2>1. v.lugar = lugar /\ v.clave = k
    BY <1>2 DEF Peticion
  <2>2. pet'[h] = v /\ \A g \in Hilos \ {h} : pet'[g] = pet[g]
    BY <1>4 DEF Sigue, Basico, Tipado
  <2>3. aplicado[k] = <<>>
    BY <1>2, <1>4 DEF Choca, Ordenado
  <2>4. \A c \in Claves : tabla'[c] = Nulo => tabla[c] = Nulo
    BY <1>4 DEF Choca, Basico, Tipado
  <2> HIDE DEF v
  <2> QED BY <1>1, <1>2, <2>1, <2>2, <2>3, <2>4, OrdenQuieto DEF EnPlan
<1> QED BY <1>3, <1>4 DEF Crear

LEMMA AceptarPlanOrden ==
    ASSUME Basico, Basico', Ordenado, NEW h \in Hilos, NEW plan \in Planes, AceptarPlan(h, plan)
    PROVE  Ordenado'
<1> DEFINE lugar == IF plan = <<>> THEN "completa" ELSE "ejecuta"
           v == [pet[h] EXCEPT !.plan = plan, !.lugar = lugar]
           k == pet[h].clave
<1>1. pet[h] # Nulo /\ pet[h].lugar = "interpreta" /\ pet' = [pet EXCEPT ![h] = v]
      /\ UNCHANGED datos
  BY DEF AceptarPlan, En
<1>2. pet[h] \in Peticion /\ k \in Claves /\ pet[h].detalle = <<>>
  BY <1>1, EnPeticion DEF EnSuSitio
<1>3. v.lugar \in EnPlan /\ v.clave = k /\ v.detalle = <<>>
  BY <1>2 DEF Peticion, EnPlan
<1>4. sesion[h] = <<>> /\ aplicado[k] = <<>>
  BY <1>1, <1>2 DEF Ordenado, Reciente, EnPlan, Antes
<1> HIDE DEF v
<1>5. pet'[h] = v /\ \A g \in Hilos \ {h} : pet'[g] = pet[g]
  BY <1>1 DEF Basico, Tipado
<1>6. Reciente(h)'
  BY <1>1, <1>3, <1>4, <1>5, Vacias DEF Reciente, datos, EnPlan, Antes
<1> QED BY <1>1, <1>5, <1>6, OrdenDeOtros DEF datos

\* A report that grows by a step, and by those it stops.
LEMMA AlMenosUno ==
    ASSUME Basico, NEW h \in Hilos, En(h, "ejecuta"), NEW estado \in Resultados,
           NEW resto \in {<<>>, Omitidos(h)}
    PROVE  1 <= Len(<<Info(h, estado)>> \o resto)
<1>1. <<Info(h, estado)>> \in Seq(PasoInfo) /\ Len(<<Info(h, estado)>>) = 1
  BY OmitidosTipados
<1>2. resto \in Seq(PasoInfo)
  <2>1. CASE resto = <<>>
    BY <2>1, EmptySeq
  <2>2. CASE resto = Omitidos(h)
    BY <2>2, OmitidosTipados
  <2> QED BY <2>1, <2>2
<1> DEFINE nuevos == <<Info(h, estado)>> \o resto
<1>3. Len(nuevos) = 1 + Len(resto) /\ Len(resto) \in Nat
  BY <1>1, <1>2, ConcatProperties
<1>4. 1 <= Len(nuevos)
  <2> HIDE DEF nuevos
  <2> QED BY <1>3
<1> QED BY <1>4

LEMMA EfectuarOrden ==
    ASSUME Basico, Basico', Ordenado, NEW h \in Hilos, Completar(h) \/ FallarTrasConfirmar(h)
    PROVE  Ordenado'
<1>0. PICK estado \in {"completado", "fallido"}, resto \in {<<>>, Omitidos(h)} :
         Efectuar(h, <<Info(h, estado)>> \o resto)
  BY Efectuados
<1> DEFINE k == pet[h].clave
           nuevos == <<Info(h, estado)>> \o resto
           t == aplicado[k] \o sesion[h] \o EfectoDe(h, TRUE)
<1>1. En(h, "ejecuta") /\ Sigan(h, nuevos) /\ Confirma(h, EfectoDe(h, TRUE)) /\ tabla' = tabla
  BY <1>0 DEF Efectuar
<1>2. pet[h] # Nulo /\ pet[h].lugar = "ejecuta" /\ k \in Claves
  BY <1>1, EnPeticion DEF En
<1>3. nuevos \in Seq(PasoInfo) /\ Len(nuevos) <= Len(pet[h].plan) - Len(pet[h].detalle)
  BY <1>1, Cola DEF Resultados
<1>31. 1 <= Len(nuevos)
  BY <1>1, AlMenosUno DEF Resultados
<1> HIDE DEF nuevos
<1>4. /\ pet'[h] # Nulo /\ pet'[h].clave = k /\ pet'[h].lugar \in EnPlan
      /\ Len(pet'[h].detalle) \in Nat /\ PasoActual(h) <= Len(pet'[h].detalle)
      /\ \A g \in Hilos \ {h} : pet'[g] = pet[g]
  BY <1>1, <1>3, <1>31, TrasSigan
<1>5. t \in Seq(Efecto) /\ Creciente(t) /\ Hasta(t, PasoActual(h))
  BY <1>1, <1>2, HistoriaMas
<1>51. PasoActual(h) \in Nat
  BY <1>1, OmitidosTipados
<1>6. Hasta(t, Len(pet'[h].detalle))
  <2> HIDE DEF t
  <2> QED BY <1>4, <1>5, <1>51, HastaMas
<1>7. aplicado' = [aplicado EXCEPT ![k] = t] /\ sesion' = [sesion EXCEPT ![h] = <<>>]
  BY <1>1 DEF Confirma
<1> HIDE DEF t
<1>8. aplicado'[k] = t /\ sesion'[h] = <<>>
      /\ (\A c \in Claves \ {k} : aplicado'[c] = aplicado[c])
      /\ \A g \in Hilos \ {h} : sesion'[g] = sesion[g]
  BY <1>2, <1>7 DEF Basico, Tipado
<1>9. Reciente(h)'
  BY <1>2, <1>4, <1>6, <1>8, Vacias DEF Reciente, EnPlan, Antes
<1>10. Trabaja(h, k)
  BY <1>2 DEF Trabaja
<1>11. \A c \in Claves : aplicado'[c] = aplicado[c] \/ (Trabaja(h, c) /\ Creciente(aplicado'[c]))
  BY <1>5, <1>8, <1>10
<1> QED BY <1>1, <1>4, <1>8, <1>9, <1>11, OrdenDeOtros

\* A step that is not done: its session may hold what it wrote.
LEMMA SinConfirmarOrden ==
    ASSUME Basico, Basico', Ordenado, NEW h \in Hilos, En(h, "ejecuta"),
           NEW nuevos \in Seq(PasoInfo), 1 <= Len(nuevos),
           Len(nuevos) <= Len(pet[h].plan) - Len(pet[h].detalle), Sigan(h, nuevos),
           NEW s, s \in {<<>>, sesion[h], sesion[h] \o EfectoDe(h, FALSE)},
           sesion' = [sesion EXCEPT ![h] = s], tabla' = tabla, aplicado' = aplicado
    PROVE  Ordenado'
<1> DEFINE k == pet[h].clave
           n == Len(pet[h].detalle)
           e == EfectoDe(h, FALSE)
<1>1. pet[h] # Nulo /\ pet[h].lugar = "ejecuta" /\ k \in Claves /\ n \in Nat
      /\ aplicado[k] \in Seq(Efecto) /\ sesion[h] \in Seq(Efecto)
  BY OmitidosTipados DEF En, Basico, Tipado, Peticion
<1>2. /\ Creciente(aplicado[k]) /\ Creciente(sesion[h]) /\ Precede(aplicado[k], sesion[h])
      /\ Hasta(aplicado[k], n) /\ Hasta(sesion[h], n)
  BY <1>1 DEF Ordenado, Reciente, EnPlan
<1>3. e = <<[paso |-> n + 1, completo |-> FALSE]>> /\ PasoActual(h) = n + 1
  BY DEF EfectoDe, PasoActual
<1>4. /\ pet'[h] # Nulo /\ pet'[h].clave = k /\ pet'[h].lugar \in EnPlan
      /\ Len(pet'[h].detalle) \in Nat /\ n + 1 <= Len(pet'[h].detalle)
      /\ \A g \in Hilos \ {h} : pet'[g] = pet[g]
  BY <1>3, TrasSigan
<1> HIDE DEF n, e
<1>5. e \in Seq(Efecto) /\ Creciente(e) /\ Hasta(e, n + 1)
      /\ Precede(sesion[h], e) /\ Precede(aplicado[k], e)
  BY <1>1, <1>2, <1>3, UnEfecto
<1>6. Hasta(aplicado[k], n + 1) /\ Hasta(sesion[h], n + 1)
  BY <1>1, <1>2, HastaMas
<1>7. s \in Seq(Efecto) /\ Creciente(s) /\ Precede(aplicado[k], s) /\ Hasta(s, n + 1)
  <2>1. CASE s = <<>>
    BY <2>1, Vacias, EmptySeq
  <2>2. CASE s = sesion[h]
    BY <1>1, <1>2, <1>6, <2>2
  <2>3. CASE s = sesion[h] \o e
    <3>1. s \in Seq(Efecto) /\ Creciente(s) /\ Hasta(s, n + 1)
      BY <1>1, <1>2, <1>5, <1>6, <2>3, Concatena
    <3>2. Precede(aplicado[k], s)
      <4>1. \A i \in 1..Len(s) : \/ i \in 1..Len(sesion[h]) /\ s[i] = sesion[h][i]
                                 \/ i - Len(sesion[h]) \in 1..Len(e) /\ s[i] = e[i - Len(sesion[h])]
        BY <1>1, <1>5, <2>3, ConcatProperties
      <4> QED BY <1>2, <1>5, <4>1 DEF Precede
    <3> QED BY <3>1, <3>2
  <2> QED BY <2>1, <2>2, <2>3 DEF e
<1>8. Hasta(s, Len(pet'[h].detalle)) /\ Hasta(aplicado[k], Len(pet'[h].detalle))
  BY <1>1, <1>4, <1>6, <1>7, HastaMas
<1>9. sesion'[h] = s /\ \A g \in Hilos \ {h} : sesion'[g] = sesion[g]
  BY DEF Basico, Tipado
<1>10. Reciente(h)'
  BY <1>1, <1>4, <1>7, <1>8, <1>9 DEF Reciente, EnPlan, Antes
<1> QED BY <1>4, <1>9, <1>10, OrdenDeOtros

LEMMA NoCompletadosOrden ==
    ASSUME Basico, Basico', Ordenado, NEW h \in Hilos,
           \/ \E resto \in BOOLEAN : Desestimar(h, resto)
           \/ \E revierte \in BOOLEAN : Fallar(h, revierte)
    PROVE  Ordenado'
<1>1. ASSUME NEW estado \in Resultados, NEW resto \in {<<>>, Omitidos(h)}, En(h, "ejecuta"),
             Sigan(h, <<Info(h, estado)>> \o resto),
             NEW s \in {<<>>, sesion[h], sesion[h] \o EfectoDe(h, FALSE)},
             sesion' = [sesion EXCEPT ![h] = s], UNCHANGED <<tabla, aplicado>>
      PROVE  Ordenado'
  <2> DEFINE nuevos == <<Info(h, estado)>> \o resto
  <2>1. nuevos \in Seq(PasoInfo) /\ Len(nuevos) <= Len(pet[h].plan) - Len(pet[h].detalle)
    BY <1>1, Cola
  <2>2. 1 <= Len(nuevos)
    BY <1>1, AlMenosUno
  <2> HIDE DEF nuevos
  <2>3. Sigan(h, nuevos)
    BY <1>1 DEF nuevos
  <2> QED BY <1>1, <2>1, <2>2, <2>3, SinConfirmarOrden
<1>2. ASSUME NEW resto \in BOOLEAN, Desestimar(h, resto) PROVE Ordenado'
  BY <1>1, <1>2 DEF Desestimar, Resultados
<1>3. ASSUME NEW revierte \in BOOLEAN, Fallar(h, revierte) PROVE Ordenado'
  BY <1>1, <1>3 DEF Fallar, Resultados
<1> QED BY <1>2, <1>3

\* The commit that closes an interaction applies what the session still holds.
LEMMA HistoriaAlCerrar ==
    ASSUME Basico, Ordenado, NEW h \in Hilos,
           En(h, "completa") \/ En(h, "disculpa") \/ En(h, "error"),
           NEW k \in Claves, pet[h].clave = k
    PROVE  LET t == aplicado[k] \o sesion[h] \o <<>>
           IN /\ t \in Seq(Efecto) /\ Creciente(t)
              /\ Len(aplicado[k]) <= Len(t) /\ \A i \in 1..Len(aplicado[k]) : t[i] = aplicado[k][i]
<1> DEFINE t == aplicado[k] \o sesion[h]
<1>1. aplicado[k] \in Seq(Efecto) /\ sesion[h] \in Seq(Efecto) /\ Creciente(aplicado[k])
  BY DEF Basico, Tipado, Ordenado
<1>2. t \in Seq(Efecto) /\ Creciente(t)
      /\ Len(aplicado[k]) <= Len(t) /\ \A i \in 1..Len(aplicado[k]) : t[i] = aplicado[k][i]
  <2>1. CASE En(h, "completa")
    <3>1. pet[h] # Nulo /\ pet[h].lugar \in EnPlan
      BY <2>1 DEF En, EnPlan
    <3> QED BY <3>1, Historia
  <2>2. CASE En(h, "disculpa") \/ En(h, "error")
    <3>1. sesion[h] = <<>>
      BY <2>2 DEF Ordenado, Reciente, En, EnPlan
    <3>2. Precede(aplicado[k], sesion[h]) /\ Creciente(sesion[h])
      BY <3>1, Vacias
    <3> QED BY <1>1, <3>2, Concatena, ZenonT(30)
  <2> QED BY <2>1, <2>2
<1>3. t \o <<>> = t
  <2> HIDE DEF t
  <2> QED BY <1>2, ConcatEmptySeq
<1> QED BY <1>2, <1>3

LEMMA CierraOrden ==
    ASSUME Basico, Basico', Ordenado, NEW h \in Hilos,
           CerrarCompleta(h) \/ Disculparse(h) \/ CerrarConError(h)
    PROVE  Ordenado'
<1> DEFINE k == pet[h].clave
           t == aplicado[k] \o sesion[h] \o <<>>
<1>1. PICK estado \in Cerradas, detalle \in Seq(PasoInfo) : Cierra(h, estado, detalle)
  BY EnPeticion, EmptySeq DEF CerrarCompleta, Disculparse, CerrarConError, Cerradas, En, Peticion
<1>2. pet[h] # Nulo /\ pet[h].lugar \notin Antes /\ k \in Claves
  BY EnPeticion DEF CerrarCompleta, Disculparse, CerrarConError, En, Antes
<1>3. t \in Seq(Efecto) /\ Creciente(t)
  BY <1>2, HistoriaAlCerrar DEF CerrarCompleta, Disculparse, CerrarConError
<1>4. /\ aplicado' = [aplicado EXCEPT ![k] = t] /\ sesion' = [sesion EXCEPT ![h] = <<>>]
      /\ pet' = [pet EXCEPT ![h] = Nulo]
  BY <1>1 DEF Cierra, Confirma, Termina
<1> HIDE DEF t
<1>5. /\ aplicado'[k] = t /\ sesion'[h] = <<>> /\ pet'[h] = Nulo
      /\ \A c \in Claves \ {k} : aplicado'[c] = aplicado[c]
      /\ \A g \in Hilos \ {h} : sesion'[g] = sesion[g] /\ pet'[g] = pet[g]
  BY <1>2, <1>4 DEF Basico, Tipado
<1>6. \A c \in Claves : tabla'[c] = Nulo => tabla[c] = Nulo
  <2> DEFINE fila == [tabla[k] EXCEPT !.estado = estado, !.detalle = detalle]
  <2>1. tabla[k] \in Interaccion /\ tabla' = [tabla EXCEPT ![k] = fila]
    BY <1>1, <1>2, SoloEnSuClave DEF Cierra
  <2>2. \A c \in Claves \ {k} : tabla'[c] = tabla[c]
    BY <2>1 DEF Basico, Tipado
  <2>3. fila \in Interaccion
    BY <2>1 DEF Interaccion
  <2> HIDE DEF fila
  <2>4. tabla'[k] = fila /\ fila # Nulo
    BY <1>2, <2>1, <2>3, ConstantesAssumption DEF Basico, Tipado
  <2> QED BY <2>2, <2>4
<1>7. Reciente(h)'
  BY <1>5 DEF Reciente
<1>8. Trabaja(h, k)
  BY <1>2 DEF Trabaja, Antes
<1>9. \A c \in Claves : aplicado'[c] = aplicado[c] \/ (Trabaja(h, c) /\ Creciente(aplicado'[c]))
  BY <1>3, <1>5, <1>8
<1> QED BY <1>5, <1>6, <1>7, <1>9, OrdenDeOtros

\* A request that comes, or that loses its database.
LEMMA BordesOrden ==
    ASSUME Basico, Basico', Ordenado, NEW h \in Hilos,
           \/ FallarCierre(h) \/ PerderBase(h)
           \/ \E tipo \in Tipos, clave \in Claves \cup {Nulo} : Llegar(h, tipo, clave)
    PROVE  Ordenado'
<1>1. ASSUME FallarCierre(h) PROVE Ordenado'
  <2> DEFINE v == [pet[h] EXCEPT !.lugar = "error", !.plan = <<>>, !.detalle = <<>>]
  <2>1. /\ pet[h] # Nulo /\ pet' = [pet EXCEPT ![h] = v] /\ UNCHANGED <<tabla, aplicado>>
        /\ sesion' = [sesion EXCEPT ![h] = <<>>]
    BY <1>1 DEF FallarCierre, En
  <2>2. v.lugar = "error"
    BY <2>1, EnPeticion DEF Peticion
  <2> HIDE DEF v
  <2>3. /\ pet'[h] = v /\ sesion'[h] = <<>>
        /\ \A g \in Hilos \ {h} : pet'[g] = pet[g] /\ sesion'[g] = sesion[g]
    BY <2>1 DEF Basico, Tipado
  <2> QED BY <2>1, <2>2, <2>3, OrdenQuieto DEF EnPlan
<1>2. ASSUME PerderBase(h) PROVE Ordenado'
  <2>1. /\ pet' = [pet EXCEPT ![h] = Nulo] /\ sesion' = [sesion EXCEPT ![h] = <<>>]
        /\ UNCHANGED <<tabla, aplicado>>
    BY <1>2 DEF PerderBase, Termina
  <2>2. /\ pet'[h] = Nulo /\ sesion'[h] = <<>>
        /\ \A g \in Hilos \ {h} : pet'[g] = pet[g] /\ sesion'[g] = sesion[g]
    BY <2>1 DEF Basico, Tipado
  <2> QED BY <2>1, <2>2, OrdenQuieto
<1>3. ASSUME NEW tipo \in Tipos, NEW clave \in Claves \cup {Nulo}, Llegar(h, tipo, clave)
      PROVE  Ordenado'
  <2> DEFINE v == [lugar |-> IF tipo = "transcripcion" THEN "elige" ELSE "consulta",
                   tipo |-> tipo, clave |-> clave, modelo |-> 1, sonda |-> FALSE,
                   plan |-> <<>>, detalle |-> <<>>]
  <2>1. pet[h] = Nulo /\ pet' = [pet EXCEPT ![h] = v] /\ UNCHANGED datos
        /\ (clave = Nulo) = (tipo = "transcripcion")
    BY <1>3 DEF Llegar
  <2>2. v.lugar \in {"elige", "consulta"} /\ v.clave = clave
        /\ (v.lugar = "elige" => clave = Nulo)
    BY <2>1
  <2>3. sesion[h] = <<>>
    BY <2>1 DEF Ordenado, Reciente
  <2> HIDE DEF v
  <2>4. /\ pet'[h] = v /\ sesion'[h] = <<>>
        /\ \A g \in Hilos \ {h} : pet'[g] = pet[g] /\ sesion'[g] = sesion[g]
    BY <2>1, <2>3 DEF Basico, Tipado, datos
  <2>5. Nulo \notin Claves
    BY ConstantesAssumption
  <2> QED BY <2>1, <2>2, <2>4, <2>5, OrdenQuieto DEF EnPlan, Antes, datos
<1> QED BY <1>1, <1>2, <1>3

LEMMA CaerOrden == ASSUME Basico, Basico', Ordenado, Caer PROVE Ordenado'
<1>1. \A h \in Hilos : pet'[h] = Nulo /\ sesion'[h] = <<>>
  BY DEF Caer, Libre
<1>2. tabla' = tabla /\ aplicado' = aplicado
  BY DEF Caer
<1>3. \A h \in Hilos : Reciente(h)'
  BY <1>1 DEF Reciente
<1> QED BY <1>2, <1>3 DEF Ordenado

LEMMA InicioOrden == Init => Ordenado
  BY Vacias DEF Init, Ordenado, Reciente, Libre

LEMMA AvanzaOrden ==
    ASSUME Basico, Basico', Ordenado, NEW h \in Hilos, Avanza(h) PROVE Ordenado'
<1>1. ASSUME \/ Consultar(h) \/ Procesar(h) \/ ConstruirContexto(h) \/ Elegir(h) \/ Agotar(h)
             \/ Rechazar(h) \/ \E salida \in Salidas : Contestar(h, salida)
      PROVE  Ordenado'
  BY <1>1, QuietasOrden
<1>2. ASSUME \/ Crear(h) \/ Completar(h) \/ FallarTrasConfirmar(h)
             \/ \E plan \in Planes : AceptarPlan(h, plan)
      PROVE  Ordenado'
  BY <1>2, CrearOrden, EfectuarOrden, AceptarPlanOrden
<1>3. ASSUME \/ \E resto \in BOOLEAN : Desestimar(h, resto)
             \/ \E revierte \in BOOLEAN : Fallar(h, revierte)
      PROVE  Ordenado'
  BY <1>3, NoCompletadosOrden
<1>4. ASSUME CerrarCompleta(h) \/ Disculparse(h) \/ CerrarConError(h) PROVE Ordenado'
  BY <1>4, CierraOrden
<1>5. ASSUME FallarCierre(h) PROVE Ordenado'
  BY <1>5, BordesOrden
<1> QED BY <1>1, <1>2, <1>3, <1>4, <1>5 DEF Avanza

LEMMA PasoOrden == ASSUME Basico, Basico', Ordenado, [Next]_vars PROVE Ordenado'
<1>1. ASSUME UNCHANGED vars \/ \E m \in Modelos : Enfriar(m) PROVE Ordenado'
  <2>1. UNCHANGED <<pet, tabla, sesion, aplicado>>
    BY <1>1 DEF vars, Enfriar, datos
  <2> QED BY <2>1 DEF Ordenado, Reciente
<1> QED BY <1>1, AvanzaOrden, BordesOrden, CaerOrden DEF Next

LEMMA SiempreOrdenado == Spec => []Ordenado
<1>1. Basico /\ Basico' /\ Ordenado /\ [Next]_vars => Ordenado'
  BY PasoOrden
<1> QED BY <1>1, InicioOrden, SiempreBasico, PTL DEF Spec

(***************************************************************************)
(* The assistant implements InteraccionUnica: each step is one of its      *)
(* steps on one key, or leaves every interaction and its effects alone.    *)
(***************************************************************************)
Vista(k) ==
    IF tabla[k] = Nulo THEN Nulo
    ELSE [estado |-> tabla[k].estado, hechos |-> aplicado[k]]

LEMMA SinVista == ASSUME UNCHANGED <<tabla, aplicado>> PROVE UNCHANGED Unica!vars
  BY DEF Unica!vars

\* A step on one key, as a step of the abstract machine.
LEMMA VistaUnica ==
    ASSUME NEW k \in Claves,
           \A c \in Claves \ {k} : tabla'[c] = tabla[c] /\ aplicado'[c] = aplicado[c],
           \/ Vista(k) = Nulo /\ Vista(k)' = Unica!Nueva
           \/ Vista(k) = Unica!Nueva /\ Vista(k)' = [Unica!Nueva EXCEPT !.estado = "PROCESANDO"]
           \/ /\ Vista(k) # Nulo /\ Vista(k).estado = "PROCESANDO"
              /\ Vista(k)'.estado \in {"PROCESANDO"} \cup Cerradas
              /\ Unica!Prolonga(Vista(k).hechos, Vista(k)'.hechos)
    PROVE  Unica!Next
<1> DEFINE todas == [c \in Claves |-> IF tabla[c] = Nulo THEN Nulo
                       ELSE [estado |-> tabla[c].estado, hechos |-> aplicado[c]]]
<1>1. todas[k] = Vista(k) /\ todas'[k] = Vista(k)'
  BY DEF Vista
<1>2. \A otra \in Claves \ {k} : todas'[otra] = todas[otra]
  OBVIOUS
<1> HIDE DEF todas
<1>3. Unica!Nacer(k) \/ Unica!Empezar(k) \/ Unica!Avanzar(k)
  BY <1>1 DEF Unica!Nacer, Unica!Empezar, Unica!Avanzar, todas, Unica!Cerradas, Cerradas
<1> QED BY <1>2, <1>3 DEF Unica!Next, todas

LEMMA CrearUnica ==
    ASSUME Basico, Ordenado, NEW h \in Hilos, Crear(h) PROVE Unica!Next \/ UNCHANGED Unica!vars
<1>0. PICK k \in Claves : k = pet[h].clave
  BY EnPeticion DEF Crear, En
<1> DEFINE f == [tipo |-> pet[h].tipo, estado |-> "PENDIENTE", detalle |-> <<>>]
<1>1. pet[h] \in Peticion /\ pet[h].tipo # "transcripcion"
  BY EnPeticion DEF Crear, En
<1>2. CASE tabla' = tabla
  BY <1>2, SinVista DEF Crear
<1>3. CASE tabla[k] = Nulo /\ tabla' = [tabla EXCEPT ![k] = f] /\ aplicado' = aplicado
  <2>1. f \in Interaccion /\ f.estado = "PENDIENTE"
    BY <1>1, EmptySeq DEF Interaccion, Abiertas, Peticion, Tipos
  <2> HIDE DEF f
  <2>2. tabla'[k] = f /\ f # Nulo
        /\ \A c \in Claves \ {k} : tabla'[c] = tabla[c] /\ aplicado'[c] = aplicado[c]
    BY <1>1, <1>3, <2>1, ConstantesAssumption DEF Basico, Tipado
  <2>3. aplicado'[k] = <<>>
    BY <1>1, <1>3 DEF Ordenado
  <2>4. Vista(k) = Nulo /\ Vista(k)' = Unica!Nueva
    BY <1>3, <2>1, <2>2, <2>3 DEF Vista, Unica!Nueva
  <2> QED BY <1>1, <2>2, <2>4, VistaUnica
<1> QED BY <1>0, <1>2, <1>3 DEF Crear, Choca

LEMMA ProcesarUnica ==
    ASSUME Basico, Ordenado, NEW h \in Hilos, Procesar(h) PROVE Unica!Next
<1>0. PICK k \in Claves : k = pet[h].clave
  BY EnPeticion DEF Procesar, En
<1> DEFINE f == [tabla[k] EXCEPT !.estado = "PROCESANDO"]
<1>1. /\ pet[h] # Nulo /\ pet[h].lugar = "procesa"
      /\ tabla' = [tabla EXCEPT ![k] = f] /\ aplicado' = aplicado
  BY <1>0 DEF Procesar, En
<1>2. tabla[k] \in Interaccion /\ tabla[k].estado = "PENDIENTE"
  BY <1>0, <1>1, SoloEnSuClave DEF Antes, Etapa
<1>3. f \in Interaccion /\ f.estado = "PROCESANDO"
  BY <1>2 DEF Interaccion, Abiertas
<1> HIDE DEF f
<1>4. /\ tabla'[k] = f /\ f # Nulo /\ tabla[k] # Nulo
      /\ \A c \in Claves \ {k} : tabla'[c] = tabla[c] /\ aplicado'[c] = aplicado[c]
  BY <1>1, <1>2, <1>3, ConstantesAssumption DEF Basico, Tipado
<1>5. aplicado[k] = <<>> /\ aplicado'[k] = <<>>
  BY <1>0, <1>1 DEF Ordenado, Reciente, Antes, EnPlan
<1>6. Vista(k) = Unica!Nueva /\ Vista(k)' = [Unica!Nueva EXCEPT !.estado = "PROCESANDO"]
  BY <1>2, <1>3, <1>4, <1>5 DEF Vista, Unica!Nueva
<1> QED BY <1>1, <1>4, <1>6, VistaUnica

\* A commit that continues what was applied.
LEMMA ConfirmaUnica ==
    ASSUME Basico, NEW h \in Hilos, pet[h] # Nulo, NEW k \in Claves, pet[h].clave = k,
           pet[h].lugar \in EnPlan \cup {"disculpa", "error"},
           NEW t \in Seq(Efecto), aplicado' = [aplicado EXCEPT ![k] = t],
           Creciente(t), Len(aplicado[k]) <= Len(t),
           \A i \in 1..Len(aplicado[k]) : t[i] = aplicado[k][i],
           NEW f \in Interaccion, tabla' = [tabla EXCEPT ![k] = f],
           f.estado \in {"PROCESANDO"} \cup Cerradas
    PROVE  Unica!Next
<1>1. tabla[k] \in Interaccion /\ tabla[k].estado = "PROCESANDO"
  BY SoloEnSuClave DEF Antes, Etapa, EnPlan
<1>2. /\ tabla'[k] = f /\ aplicado'[k] = t
      /\ \A c \in Claves \ {k} : tabla'[c] = tabla[c] /\ aplicado'[c] = aplicado[c]
  BY DEF Basico, Tipado
<1>3. tabla[k] # Nulo /\ f # Nulo
  BY <1>1, ConstantesAssumption
<1>4. /\ Vista(k) = [estado |-> "PROCESANDO", hechos |-> aplicado[k]]
      /\ Vista(k)' = [estado |-> f.estado, hechos |-> t]
  BY <1>1, <1>2, <1>3 DEF Vista
<1>5. Vista(k) # Nulo
  <2>1. aplicado[k] \in Seq(Efecto)
    BY DEF Basico, Tipado
  <2> QED BY <1>4, <2>1, ConstantesAssumption DEF Abiertas
<1>6. Unica!Prolonga(aplicado[k], t)
  BY DEF Unica!Prolonga, Creciente
<1>7. /\ Vista(k).estado = "PROCESANDO" /\ Vista(k)'.estado = f.estado
      /\ Unica!Prolonga(Vista(k).hechos, Vista(k)'.hechos)
  BY <1>4, <1>6
<1> QED BY <1>2, <1>5, <1>7, VistaUnica

LEMMA EfectuarUnica ==
    ASSUME Basico, Ordenado, NEW h \in Hilos, Completar(h) \/ FallarTrasConfirmar(h)
    PROVE  Unica!Next
<1> DEFINE k == pet[h].clave
           t == aplicado[k] \o sesion[h] \o EfectoDe(h, TRUE)
<1>1. /\ En(h, "ejecuta") /\ tabla' = tabla
      /\ aplicado' = [aplicado EXCEPT ![k] = t]
  BY DEF Completar, FallarTrasConfirmar, Efectuar, Confirma
<1>2. pet[h] # Nulo /\ pet[h].lugar = "ejecuta" /\ k \in Claves
  BY <1>1, EnPeticion DEF En
<1>3. /\ t \in Seq(Efecto) /\ Creciente(t)
      /\ Len(aplicado[k]) <= Len(t) /\ \A i \in 1..Len(aplicado[k]) : t[i] = aplicado[k][i]
  BY <1>1, <1>2, HistoriaMas
<1> HIDE DEF t
<1>4. tabla[k] \in Interaccion /\ tabla[k].estado = "PROCESANDO"
  BY <1>2, SoloEnSuClave DEF Antes, Etapa
<1>5. tabla' = [tabla EXCEPT ![k] = tabla[k]]
  BY <1>1, <1>2 DEF Basico, Tipado
<1> QED BY <1>1, <1>2, <1>3, <1>4, <1>5, ConfirmaUnica DEF EnPlan

LEMMA CierraUnica ==
    ASSUME Basico, Ordenado, NEW h \in Hilos,
           CerrarCompleta(h) \/ Disculparse(h) \/ CerrarConError(h)
    PROVE  Unica!Next
<1> DEFINE k == pet[h].clave
           t == aplicado[k] \o sesion[h] \o <<>>
<1>1. PICK estado \in Cerradas, detalle \in Seq(PasoInfo) : Cierra(h, estado, detalle)
  BY EnPeticion, EmptySeq DEF CerrarCompleta, Disculparse, CerrarConError, Cerradas, En, Peticion
<1> DEFINE f == [tabla[k] EXCEPT !.estado = estado, !.detalle = detalle]
<1>2. /\ pet[h] # Nulo /\ k \in Claves /\ pet[h].lugar \notin Antes
      /\ pet[h].lugar \in EnPlan \cup {"disculpa", "error"}
  BY EnPeticion DEF CerrarCompleta, Disculparse, CerrarConError, En, EnPlan, Antes
<1>3. /\ t \in Seq(Efecto) /\ Creciente(t)
      /\ Len(aplicado[k]) <= Len(t) /\ \A i \in 1..Len(aplicado[k]) : t[i] = aplicado[k][i]
  BY <1>2, HistoriaAlCerrar DEF CerrarCompleta, Disculparse, CerrarConError
<1>4. tabla[k] \in Interaccion
  BY <1>2, SoloEnSuClave
<1>5. f \in Interaccion /\ f.estado \in Cerradas
  BY <1>4 DEF Interaccion
<1>6. tabla' = [tabla EXCEPT ![k] = f] /\ aplicado' = [aplicado EXCEPT ![k] = t]
  BY <1>1 DEF Cierra, Confirma
<1> HIDE DEF f, t
<1> QED BY <1>2, <1>3, <1>5, <1>6, ConfirmaUnica

LEMMA AvanzaUnica ==
    ASSUME Basico, Ordenado, NEW h \in Hilos, Avanza(h)
    PROVE  Unica!Next \/ UNCHANGED Unica!vars
<1>1. CASE Crear(h) \/ Procesar(h) \/ Completar(h) \/ FallarTrasConfirmar(h)
  BY <1>1, CrearUnica, ProcesarUnica, EfectuarUnica
<1>2. CASE CerrarCompleta(h) \/ Disculparse(h) \/ CerrarConError(h)
  BY <1>2, CierraUnica
<1>3. ASSUME \/ Consultar(h) \/ ConstruirContexto(h) \/ Elegir(h) \/ Agotar(h)
             \/ Rechazar(h) \/ \E salida \in Salidas : Contestar(h, salida)
             \/ \E plan \in Planes : AceptarPlan(h, plan)
             \/ \E resto \in BOOLEAN : Desestimar(h, resto)
             \/ \E revierte \in BOOLEAN : Fallar(h, revierte)
             \/ FallarCierre(h)
      PROVE  UNCHANGED <<tabla, aplicado>>
  BY <1>3 DEF Consultar, ConstruirContexto, Elegir, Agotar, Rechazar, Contestar, AceptarPlan,
     Desestimar, Fallar, FallarCierre, datos
<1> QED BY <1>1, <1>2, <1>3, SinVista DEF Avanza

\* However many requests carry a key and however they meet, fail or are
\* retried, their plan is applied once and in order while the interaction is
\* being processed, and a closed interaction is final.
THEOREM Unicidad == Spec => EsInteraccionUnica
<1>1. Init => Unica!Init
  BY DEF Init, Unica!Init
<1>2. Basico /\ Ordenado /\ [Next]_vars => [Unica!Next]_(Unica!vars)
  <2> SUFFICES ASSUME Basico, Ordenado, [Next]_vars PROVE Unica!Next \/ UNCHANGED Unica!vars
    OBVIOUS
  <2>1. ASSUME \/ UNCHANGED vars \/ Caer \/ \E m \in Modelos : Enfriar(m)
               \/ \E h \in Hilos : PerderBase(h)
               \/ \E h \in Hilos, tipo \in Tipos, clave \in Claves \cup {Nulo} :
                     Llegar(h, tipo, clave)
        PROVE  UNCHANGED <<tabla, aplicado>>
    BY <2>1 DEF vars, Caer, Enfriar, PerderBase, Llegar, datos
  <2> QED BY <2>1, AvanzaUnica, SinVista DEF Next
<1> QED BY <1>1, <1>2, SiempreBasico, SiempreOrdenado, PTL DEF Spec, EsInteraccionUnica, Unica!Spec

(***************************************************************************)
(* The report tells the truth: what it calls done has been committed, and  *)
(* what has been committed it calls done or failed, while the plan is      *)
(* executed and when it is closed.                                         *)
(***************************************************************************)
\* The steps of which some effects are all there.
Dadas(s) == {e.paso : e \in {s[i] : i \in {j \in DOMAIN s : s[j].completo}}}
SinFatales(d) == \A i \in DOMAIN d : ~Fatal(d[i])
OmiteTrasFatal(d) ==
    \A i \in DOMAIN d : d[i].estado = "omitido" <=> \E j \in 1..(i - 1) : Fatal(d[j])
Puntual(d, s) ==
    /\ Dichos(d, "completado") \subseteq Dadas(s)
    /\ Dadas(s) \subseteq Dichos(d, "completado") \cup Dichos(d, "fallido")
    /\ OmiteTrasFatal(d)

\* A plan goes on while nothing in its report is fatal, and what its session
\* holds is never a whole step.
Contado(h) ==
    /\ Dadas(sesion[h]) = {}
    /\ pet[h] # Nulo /\ pet[h].lugar \in EnPlan /\ pet[h].clave \in Claves =>
         /\ Puntual(pet[h].detalle, aplicado[pet[h].clave])
         /\ pet[h].lugar = "ejecuta" => SinFatales(pet[h].detalle)
Fiel(k) ==
    tabla[k] # Nulo /\ tabla[k].estado = "COMPLETADO" => Puntual(tabla[k].detalle, aplicado[k])
Veraz == (\A h \in Hilos : Contado(h)) /\ \A k \in Claves : Fiel(k)

LEMMA DadasDe ==
    ASSUME NEW s \in Seq(Efecto), NEW n
    PROVE  n \in Dadas(s) <=> \E i \in 1..Len(s) : s[i].completo /\ s[i].paso = n
  BY DEF Dadas

LEMMA DadasJuntas ==
    ASSUME NEW a \in Seq(Efecto), NEW b \in Seq(Efecto)
    PROVE  a \o b \in Seq(Efecto) /\ Dadas(a \o b) = Dadas(a) \cup Dadas(b)
<1> DEFINE s == a \o b
           m == Len(a)
           n == Len(b)
<1>1. /\ s \in Seq(Efecto) /\ Len(s) = m + n /\ m \in Nat /\ n \in Nat
      /\ \A i \in 1..(m + n) : s[i] = IF i <= m THEN a[i] ELSE b[i - m]
  BY ConcatProperties
<1> HIDE DEF s
<1>2. \A i \in 1..Len(s) : \/ i \in 1..m /\ s[i] = a[i]
                           \/ i - m \in 1..n /\ s[i] = b[i - m]
  BY <1>1
<1>3. \A i \in 1..m : i \in 1..Len(s) /\ s[i] = a[i]
  BY <1>1
<1>4. \A i \in 1..n : i + m \in 1..Len(s) /\ s[i + m] = b[i]
  <2> HIDE DEF m, n
  <2>1. ASSUME NEW i \in 1..n PROVE i + m \in 1..Len(s) /\ s[i + m] = b[i]
    <3>1. i \in Nat /\ 1 <= i /\ i <= n
      BY <1>1
    <3>2. i + m \in 1..(m + n) /\ ~(i + m <= m) /\ (i + m) - m = i
      BY <1>1, <3>1
    <3>3. s[i + m] = b[(i + m) - m]
      BY <1>1, <3>2
    <3> QED BY <1>1, <3>2, <3>3
  <2> QED BY <2>1
<1>5. ASSUME NEW x PROVE x \in Dadas(s) <=> x \in Dadas(a) \/ x \in Dadas(b)
  <2>1. x \in Dadas(s) <=> \E i \in 1..Len(s) : s[i].completo /\ s[i].paso = x
    BY <1>1, DadasDe
  <2>2. x \in Dadas(a) <=> \E i \in 1..m : a[i].completo /\ a[i].paso = x
    BY DadasDe
  <2>3. x \in Dadas(b) <=> \E i \in 1..n : b[i].completo /\ b[i].paso = x
    BY DadasDe
  <2>4. ASSUME x \in Dadas(s) PROVE x \in Dadas(a) \/ x \in Dadas(b)
    BY <1>2, <2>1, <2>2, <2>3, <2>4
  <2>5. ASSUME x \in Dadas(a) PROVE x \in Dadas(s)
    BY <1>3, <2>1, <2>2, <2>5
  <2>6. ASSUME x \in Dadas(b) PROVE x \in Dadas(s)
    <3>1. PICK i \in 1..n : b[i].completo /\ b[i].paso = x
      BY <2>3, <2>6
    <3>. QED BY <1>4, <2>1, <3>1
  <2> QED BY <2>4, <2>5, <2>6
<1>6. Dadas(s) = Dadas(a) \cup Dadas(b)
  BY <1>5
<1> QED BY <1>1, <1>6 DEF s

LEMMA SinDadas == Dadas(<<>>) = {}
  BY DEF Dadas

LEMMA UnaSola ==
    ASSUME NEW e \in Seq(Efecto), Len(e) = 1
    PROVE  Dadas(e) = IF e[1].completo THEN {e[1].paso} ELSE {}
<1>1. ASSUME NEW x PROVE x \in Dadas(e) <=> e[1].completo /\ x = e[1].paso
  <2>1. x \in Dadas(e) <=> \E i \in 1..Len(e) : e[i].completo /\ e[i].paso = x
    BY DadasDe
  <2>2. \A i \in 1..Len(e) : i = 1
    OBVIOUS
  <2>3. 1 \in 1..Len(e)
    OBVIOUS
  <2> QED BY <2>1, <2>2, <2>3
<1>2. CASE e[1].completo
  <2>1. Dadas(e) = {e[1].paso}
    BY <1>1, <1>2
  <2> QED BY <1>2, <2>1
<1>3. CASE ~e[1].completo
  <2>1. Dadas(e) = {}
    BY <1>1, <1>3
  <2> QED BY <1>3, <2>1
<1> QED BY <1>2, <1>3

LEMMA UnaDada ==
    ASSUME NEW n \in Nat, NEW b \in BOOLEAN, NEW e, e = <<[paso |-> n, completo |-> b]>>
    PROVE  e \in Seq(Efecto) /\ Dadas(e) = IF b THEN {n} ELSE {}
<1>1. e \in Seq(Efecto) /\ Len(e) = 1 /\ e[1].paso = n /\ e[1].completo = b
  BY DEF Efecto
<1>2. Dadas(e) = IF e[1].completo THEN {e[1].paso} ELSE {}
  BY <1>1, UnaSola
<1> QED BY <1>1, <1>2

\* One more step in the report, and those it stops.
LEMMA Crece ==
    ASSUME NEW d \in Seq(PasoInfo), NEW info \in PasoInfo, NEW resto \in Seq(PasoInfo),
           NEW s, NEW t, Puntual(d, s), SinFatales(d), info.estado # "omitido",
           \/ ~Fatal(info) /\ resto = <<>>
           \/ Fatal(info) /\ \A i \in DOMAIN resto : resto[i].estado = "omitido",
           NEW mas \in {{}, {Len(d) + 1}}, Dadas(t) = Dadas(s) \cup mas,
           info.estado = "completado" => mas # {},
           mas # {} => info.estado \in {"completado", "fallido"}
    PROVE  LET c == d \o (<<info>> \o resto)
           IN Puntual(c, t) /\ (~Fatal(info) => SinFatales(c))
<1> DEFINE c == d \o (<<info>> \o resto)
           m == Len(d)
           r == Len(resto)
<1>1. /\ m \in Nat /\ r \in Nat /\ DOMAIN d = 1..m /\ DOMAIN resto = 1..r
      /\ DOMAIN c = 1..(m + 1 + r)
      /\ \A i \in 1..m : c[i] = d[i]
      /\ c[m + 1] = info
      /\ \A i \in (m + 2)..(m + 1 + r) : c[i] = resto[i - m - 1] /\ i - m - 1 \in 1..r
  <2> DEFINE u == <<info>> \o resto
  <2>1. <<info>> \in Seq(PasoInfo) /\ Len(<<info>>) = 1 /\ <<info>>[1] = info
    OBVIOUS
  <2>2. /\ u \in Seq(PasoInfo) /\ Len(u) = 1 + r /\ r \in Nat
        /\ \A i \in 1..(1 + r) : u[i] = IF i <= 1 THEN <<info>>[i] ELSE resto[i - 1]
    BY <2>1, ConcatProperties
  <2> HIDE DEF u
  <2>3. /\ d \o u \in Seq(PasoInfo) /\ Len(d \o u) = m + Len(u) /\ m \in Nat
        /\ \A i \in 1..(m + Len(u)) : (d \o u)[i] = IF i <= m THEN d[i] ELSE u[i - m]
    <3>1. u \in Seq(PasoInfo)
      BY <2>2
    <3> HIDE DEF r
    <3> QED BY <3>1, ConcatProperties
  <2>4. c = d \o u
    BY DEF u
  <2> HIDE DEF c
  <2>5. u[1] = info /\ \A i \in 2..(1 + r) : u[i] = resto[i - 1]
    BY <2>1, <2>2
  <2>6. DOMAIN c = 1..(m + 1 + r)
    BY <2>2, <2>3, <2>4
  <2>7. \A i \in 1..m : c[i] = d[i]
    BY <2>2, <2>3, <2>4
  <2>8. c[m + 1] = info
    BY <2>2, <2>3, <2>4, <2>5
  <2>9. \A i \in (m + 2)..(m + 1 + r) : c[i] = resto[i - m - 1] /\ i - m - 1 \in 1..r
    BY <2>2, <2>3, <2>4, <2>5
  <2> QED BY <2>2, <2>3, <2>6, <2>7, <2>8, <2>9
<1> HIDE DEF c, m, r
<1>2. \A i \in DOMAIN c : i <= m \/ i = m + 1 \/ i \in (m + 2)..(m + 1 + r)
  BY <1>1
<1>3. \A i \in (m + 2)..(m + 1 + r) : Fatal(info) /\ c[i].estado = "omitido"
  <2>1. resto = <<>> => r = 0
    BY DEF r
  <2> QED BY <1>1, <2>1
<1>4. \A i \in 1..m : ~Fatal(c[i]) /\ c[i].estado # "omitido"
  <2>1. \A i \in 1..m : \A j \in 1..(i - 1) : j \in 1..m
    BY <1>1
  <2> QED BY <1>1, <2>1 DEF Puntual, OmiteTrasFatal, SinFatales
<1>5. \A i \in (m + 2)..(m + 1 + r) : ~Fatal(c[i])
  BY <1>3 DEF Fatal
<1>60. \A x, e : x \in Dichos(c, e) <=> x \in 1..(m + 1 + r) /\ c[x].estado = e
  BY <1>1 DEF Dichos
<1>61. \A x, e : x \in Dichos(d, e) <=> x \in 1..m /\ d[x].estado = e
  BY <1>1 DEF Dichos
<1>62. \A x : x \in Dadas(t) <=> x \in Dadas(s) \/ (mas # {} /\ x = m + 1)
  BY DEF m
<1>63. /\ Dichos(d, "completado") \subseteq Dadas(s)
       /\ Dadas(s) \subseteq Dichos(d, "completado") \cup Dichos(d, "fallido")
  BY DEF Puntual
<1>64. Dichos(c, "completado") \subseteq Dadas(t)
  <2>1. ASSUME NEW x \in Dichos(c, "completado") PROVE x \in Dadas(t)
    <3>1. x \in 1..(m + 1 + r) /\ c[x].estado = "completado"
      BY <1>60, <2>1
    <3>2. CASE x \in 1..m
      BY <1>1, <1>61, <1>62, <1>63, <3>1, <3>2
    <3>3. CASE x = m + 1
      BY <1>1, <1>62, <3>1, <3>3
    <3>4. CASE x \in (m + 2)..(m + 1 + r)
      BY <1>3, <3>1, <3>4
    <3> QED BY <1>1, <1>2, <3>1, <3>2, <3>3, <3>4
  <2> QED BY <2>1
<1>65. Dadas(t) \subseteq Dichos(c, "completado") \cup Dichos(c, "fallido")
  <2>1. ASSUME NEW x \in Dadas(t) PROVE x \in Dichos(c, "completado") \cup Dichos(c, "fallido")
    <3>1. CASE x \in Dadas(s)
      <4>1. x \in 1..m /\ d[x].estado \in {"completado", "fallido"}
        BY <1>61, <1>63, <3>1
      <4>2. x \in 1..(m + 1 + r) /\ c[x].estado \in {"completado", "fallido"}
        BY <1>1, <4>1
      <4> QED BY <1>60, <4>2
    <3>2. CASE mas # {} /\ x = m + 1
      <4>1. x \in 1..(m + 1 + r) /\ c[x].estado \in {"completado", "fallido"}
        BY <1>1, <3>2
      <4> QED BY <1>60, <4>1
    <3> QED BY <1>62, <3>1, <3>2
  <2> QED BY <2>1
<1>6. /\ Dichos(c, "completado") \subseteq Dadas(t)
      /\ Dadas(t) \subseteq Dichos(c, "completado") \cup Dichos(c, "fallido")
  BY <1>64, <1>65
<1>7. OmiteTrasFatal(c)
  <2> SUFFICES ASSUME NEW i \in DOMAIN c
               PROVE  c[i].estado = "omitido" <=> \E j \in 1..(i - 1) : Fatal(c[j])
    BY DEF OmiteTrasFatal
  <2>1. CASE i \in 1..m
    <3>1. \A j \in 1..(i - 1) : j \in 1..m
      BY <1>1, <2>1
    <3> QED BY <1>4, <2>1, <3>1
  <2>2. CASE i = m + 1
    <3>1. \A j \in 1..(i - 1) : j \in 1..m
      BY <1>1, <2>2
    <3> QED BY <1>1, <1>4, <2>2, <3>1
  <2>3. CASE i \in (m + 2)..(m + 1 + r)
    <3>1. m + 1 \in 1..(i - 1)
      BY <1>1, <2>3
    <3>2. Fatal(c[m + 1])
      BY <1>1, <1>3, <2>3
    <3> QED BY <1>3, <2>3, <3>1, <3>2
  <2> QED BY <1>1, <1>2, <2>1, <2>2, <2>3
<1>8. ASSUME ~Fatal(info) PROVE SinFatales(c)
  BY <1>1, <1>2, <1>3, <1>4, <1>8 DEF SinFatales
<1> QED BY <1>6, <1>7, <1>8 DEF Puntual, c

\* A step of one request leaves the reports of the others as true as they
\* were.
LEMMA VerazDeOtros ==
    ASSUME Basico, Veraz, NEW h \in Hilos,
           \A g \in Hilos \ {h} : pet'[g] = pet[g] /\ sesion'[g] = sesion[g],
           \A k \in Claves : aplicado'[k] = aplicado[k] \/ Trabaja(h, k),
           \A k \in Claves : Fiel(k)', Contado(h)'
    PROVE  Veraz'
<1>1. ASSUME NEW g \in Hilos \ {h} PROVE Contado(g)'
  <2>1. pet[g] # Nulo /\ pet[g].clave \in Claves /\ pet[g].lugar \in EnPlan
           => aplicado'[pet[g].clave] = aplicado[pet[g].clave]
    BY DEF Basico, Solos, Trabaja, EnPlan
  <2>2. Contado(g) /\ pet'[g] = pet[g] /\ sesion'[g] = sesion[g]
    BY DEF Veraz
  <2> QED BY <2>1, <2>2 DEF Contado
<1> QED BY <1>1 DEF Veraz

\* A step that commits nothing, and of no plan.
LEMMA VerazQuieto ==
    ASSUME Basico, Veraz, NEW h \in Hilos,
           \A g \in Hilos \ {h} : pet'[g] = pet[g] /\ sesion'[g] = sesion[g],
           aplicado' = aplicado, sesion'[h] \in {<<>>, sesion[h]},
           \A k \in Claves : tabla'[k] = tabla[k] \/ tabla'[k].estado # "COMPLETADO",
           pet'[h] # Nulo => pet'[h].lugar \notin EnPlan
    PROVE  Veraz'
<1>1. Contado(h)'
  BY SinDadas DEF Veraz, Contado
<1>2. \A k \in Claves : Fiel(k)'
  BY DEF Veraz, Fiel
<1> QED BY <1>1, <1>2, VerazDeOtros

LEMMA QuietasVeraz ==
    ASSUME Basico, Veraz, NEW h \in Hilos,
           \/ Consultar(h) \/ Procesar(h) \/ ConstruirContexto(h) \/ Elegir(h) \/ Agotar(h)
           \/ Rechazar(h) \/ \E salida \in Salidas : Contestar(h, salida)
    PROVE  Veraz'
<1>1. /\ \A g \in Hilos \ {h} : pet'[g] = pet[g]
      /\ aplicado' = aplicado /\ sesion' = sesion
      /\ pet'[h] # Nulo => pet'[h].lugar \notin EnPlan
  BY PasosQuietos
<1>2. \A k \in Claves : tabla'[k] = tabla[k] \/ tabla'[k].estado # "COMPLETADO"
  <2>1. CASE Procesar(h)
    <3> DEFINE f == [tabla[pet[h].clave] EXCEPT !.estado = "PROCESANDO"]
    <3>1. pet[h].clave \in Claves
      BY <2>1, EnPeticion DEF Procesar, En
    <3>2. tabla[pet[h].clave] \in Interaccion
      BY <2>1, <3>1, SoloEnSuClave DEF Procesar, En, Antes
    <3>3. f.estado = "PROCESANDO"
      BY <3>2 DEF Interaccion
    <3>4. tabla' = [tabla EXCEPT ![pet[h].clave] = f]
      BY <2>1 DEF Procesar
    <3> HIDE DEF f
    <3> QED BY <3>1, <3>3, <3>4 DEF Basico, Tipado
  <2>2. CASE ~Procesar(h)
    <3>1. tabla' = tabla
      BY <2>2 DEF Consultar, ConstruirContexto, Elegir, Agotar, Rechazar, Contestar, datos
    <3> QED BY <3>1
  <2> QED BY <2>1, <2>2
<1> QED BY <1>1, <1>2, VerazQuieto

LEMMA CrearVeraz == ASSUME Basico, Veraz, NEW h \in Hilos, Crear(h) PROVE Veraz'
<1> DEFINE k == pet[h].clave
           f == [tipo |-> pet[h].tipo, estado |-> "PENDIENTE", detalle |-> <<>>]
<1>1. pet[h] # Nulo /\ pet[h].lugar = "crea" /\ sesion' = sesion /\ aplicado' = aplicado
  BY DEF Crear, En
<1>2. pet[h] \in Peticion /\ k \in Claves
  BY <1>1, EnPeticion
<1>3. CASE Termina(h) /\ tabla' = tabla
  BY <1>1, <1>3, VerazQuieto DEF Termina, Basico, Tipado
<1>4. ASSUME NEW lugar \in {"contexto", "procesa"}, Sigue(h, lugar), tabla' = [tabla EXCEPT ![k] = f]
      PROVE  Veraz'
  <2> DEFINE v == [pet[h] EXCEPT !.lugar = lugar]
  <2>1. v.lugar = lugar
    BY <1>2 DEF Peticion
  <2>2. pet'[h] = v /\ \A g \in Hilos \ {h} : pet'[g] = pet[g]
    BY <1>4 DEF Sigue, Basico, Tipado
  <2>3. \A c \in Claves : tabla'[c] = tabla[c] \/ tabla'[c].estado # "COMPLETADO"
    BY <1>4 DEF Basico, Tipado
  <2> HIDE DEF v
  <2> QED BY <1>1, <2>1, <2>2, <2>3, VerazQuieto DEF EnPlan
<1> QED BY <1>3, <1>4 DEF Crear

LEMMA NadaContado == Puntual(<<>>, <<>>) /\ SinFatales(<<>>)
  BY SinDadas DEF Puntual, Dichos, OmiteTrasFatal, SinFatales

LEMMA AceptarPlanVeraz ==
    ASSUME Basico, Ordenado, Veraz, NEW h \in Hilos, NEW plan \in Planes, AceptarPlan(h, plan)
    PROVE  Veraz'
<1> DEFINE lugar == IF plan = <<>> THEN "completa" ELSE "ejecuta"
           v == [pet[h] EXCEPT !.plan = plan, !.lugar = lugar]
           k == pet[h].clave
<1>1. pet[h] # Nulo /\ pet[h].lugar = "interpreta" /\ pet' = [pet EXCEPT ![h] = v]
      /\ UNCHANGED datos
  BY DEF AceptarPlan, En
<1>2. pet[h] \in Peticion /\ k \in Claves /\ pet[h].detalle = <<>>
  BY <1>1, EnPeticion DEF EnSuSitio
<1>3. v.clave = k /\ v.detalle = <<>>
  BY <1>2 DEF Peticion
<1>4. aplicado[k] = <<>>
  BY <1>1, <1>2 DEF Ordenado, Reciente, EnPlan, Antes
<1> HIDE DEF v
<1>5. pet'[h] = v /\ \A g \in Hilos \ {h} : pet'[g] = pet[g]
  BY <1>1 DEF Basico, Tipado
<1>6. Contado(h)'
  BY <1>1, <1>3, <1>4, <1>5, NadaContado DEF Contado, datos, Veraz
<1>7. \A c \in Claves : Fiel(c)'
  BY <1>1 DEF Veraz, Fiel, datos
<1> QED BY <1>1, <1>5, <1>6, <1>7, VerazDeOtros DEF datos

\* Where a plan is executed its interaction is not closed.
LEMMA EnPlanAbierta ==
    ASSUME Basico, NEW h \in Hilos, En(h, "ejecuta")
    PROVE  /\ pet[h] # Nulo /\ pet[h].clave \in Claves /\ Trabaja(h, pet[h].clave)
           /\ tabla[pet[h].clave].estado # "COMPLETADO"
<1>1. pet[h] # Nulo /\ pet[h].lugar = "ejecuta"
  BY DEF En
<1>2. EnSuSitio(pet[h]) /\ pet[h].clave \in Claves /\ pet[h].clave # Nulo
  BY <1>1, EnPeticion, ConstantesAssumption
<1>3. tabla[pet[h].clave].estado = Etapa("ejecuta", pet[h].tipo)
  BY <1>1, <1>2 DEF EnSuSitio, Antes
<1>4. Etapa("ejecuta", pet[h].tipo) # "COMPLETADO"
  BY DEF Etapa
<1> QED BY <1>1, <1>2, <1>3, <1>4 DEF Trabaja

\* A step of a plan: what it adds to the report and what it commits agree.
LEMMA PasoContado ==
    ASSUME Basico, Veraz, NEW h \in Hilos, En(h, "ejecuta"),
           NEW estado \in Resultados \ {"omitido"}, NEW resto,
           \/ ~Fatal(Info(h, estado)) /\ resto = <<>>
           \/ Fatal(Info(h, estado)) /\ resto = Omitidos(h),
           Sigan(h, <<Info(h, estado)>> \o resto),
           NEW k \in Claves, pet[h].clave = k,
           NEW mas \in {{}, {PasoActual(h)}}, Dadas(aplicado'[k]) = Dadas(aplicado[k]) \cup mas,
           estado = "completado" => mas # {},
           mas # {} => estado \in {"completado", "fallido"},
           \A c \in Claves \ {k} : aplicado'[c] = aplicado[c],
           Dadas(sesion'[h]) = {}, \A g \in Hilos \ {h} : sesion'[g] = sesion[g],
           tabla' = tabla
    PROVE  Veraz'
<1> DEFINE info == Info(h, estado)
           nuevos == <<info>> \o resto
           d == pet[h].detalle
<1>1. /\ pet[h] # Nulo /\ pet[h].lugar = "ejecuta" /\ Trabaja(h, k)
      /\ tabla[k].estado # "COMPLETADO"
  BY EnPlanAbierta DEF En
<1>2. /\ d \in Seq(PasoInfo) /\ Len(d) \in Nat /\ Len(pet[h].plan) \in Nat
      /\ info \in PasoInfo /\ info.estado = estado /\ PasoActual(h) = Len(d) + 1
  <2>1. pet[h] \in Peticion /\ info \in PasoInfo
    BY OmitidosTipados
  <2>2. d \in Seq(PasoInfo) /\ pet[h].plan \in Seq(TiposPaso)
    BY <2>1 DEF Peticion
  <2>3. info.estado = estado /\ PasoActual(h) = Len(d) + 1
    BY DEF Info, PasoActual
  <2> HIDE DEF info
  <2> QED BY <2>1, <2>2, <2>3
<1>3. Puntual(d, aplicado[k]) /\ SinFatales(d)
  BY <1>1 DEF Veraz, Contado, EnPlan
<1>4. /\ resto \in Seq(PasoInfo) /\ resto \in {<<>>, Omitidos(h)}
      /\ \A i \in DOMAIN resto : resto[i].estado = "omitido"
  <2>1. CASE resto = <<>>
    BY <2>1, EmptySeq
  <2>2. CASE resto = Omitidos(h)
    BY <2>2, OmitidosTipados
  <2> QED BY <2>1, <2>2
<1>5. /\ nuevos \in Seq(PasoInfo) /\ Len(nuevos) <= Len(pet[h].plan) - Len(d)
      /\ Len(nuevos) = 1 + Len(resto) /\ Len(resto) \in Nat
  <2>1. nuevos \in Seq(PasoInfo) /\ Len(nuevos) <= Len(pet[h].plan) - Len(d)
    BY <1>4, Cola
  <2>2. <<info>> \in Seq(PasoInfo) /\ Len(<<info>>) = 1
    BY <1>2
  <2>3. Len(nuevos) = 1 + Len(resto) /\ Len(resto) \in Nat
    BY <1>4, <2>2, ConcatProperties
  <2> QED BY <2>1, <2>3
<1>6. /\ Puntual(d \o nuevos, aplicado'[k])
      /\ ~Fatal(info) => SinFatales(d \o nuevos)
  <2> HIDE DEF d, info
  <2>1. /\ mas \in {{}, {Len(d) + 1}} /\ Dadas(aplicado'[k]) = Dadas(aplicado[k]) \cup mas
        /\ info.estado = "completado" => mas # {}
        /\ mas # {} => info.estado \in {"completado", "fallido"}
    BY <1>2
  <2>2. \/ ~Fatal(info) /\ resto = <<>>
        \/ Fatal(info) /\ \A i \in DOMAIN resto : resto[i].estado = "omitido"
    BY <1>4 DEF info
  <2>3. info.estado # "omitido"
    BY <1>2
  <2> QED BY <1>2, <1>3, <1>4, <2>1, <2>2, <2>3, Crece
<1>7. /\ pet'[h] # Nulo /\ pet'[h].clave = k /\ pet'[h].lugar \in EnPlan
      /\ pet'[h].detalle = d \o nuevos
      /\ pet'[h].lugar = "ejecuta" => Len(pet'[h].detalle) < Len(pet[h].plan)
      /\ Len(pet'[h].detalle) = Len(d) + Len(nuevos)
      /\ \A g \in Hilos \ {h} : pet'[g] = pet[g]
  <2>1. 1 <= Len(nuevos)
    BY <1>5
  <2>2. Sigan(h, nuevos)
    OBVIOUS
  <2> HIDE DEF nuevos
  <2> QED BY <1>5, <2>1, <2>2, TrasSigan
<1>8. Fatal(info) => pet'[h].lugar # "ejecuta"
  <2>1. ASSUME Fatal(info) PROVE Len(resto) = Len(pet[h].plan) - PasoActual(h)
    BY <2>1, OmitidosTipados
  <2>2. ASSUME Fatal(info) PROVE Len(pet'[h].detalle) = Len(pet[h].plan)
    <3> HIDE DEF nuevos, d, info
    <3>1. Len(resto) = Len(pet[h].plan) - (Len(d) + 1)
      BY <1>2, <2>1, <2>2
    <3> QED BY <1>2, <1>5, <1>7, <3>1
  <2>3. ASSUME Fatal(info), pet'[h].lugar = "ejecuta" PROVE FALSE
    <3>1. Len(pet'[h].detalle) < Len(pet[h].plan) /\ Len(pet'[h].detalle) = Len(pet[h].plan)
      BY <1>7, <2>2, <2>3
    <3> QED BY <1>2, <3>1
  <2> QED BY <2>3
<1>9. Contado(h)'
  <2> HIDE DEF nuevos, d, info
  <2> QED BY <1>6, <1>7, <1>8 DEF Contado
<1>10. \A c \in Claves : Fiel(c)'
  <2>1. ASSUME NEW c \in Claves \ {k} PROVE Fiel(c)'
    BY DEF Veraz, Fiel
  <2>2. Fiel(k)'
    BY <1>1 DEF Fiel
  <2> QED BY <2>1, <2>2
<1>11. \A c \in Claves : aplicado'[c] = aplicado[c] \/ Trabaja(h, c)
  BY <1>1
<1>12. \A g \in Hilos \ {h} : pet'[g] = pet[g] /\ sesion'[g] = sesion[g]
  BY <1>7
<1> QED BY <1>9, <1>10, <1>11, <1>12, VerazDeOtros

LEMMA EfectuarVeraz ==
    ASSUME Basico, Veraz, NEW h \in Hilos, Completar(h) \/ FallarTrasConfirmar(h)
    PROVE  Veraz'
<1>0. PICK estado \in {"completado", "fallido"}, resto \in {<<>>, Omitidos(h)} :
         /\ Efectuar(h, <<Info(h, estado)>> \o resto)
         /\ \/ estado = "completado" /\ resto = <<>>
            \/ estado = "fallido" /\ resto = Omitidos(h)
  BY Efectuados
<1>01. En(h, "ejecuta")
  BY <1>0 DEF Efectuar
<1>02. PICK k \in Claves : k = pet[h].clave
  BY <1>01, OmitidosTipados
<1> DEFINE e == EfectoDe(h, TRUE)
           t == aplicado[k] \o sesion[h]
<1>1. /\ Sigan(h, <<Info(h, estado)>> \o resto)
      /\ aplicado' = [aplicado EXCEPT ![k] = t \o e] /\ sesion' = [sesion EXCEPT ![h] = <<>>]
      /\ tabla' = tabla
  BY <1>0, <1>02 DEF Efectuar, Confirma
<1>2. aplicado[k] \in Seq(Efecto) /\ sesion[h] \in Seq(Efecto)
  BY DEF Basico, Tipado
<1>3. t \in Seq(Efecto) /\ Dadas(t) = Dadas(aplicado[k]) \cup Dadas(sesion[h])
  BY <1>2, DadasJuntas
<1>4. e \in Seq(Efecto) /\ Dadas(e) = {PasoActual(h)}
  <2>1. PasoActual(h) \in Nat
    BY <1>01, OmitidosTipados
  <2> QED BY <2>1, UnaDada DEF EfectoDe
<1>5. Dadas(sesion[h]) = {}
  BY DEF Veraz, Contado
<1> HIDE DEF t, e
<1>6. Dadas(t \o e) = Dadas(aplicado[k]) \cup {PasoActual(h)}
  BY <1>3, <1>4, <1>5, DadasJuntas
<1>7. /\ aplicado'[k] = t \o e /\ sesion'[h] = <<>>
      /\ \A c \in Claves \ {k} : aplicado'[c] = aplicado[c]
      /\ \A g \in Hilos \ {h} : sesion'[g] = sesion[g]
  BY <1>1, <1>2 DEF Basico, Tipado
<1>8. Dadas(aplicado'[k]) = Dadas(aplicado[k]) \cup {PasoActual(h)} /\ Dadas(sesion'[h]) = {}
  BY <1>6, <1>7, SinDadas
<1>9. /\ estado \in Resultados \ {"omitido"}
      /\ \/ ~Fatal(Info(h, estado)) /\ resto = <<>>
         \/ Fatal(Info(h, estado)) /\ resto = Omitidos(h)
  BY <1>0 DEF Resultados, Fatal, Info
<1>10. /\ pet[h].clave = k /\ tabla' = tabla /\ {PasoActual(h)} # {}
       /\ \A c \in Claves \ {k} : aplicado'[c] = aplicado[c]
       /\ \A g \in Hilos \ {h} : sesion'[g] = sesion[g]
  BY <1>02, <1>1, <1>7
<1> DEFINE mas == {PasoActual(h)}
<1>11. /\ mas \in {{}, {PasoActual(h)}} /\ mas # {}
       /\ Dadas(aplicado'[k]) = Dadas(aplicado[k]) \cup mas
  BY <1>8
<1> HIDE DEF mas
<1> QED BY <1>01, <1>1, <1>8, <1>9, <1>10, <1>11, PasoContado

LEMMA NoCompletadosVeraz ==
    ASSUME Basico, Veraz, NEW h \in Hilos,
           \/ \E resto \in BOOLEAN : Desestimar(h, resto)
           \/ \E revierte \in BOOLEAN : Fallar(h, revierte)
    PROVE  Veraz'
<1>0. PICK k \in Claves : k = pet[h].clave
  BY OmitidosTipados DEF Desestimar, Fallar
<1>1. En(h, "ejecuta") /\ UNCHANGED <<tabla, aplicado>>
  BY DEF Desestimar, Fallar
<1>2. sesion[h] \in Seq(Efecto) /\ Dadas(sesion[h]) = {}
  BY DEF Basico, Tipado, Veraz, Contado
<1>3. ASSUME NEW estado \in {"rechazado", "fallido"}, NEW resto,
             \/ ~Fatal(Info(h, estado)) /\ resto = <<>>
             \/ Fatal(Info(h, estado)) /\ resto = Omitidos(h),
             Sigan(h, <<Info(h, estado)>> \o resto),
             NEW s, s \in {<<>>, sesion[h], sesion[h] \o EfectoDe(h, FALSE)},
             sesion' = [sesion EXCEPT ![h] = s]
      PROVE  Veraz'
  <2>1. EfectoDe(h, FALSE) \in Seq(Efecto) /\ Dadas(EfectoDe(h, FALSE)) = {}
    <3>1. PasoActual(h) \in Nat
      BY <1>1, OmitidosTipados
    <3> QED BY <3>1, UnaDada DEF EfectoDe
  <2>2. Dadas(sesion[h] \o EfectoDe(h, FALSE)) = {}
    BY <1>2, <2>1, DadasJuntas
  <2>3. Dadas(s) = {}
    BY <1>2, <1>3, <2>2, SinDadas
  <2>4. sesion'[h] = s /\ \A g \in Hilos \ {h} : sesion'[g] = sesion[g]
    BY <1>3 DEF Basico, Tipado
  <2>5. estado \in Resultados \ {"omitido"} /\ estado # "completado"
    BY DEF Resultados
  <2>6. Dadas(sesion'[h]) = {} /\ Dadas(aplicado'[k]) = Dadas(aplicado[k])
    BY <1>1, <2>3, <2>4
  <2>7. \A c \in Claves : aplicado'[c] = aplicado[c]
    BY <1>1
  <2> DEFINE mas == {}
  <2>8. /\ mas \in {{}, {PasoActual(h)}} /\ Dadas(aplicado'[k]) = Dadas(aplicado[k]) \cup mas
        /\ estado = "completado" => mas # {}
        /\ mas # {} => estado \in {"completado", "fallido"}
    BY <2>5, <2>6
  <2> HIDE DEF mas
  <2> QED BY <1>0, <1>1, <1>3, <2>4, <2>5, <2>6, <2>7, <2>8, PasoContado
<1>4. ASSUME NEW resto \in BOOLEAN, Desestimar(h, resto) PROVE Veraz'
  <2> DEFINE cola == IF TipoActual(h) = "ligado" THEN Omitidos(h) ELSE <<>>
             s == IF resto THEN sesion[h] \o EfectoDe(h, FALSE) ELSE sesion[h]
  <2>1. Sigan(h, <<Info(h, "rechazado")>> \o cola) /\ sesion' = [sesion EXCEPT ![h] = s]
    BY <1>4 DEF Desestimar
  <2>2. Fatal(Info(h, "rechazado")) <=> TipoActual(h) = "ligado"
    BY DEF Fatal, Info
  <2>3. \/ ~Fatal(Info(h, "rechazado")) /\ cola = <<>>
        \/ Fatal(Info(h, "rechazado")) /\ cola = Omitidos(h)
    BY <2>2
  <2>4. s \in {<<>>, sesion[h], sesion[h] \o EfectoDe(h, FALSE)}
    OBVIOUS
  <2> HIDE DEF cola, s
  <2> QED BY <1>3, <2>1, <2>3, <2>4
<1>5. ASSUME NEW revierte \in BOOLEAN, Fallar(h, revierte) PROVE Veraz'
  <2> DEFINE s == IF revierte THEN <<>> ELSE sesion[h]
  <2>1. Sigan(h, <<Info(h, "fallido")>> \o Omitidos(h)) /\ sesion' = [sesion EXCEPT ![h] = s]
    BY <1>5 DEF Fallar
  <2>2. Fatal(Info(h, "fallido"))
    BY DEF Fatal, Info
  <2>3. s \in {<<>>, sesion[h], sesion[h] \o EfectoDe(h, FALSE)}
    OBVIOUS
  <2> HIDE DEF s
  <2> QED BY <1>3, <2>1, <2>2, <2>3
<1> QED BY <1>4, <1>5

\* An interaction is closed with the report of what its commits have written.
LEMMA CierraVeraz ==
    ASSUME Basico, Ordenado, Veraz, NEW h \in Hilos,
           CerrarCompleta(h) \/ Disculparse(h) \/ CerrarConError(h)
    PROVE  Veraz'
<1>0. PICK k \in Claves : k = pet[h].clave
  BY EnPeticion DEF CerrarCompleta, Disculparse, CerrarConError, En
<1> DEFINE t == aplicado[k] \o sesion[h]
<1>1. PICK estado \in Cerradas, detalle \in Seq(PasoInfo) :
        /\ Cierra(h, estado, detalle)
        /\ estado = "COMPLETADO" =>
             \/ En(h, "completa") /\ detalle = pet[h].detalle
             \/ En(h, "disculpa") /\ detalle = <<>>
  BY EnPeticion, EmptySeq DEF CerrarCompleta, Disculparse, CerrarConError, Cerradas, En, Peticion
<1>2. pet[h] # Nulo /\ pet[h].lugar \notin Antes
  BY EnPeticion DEF CerrarCompleta, Disculparse, CerrarConError, En, Antes
<1>3. /\ aplicado[k] \in Seq(Efecto) /\ sesion[h] \in Seq(Efecto) /\ Dadas(sesion[h]) = {}
  BY <1>2 DEF Basico, Tipado, Veraz, Contado
<1>4. t \in Seq(Efecto) /\ Dadas(t) = Dadas(aplicado[k])
  <2>1. t \in Seq(Efecto) /\ Dadas(t) = Dadas(aplicado[k]) \cup Dadas(sesion[h])
    BY <1>3, DadasJuntas
  <2> QED BY <1>3, <2>1
<1>5. aplicado' = [aplicado EXCEPT ![k] = t] /\ sesion' = [sesion EXCEPT ![h] = <<>>]
      /\ pet' = [pet EXCEPT ![h] = Nulo]
  <2>1. t \o <<>> = t
    <3> HIDE DEF t
    <3> QED BY <1>4, ConcatEmptySeq
  <2> QED BY <1>0, <1>1, <2>1 DEF Cierra, Confirma, Termina
<1> HIDE DEF t
<1>6. /\ aplicado'[k] = t /\ sesion'[h] = <<>> /\ pet'[h] = Nulo
      /\ \A c \in Claves \ {k} : aplicado'[c] = aplicado[c]
      /\ \A g \in Hilos \ {h} : sesion'[g] = sesion[g] /\ pet'[g] = pet[g]
  BY <1>2, <1>5 DEF Basico, Tipado
<1>7. /\ tabla'[k].estado = estado /\ tabla'[k].detalle = detalle
      /\ \A c \in Claves \ {k} : tabla'[c] = tabla[c]
  <2> DEFINE fila == [tabla[k] EXCEPT !.estado = estado, !.detalle = detalle]
  <2>1. tabla[k] \in Interaccion /\ tabla' = [tabla EXCEPT ![k] = fila]
    BY <1>0, <1>1, <1>2, SoloEnSuClave DEF Cierra
  <2>2. fila.estado = estado /\ fila.detalle = detalle
    BY <2>1 DEF Interaccion
  <2> HIDE DEF fila
  <2> QED BY <1>2, <2>1, <2>2 DEF Basico, Tipado
<1>8. Fiel(k)'
  <2>1. estado = "COMPLETADO" => Puntual(detalle, aplicado[k])
    <3>1. ASSUME En(h, "completa") PROVE Puntual(pet[h].detalle, aplicado[k])
      BY <1>0, <1>2, <3>1 DEF Veraz, Contado, En, EnPlan
    <3>2. ASSUME En(h, "disculpa") PROVE Puntual(<<>>, aplicado[k])
      <4>1. aplicado[k] = <<>>
        BY <1>0, <1>2, <3>2 DEF Ordenado, Reciente, En, EnPlan, Antes
      <4> QED BY <4>1, NadaContado
    <3> QED BY <1>1, <3>1, <3>2
  <2>2. estado = "COMPLETADO" => Puntual(detalle, t)
    BY <1>4, <2>1 DEF Puntual
  <2>3. Puntual(detalle, t) => Puntual(tabla'[k].detalle, aplicado'[k])
    BY <1>6, <1>7
  <2>4. tabla'[k].estado = "COMPLETADO" => Puntual(tabla'[k].detalle, aplicado'[k])
    BY <1>7, <2>2, <2>3
  <2> QED BY <2>4 DEF Fiel
<1>9. \A c \in Claves : Fiel(c)'
  <2>1. ASSUME NEW c \in Claves \ {k} PROVE Fiel(c)'
    BY <1>6, <1>7 DEF Veraz, Fiel
  <2> QED BY <1>8, <2>1
<1>10. Contado(h)'
  BY <1>6, SinDadas DEF Contado
<1>11. \A c \in Claves : aplicado'[c] = aplicado[c] \/ Trabaja(h, c)
  BY <1>0, <1>2, <1>6 DEF Trabaja, Antes
<1>12. \A g \in Hilos \ {h} : pet'[g] = pet[g] /\ sesion'[g] = sesion[g]
  BY <1>6
<1> QED BY <1>9, <1>10, <1>11, <1>12, VerazDeOtros

LEMMA BordesVeraz ==
    ASSUME Basico, Veraz, NEW h \in Hilos,
           \/ FallarCierre(h) \/ PerderBase(h)
           \/ \E tipo \in Tipos, clave \in Claves \cup {Nulo} : Llegar(h, tipo, clave)
    PROVE  Veraz'
<1>1. /\ UNCHANGED <<tabla, aplicado>>
      /\ sesion' = [sesion EXCEPT ![h] = <<>>] \/ sesion' = sesion
  BY DEF FallarCierre, PerderBase, Llegar, datos
<1>2. sesion'[h] \in {<<>>, sesion[h]} /\ \A g \in Hilos \ {h} : sesion'[g] = sesion[g]
  BY <1>1 DEF Basico, Tipado
<1>3. ASSUME FallarCierre(h)
      PROVE  pet'[h].lugar = "error" /\ \A g \in Hilos \ {h} : pet'[g] = pet[g]
  <2> DEFINE v == [pet[h] EXCEPT !.lugar = "error", !.plan = <<>>, !.detalle = <<>>]
  <2>1. pet[h] # Nulo /\ pet' = [pet EXCEPT ![h] = v]
    BY <1>3 DEF FallarCierre, En
  <2>2. v.lugar = "error"
    BY <2>1, EnPeticion DEF Peticion
  <2> HIDE DEF v
  <2> QED BY <2>1, <2>2 DEF Basico, Tipado
<1>4. ASSUME PerderBase(h)
      PROVE  pet'[h] = Nulo /\ \A g \in Hilos \ {h} : pet'[g] = pet[g]
  BY <1>4 DEF PerderBase, Termina, Basico, Tipado
<1>5. ASSUME NEW tipo \in Tipos, NEW clave \in Claves \cup {Nulo}, Llegar(h, tipo, clave)
      PROVE  pet'[h].lugar \notin EnPlan /\ \A g \in Hilos \ {h} : pet'[g] = pet[g]
  <2> DEFINE v == [lugar |-> IF tipo = "transcripcion" THEN "elige" ELSE "consulta",
                   tipo |-> tipo, clave |-> clave, modelo |-> 1, sonda |-> FALSE,
                   plan |-> <<>>, detalle |-> <<>>]
  <2>1. v.lugar \notin EnPlan /\ pet' = [pet EXCEPT ![h] = v]
    BY <1>5 DEF Llegar, EnPlan
  <2> HIDE DEF v
  <2> QED BY <2>1 DEF Basico, Tipado
<1>6. (pet'[h] # Nulo => pet'[h].lugar \notin EnPlan) /\ \A g \in Hilos \ {h} : pet'[g] = pet[g]
  BY <1>3, <1>4, <1>5 DEF EnPlan
<1> QED BY <1>1, <1>2, <1>6, VerazQuieto

LEMMA CaerVeraz == ASSUME Veraz, Caer PROVE Veraz'
<1>1. \A h \in Hilos : pet'[h] = Nulo /\ sesion'[h] = <<>>
  BY DEF Caer, Libre
<1>2. tabla' = tabla /\ aplicado' = aplicado
  BY DEF Caer
<1>3. \A h \in Hilos : Contado(h)'
  BY <1>1, SinDadas DEF Contado
<1> QED BY <1>2, <1>3 DEF Veraz, Fiel

LEMMA InicioVeraz == Init => Veraz
  BY SinDadas DEF Init, Veraz, Contado, Fiel, Libre

LEMMA AvanzaVeraz ==
    ASSUME Basico, Ordenado, Veraz, NEW h \in Hilos, Avanza(h) PROVE Veraz'
<1>1. ASSUME \/ Consultar(h) \/ Procesar(h) \/ ConstruirContexto(h) \/ Elegir(h) \/ Agotar(h)
             \/ Rechazar(h) \/ \E salida \in Salidas : Contestar(h, salida)
      PROVE  Veraz'
  BY <1>1, QuietasVeraz
<1>2. ASSUME \/ Crear(h) \/ Completar(h) \/ FallarTrasConfirmar(h)
             \/ \E plan \in Planes : AceptarPlan(h, plan)
      PROVE  Veraz'
  BY <1>2, CrearVeraz, EfectuarVeraz, AceptarPlanVeraz
<1>3. ASSUME \/ \E resto \in BOOLEAN : Desestimar(h, resto)
             \/ \E revierte \in BOOLEAN : Fallar(h, revierte)
      PROVE  Veraz'
  BY <1>3, NoCompletadosVeraz
<1>4. ASSUME CerrarCompleta(h) \/ Disculparse(h) \/ CerrarConError(h) PROVE Veraz'
  BY <1>4, CierraVeraz
<1>5. ASSUME FallarCierre(h) PROVE Veraz'
  BY <1>5, BordesVeraz
<1> QED BY <1>1, <1>2, <1>3, <1>4, <1>5 DEF Avanza

LEMMA PasoVeraz == ASSUME Basico, Ordenado, Veraz, [Next]_vars PROVE Veraz'
<1>1. ASSUME UNCHANGED vars \/ \E m \in Modelos : Enfriar(m) PROVE Veraz'
  <2>1. UNCHANGED <<pet, tabla, sesion, aplicado>>
    BY <1>1 DEF vars, Enfriar, datos
  <2> QED BY <2>1 DEF Veraz, Contado, Fiel
<1> QED BY <1>1, AvanzaVeraz, BordesVeraz, CaerVeraz DEF Next

\* The report an interaction is closed with: the steps it calls done are
\* committed to the diagram, a step that is committed is called done or, when
\* it failed after its commit, failed, and the steps after the first that
\* failed or whose refusal stops the plan are those it omits.
THEOREM Informe == Spec => []InformeVeraz
<1>1. Basico /\ Ordenado /\ Veraz /\ [Next]_vars => Veraz'
  BY PasoVeraz
<1>2. Veraz => InformeVeraz
  <2>1. \A k \in Claves : Dadas(aplicado[k]) = Hechos(k)
    BY DEF Dadas, Hechos
  <2> QED BY <2>1 DEF Veraz, Fiel, Puntual, OmiteTrasFatal, InformeVeraz
<1> QED BY <1>1, <1>2, InicioVeraz, SiempreBasico, SiempreOrdenado, PTL DEF Spec
================================================================================
