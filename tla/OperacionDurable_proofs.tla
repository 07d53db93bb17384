------------------------ MODULE OperacionDurable_proofs ------------------------
(***************************************************************************)
(* Proofs about the facade of operations, for any number of requests,      *)
(* actions, users, classes and clients: the types of its state, that no    *)
(* class is written without its receipt, that an action writes once, that  *)
(* clients end up to date and that receipts and answers implement          *)
(* ReciboUnico.                                                            *)
(*                                                                         *)
(* The argument is one inductive invariant, IInv.  Its second conjunct     *)
(* says what a thread may rely on at each point of its way: in particular  *)
(* that between the commit and the answer the receipt on record is the one *)
(* the thread is about to return, which is what makes the answer of a      *)
(* confirmed request and the answer of its replay the same.                *)
(***************************************************************************)
EXTENDS OperacionDurable, TLAPS

PeticionEnCurso ==
    \A p \in Intentos :
        /\ paso[p] \notin {"libre", "fin"} => peticion[p] # Nulo
        /\ paso[p] # "fin" => respuesta[p] = Nulo
        /\ paso[p] = "preparada" =>
             /\ escritura[p] # Nulo
             /\ escritura[p].clase = peticion[p].clase
             /\ escritura[p].modo # "insertar" => filas[escritura[p].clase] # Nulo
        /\ paso[p] = "difundiendo" => operaciones[peticion[p].accion] = ReciboDe(p)

IInv == TypeOK /\ PeticionEnCurso /\ EfectosConRecibo

USE NuloAssumption

\* Nothing is stored and nobody is on his way at the start.
LEMMA InicioIInv == Init => IInv
<1> SUFFICES ASSUME Init PROVE IInv
  OBVIOUS
<1>1. TypeOK
  BY DEF Init, TypeOK, Pasos
<1>2. PeticionEnCurso
  BY DEF Init, PeticionEnCurso
<1>3. EfectosConRecibo
  BY DEF Init, EfectosConRecibo
<1> QED
  BY <1>1, <1>2, <1>3 DEF IInv

\* A request in flight has its fields.
LEMMA EnVueloTienePeticion ==
    ASSUME IInv, NEW p \in Intentos, paso[p] \notin {"libre", "fin"}
    PROVE  /\ peticion[p] \in Peticiones
           /\ peticion[p].accion \in Acciones
           /\ peticion[p].usuario \in Usuarios
           /\ peticion[p].clase \in Clases
           /\ peticion[p].tipo \in Tipos
<1>1. peticion[p] \in Peticiones
  BY DEF IInv, TypeOK, PeticionEnCurso
<1> QED
  BY <1>1 DEF Peticiones

\* Answering ends a thread and writes nothing.
LEMMA ResponderIInv ==
    ASSUME IInv, NEW p \in Intentos, NEW estado \in Estados,
           NEW e \in Efectos \cup {Nulo}, Responder(p, estado, e)
    PROVE  IInv'
<1>1. [estado |-> estado, efecto |-> e] \in Respuestas
  BY DEF Respuestas
<1>2. TypeOK'
  BY <1>1 DEF IInv, TypeOK, Responder, Ir, Pasos, base
<1>3. PeticionEnCurso'
  BY DEF IInv, TypeOK, PeticionEnCurso, Responder, Ir, base, ReciboDe
<1>4. EfectosConRecibo'
  BY DEF IInv, EfectosConRecibo, Responder, base
<1> QED
  BY <1>2, <1>3, <1>4 DEF IInv

\* A step of a thread that only moves it forward, before it has prepared.
LEMMA IrIInv ==
    ASSUME IInv, NEW p \in Intentos, paso[p] \notin {"libre", "fin"},
           NEW donde \in {"autorizada", "sin_recibo", "reconsultada"}, Ir(p, donde),
           UNCHANGED <<base, editores, peticion, hilo, respuesta, vista, solapadas>>
    PROVE  IInv'
<1>1. TypeOK'
  BY DEF IInv, TypeOK, Ir, Pasos, base, hilo
<1>2. PeticionEnCurso'
  BY DEF IInv, TypeOK, PeticionEnCurso, Ir, base, hilo, ReciboDe
<1>3. EfectosConRecibo'
  BY DEF IInv, EfectosConRecibo, base
<1> QED
  BY <1>1, <1>2, <1>3 DEF IInv

\* A request arrives.
LEMMA RecibirIInv ==
    ASSUME IInv, NEW p \in Intentos, NEW pet \in Peticiones, Recibir(p, pet)
    PROVE  IInv'
<1>1. TypeOK'
  BY DEF IInv, TypeOK, Recibir, Ir, Pasos, base, hilo
<1>2. PeticionEnCurso'
  BY DEF IInv, TypeOK, PeticionEnCurso, Recibir, Ir, base, hilo, ReciboDe
<1>3. EfectosConRecibo'
  BY DEF IInv, EfectosConRecibo, Recibir, base
<1> QED
  BY <1>1, <1>2, <1>3 DEF IInv

\* The three reads that precede the operation.
LEMMA LecturasIInv ==
    ASSUME IInv, NEW p \in Intentos,
           Autorizar(p) \/ ConsultarRecibo(p) \/ ReconsultarRecibo(p)
    PROVE  IInv'
<1>1. CASE Autorizar(p)
  BY <1>1, ResponderIInv, IrIInv DEF Autorizar, Estados
<1>2. CASE ConsultarRecibo(p)
  <2> DEFINE r == operaciones[peticion[p].accion]
  <2>1. r \in Recibos \cup {Nulo}
    BY <1>2, EnVueloTienePeticion DEF ConsultarRecibo, IInv, TypeOK
  <2>2. CASE r = Nulo
    BY <1>2, <2>2, IrIInv DEF ConsultarRecibo
  <2>3. CASE r # Nulo /\ Coincide(r, peticion[p])
    <3>1. r.efecto \in Efectos \cup {Nulo}
      BY <2>1, <2>3 DEF Recibos
    <3>2. Responder(p, "recibo", r.efecto)
      BY <1>2, <2>3 DEF ConsultarRecibo
    <3> QED
      BY <3>1, <3>2, ResponderIInv DEF Estados
  <2>4. CASE r # Nulo /\ ~Coincide(r, peticion[p])
    <3>1. Responder(p, "conflicto", Nulo)
      BY <1>2, <2>4 DEF ConsultarRecibo
    <3> QED
      BY <3>1, ResponderIInv DEF Estados
  <2> QED
    BY <2>2, <2>3, <2>4
<1>3. CASE ReconsultarRecibo(p)
  BY <1>3, ResponderIInv, IrIInv DEF ReconsultarRecibo, Estados
<1> QED
  BY <1>1, <1>2, <1>3

\* What a prepared operation would write is well formed: it overwrites and
\* deletes only rows that exist.
LEMMA PrepararIInv ==
    ASSUME IInv, NEW p \in Intentos, Preparar(p)
    PROVE  IInv'
<1> DEFINE pet == peticion[p]
<1>1. paso[p] \in {"reconsultada", "sin_recibo"}
  BY DEF Preparar
<1>2. /\ pet \in Peticiones /\ pet.accion \in Acciones
      /\ pet.clase \in Clases /\ pet.tipo \in Tipos
  BY <1>1, EnVueloTienePeticion
<1>3. CASE Crea(pet) = Viva(pet.clase)
  BY <1>3, ResponderIInv DEF Preparar, Estados
<1>4. CASE Crea(pet) # Viva(pet.clase)
  <2>1. /\ Ir(p, "preparada")
        /\ escritura' = [escritura EXCEPT ![p] = [clase |-> pet.clase, modo |-> Modo(pet)]]
        /\ efecto' = [efecto EXCEPT ![p] = Proyeccion(pet)]
        /\ solapadas' = solapadas \cup {c \in {pet.clase} : \E q \in Intentos : EnCurso(q, c)}
        /\ UNCHANGED <<base, editores, peticion, destinos, respuesta, vista>>
    BY <1>4 DEF Preparar
  <2>2. Modo(pet) \in Modos
    BY DEF Modo, Modos
  <2>3. Modo(pet) # "insertar" => filas[pet.clase] # Nulo
    BY <1>2, <1>4 DEF Modo, Crea, Viva, Tipos
  <2>4. Proyeccion(pet) \in Efectos \cup {Nulo}
    BY <1>2 DEF Proyeccion, Efectos
  <2>5. [clase |-> pet.clase, modo |-> Modo(pet)] \in Escrituras
    BY <1>2, <2>2 DEF Escrituras
  <2>6. TypeOK'
    BY <1>2, <2>1, <2>4, <2>5 DEF IInv, TypeOK, Ir, Pasos, base
  <2>7. PeticionEnCurso'
    <3>1. /\ paso'[p] = "preparada" /\ peticion' = peticion /\ respuesta' = respuesta
          /\ operaciones' = operaciones /\ filas' = filas
          /\ escritura'[p] = [clase |-> pet.clase, modo |-> Modo(pet)]
      BY <2>1 DEF IInv, TypeOK, Ir, base
    <3>2. \A q \in Intentos \ {p} :
            paso'[q] = paso[q] /\ escritura'[q] = escritura[q] /\ efecto'[q] = efecto[q]
      BY <2>1 DEF IInv, TypeOK, Ir
    <3>3. escritura'[p] # Nulo /\ respuesta[p] = Nulo /\ pet # Nulo
      BY <1>1, <1>2, <2>5, <3>1 DEF IInv, PeticionEnCurso
    <3> SUFFICES ASSUME NEW q \in Intentos
                 PROVE  /\ paso'[q] \notin {"libre", "fin"} => peticion'[q] # Nulo
                        /\ paso'[q] # "fin" => respuesta'[q] = Nulo
                        /\ paso'[q] = "preparada" =>
                             /\ escritura'[q] # Nulo
                             /\ escritura'[q].clase = peticion'[q].clase
                             /\ escritura'[q].modo # "insertar" =>
                                  filas'[escritura'[q].clase] # Nulo
                        /\ paso'[q] = "difundiendo" =>
                             operaciones'[peticion'[q].accion] = (ReciboDe(q))'
      BY DEF PeticionEnCurso
    <3>4. CASE q = p
      BY <2>3, <3>1, <3>3, <3>4
    <3>5. CASE q # p
      BY <3>1, <3>2, <3>5 DEF IInv, PeticionEnCurso, ReciboDe
    <3> QED
      BY <3>4, <3>5
  <2>8. EfectosConRecibo'
    BY <2>1 DEF IInv, EfectosConRecibo, base
  <2> QED
    BY <2>6, <2>7, <2>8 DEF IInv
<1> QED
  BY <1>3, <1>4

\* What a commit writes, for the proofs that follow.
LEMMA EscrituraConfirmada ==
    ASSUME IInv, NEW p \in Intentos, Confirmar(p)
    PROVE  LET w == escritura[p]
               a == peticion[p].accion
               f == FilaTras(filas[w.clase], w.modo, a)
           IN /\ a \in Acciones /\ w.clase \in Clases /\ w.clase = peticion[p].clase
              /\ operaciones[a] = Nulo
              /\ f \in Filas /\ f.valor = a
              /\ ReciboDe(p) \in Recibos /\ ReciboDe(p).clase = w.clase
              /\ filas' = [filas EXCEPT ![w.clase] = f]
              /\ operaciones' = [operaciones EXCEPT ![a] = ReciboDe(p)]
<1> DEFINE w == escritura[p]
           a == peticion[p].accion
           f == FilaTras(filas[w.clase], w.modo, a)
<1>1. /\ peticion[p] \in Peticiones /\ a \in Acciones /\ peticion[p].usuario \in Usuarios
      /\ peticion[p].clase \in Clases /\ peticion[p].tipo \in Tipos
  BY EnVueloTienePeticion DEF Confirmar
<1>2. w \in Escrituras /\ w.clase = peticion[p].clase /\ w.modo \in Modos
  BY DEF Confirmar, IInv, TypeOK, PeticionEnCurso, Escrituras
<1>3. w.modo # "insertar" => filas[w.clase] \in Filas
  BY <1>1, <1>2 DEF Confirmar, IInv, TypeOK, PeticionEnCurso
<1>4. f \in Filas /\ f.valor = a
  BY <1>1, <1>2, <1>3 DEF FilaTras, Filas, Modos
<1>5. efecto[p] \in Efectos \cup {Nulo}
  BY DEF IInv, TypeOK
<1>6. ReciboDe(p) \in Recibos /\ ReciboDe(p).clase = w.clase
  BY <1>1, <1>2, <1>5 DEF ReciboDe, Recibos
<1>7. operaciones[a] = Nulo
  BY DEF Confirmar, Choca
<1>8. /\ filas' = [filas EXCEPT ![w.clase] = f]
      /\ operaciones' = [operaciones EXCEPT ![a] = ReciboDe(p)]
  BY DEF Confirmar, Escribir
<1> QED
  BY <1>1, <1>2, <1>4, <1>6, <1>7, <1>8

\* Committing puts the class and its receipt together.
LEMMA ConfirmarIInv ==
    ASSUME IInv, NEW p \in Intentos, Confirmar(p)
    PROVE  IInv'
<1> DEFINE w == escritura[p]
           a == peticion[p].accion
           f == FilaTras(filas[w.clase], w.modo, a)
           r == ReciboDe(p)
<1>1. /\ a \in Acciones /\ w.clase \in Clases /\ w.clase = peticion[p].clase
      /\ operaciones[a] = Nulo
      /\ f \in Filas /\ f.valor = a
      /\ r \in Recibos /\ r.clase = w.clase
      /\ filas' = [filas EXCEPT ![w.clase] = f]
      /\ operaciones' = [operaciones EXCEPT ![a] = r]
  BY EscrituraConfirmada
<1>2. /\ paso[p] = "preparada" /\ peticion[p] # Nulo /\ respuesta[p] = Nulo
      /\ paso' = [paso EXCEPT ![p] = "difundiendo"]
      /\ escritura' = [escritura EXCEPT ![p] = Nulo]
      /\ destinos' = [destinos EXCEPT ![p] = Clientes]
      /\ UNCHANGED <<editores, peticion, efecto, respuesta, vista, solapadas>>
  BY DEF Confirmar, Ir, IInv, PeticionEnCurso
<1>3. r # Nulo /\ f # Nulo
  BY <1>1
<1>4. (ReciboDe(p))' = r
  BY <1>2 DEF ReciboDe
<1> HIDE DEF f, r
<1>5. TypeOK'
  BY <1>1, <1>2 DEF IInv, TypeOK, Pasos
<1>6. PeticionEnCurso'
  <2> SUFFICES ASSUME NEW q \in Intentos
               PROVE  /\ paso'[q] \notin {"libre", "fin"} => peticion'[q] # Nulo
                      /\ paso'[q] # "fin" => respuesta'[q] = Nulo
                      /\ paso'[q] = "preparada" =>
                           /\ escritura'[q] # Nulo
                           /\ escritura'[q].clase = peticion'[q].clase
                           /\ escritura'[q].modo # "insertar" =>
                                filas'[escritura'[q].clase] # Nulo
                      /\ paso'[q] = "difundiendo" =>
                           operaciones'[peticion'[q].accion] = (ReciboDe(q))'
    BY DEF PeticionEnCurso
  <2>1. CASE q = p
    <3>1. operaciones'[a] = r
      BY <1>1 DEF IInv, TypeOK
    <3>2. paso'[p] = "difundiendo"
      BY <1>2 DEF IInv, TypeOK
    <3> QED
      BY <1>2, <1>4, <2>1, <3>1, <3>2
  <2>2. CASE q # p
    <3>1. /\ paso'[q] = paso[q] /\ escritura'[q] = escritura[q]
          /\ peticion'[q] = peticion[q] /\ respuesta'[q] = respuesta[q]
      BY <1>2, <2>2 DEF IInv, TypeOK
    <3>2. \A c \in Clases : filas[c] # Nulo => filas'[c] # Nulo
      BY <1>1, <1>3 DEF IInv, TypeOK
    <3>3. paso[q] = "preparada" => escritura[q].clase \in Clases
      BY DEF IInv, TypeOK, PeticionEnCurso, Escrituras
    <3>4. /\ (ReciboDe(q))' = ReciboDe(q)
          /\ paso[q] = "difundiendo" => ReciboDe(q) # Nulo
      <4>1. (ReciboDe(q))' = ReciboDe(q)
        BY <1>2 DEF ReciboDe
      <4>2. CASE paso[q] = "difundiendo"
        <5>1. peticion[q] \in Peticiones /\ efecto[q] \in Efectos \cup {Nulo}
          BY <4>2 DEF IInv, TypeOK, PeticionEnCurso
        <5>2. ReciboDe(q) \in Recibos
          BY <5>1 DEF ReciboDe, Recibos, Peticiones
        <5> QED
          BY <4>1, <5>2
      <4> QED
        BY <4>1, <4>2
    <3>5. paso[q] = "difundiendo" => operaciones'[peticion[q].accion] = operaciones[peticion[q].accion]
      <4> SUFFICES ASSUME paso[q] = "difundiendo" PROVE operaciones'[peticion[q].accion] = operaciones[peticion[q].accion]
        OBVIOUS
      <4>1. peticion[q].accion # a
        BY <1>1, <3>4 DEF IInv, PeticionEnCurso
      <4> QED
        BY <1>1, <4>1 DEF IInv, TypeOK
    <3> QED
      BY <3>1, <3>2, <3>3, <3>4, <3>5 DEF IInv, PeticionEnCurso
  <2> QED
    BY <2>1, <2>2
<1>7. EfectosConRecibo'
  <2> SUFFICES ASSUME NEW c \in Clases, filas'[c] # Nulo
               PROVE  /\ operaciones'[filas'[c].valor] # Nulo
                      /\ operaciones'[filas'[c].valor].clase = c
    BY DEF EfectosConRecibo
  <2>1. CASE c = w.clase
    <3>1. filas'[c] = f /\ operaciones'[a] = r
      BY <1>1, <2>1 DEF IInv, TypeOK
    <3> QED
      BY <1>1, <1>3, <2>1, <3>1
  <2>2. CASE c # w.clase
    <3>1. filas'[c] = filas[c] /\ filas[c] \in Filas
      BY <1>1, <2>2 DEF IInv, TypeOK
    <3>2. /\ operaciones[filas[c].valor] # Nulo
          /\ operaciones[filas[c].valor].clase = c
      BY <3>1 DEF IInv, EfectosConRecibo
    <3>3. operaciones'[filas[c].valor] = operaciones[filas[c].valor]
      BY <1>1, <3>1, <3>2 DEF IInv, TypeOK, Filas
    <3> QED
      BY <3>1, <3>2, <3>3
  <2> QED
    BY <2>1, <2>2
<1> QED
  BY <1>5, <1>6, <1>7 DEF IInv

\* A frame of a broadcast changes what a client shows, and no row.
LEMMA DifundirIInv ==
    ASSUME IInv, NEW p \in Intentos, NEW k \in Clientes, Difundir(p, k)
    PROVE  IInv'
<1>1. vista' \in [Clientes -> [Clases -> Acciones \cup {Nulo}]]
  <2>1. CASE efecto[p] = Nulo
    BY <2>1 DEF Difundir, IInv, TypeOK
  <2>2. CASE efecto[p] # Nulo
    <3>1. efecto[p].clase \in Clases /\ efecto[p].valor \in Acciones \cup {Nulo}
      BY <2>2 DEF IInv, TypeOK, Efectos
    <3> QED
      BY <2>2, <3>1 DEF Difundir, IInv, TypeOK
  <2> QED
    BY <2>1, <2>2
<1>2. TypeOK'
  BY <1>1 DEF IInv, TypeOK, Difundir, base
<1>3. PeticionEnCurso'
  BY DEF IInv, PeticionEnCurso, Difundir, base, ReciboDe
<1>4. EfectosConRecibo'
  BY DEF IInv, EfectosConRecibo, Difundir, base
<1> QED
  BY <1>2, <1>3, <1>4 DEF IInv

\* A crash ends every request in flight and keeps the tables.
LEMMA CaidaIInv ==
    ASSUME IInv, Caida
    PROVE  IInv'
<1>1. Visible \in [Clases -> Acciones \cup {Nulo}]
  BY DEF Visible, Viva, IInv, TypeOK, Filas
<1>2. [estado |-> "perdida", efecto |-> Nulo] \in Respuestas
  BY DEF Respuestas, Estados
<1>3. TypeOK'
  BY <1>1, <1>2 DEF IInv, TypeOK, Caida, Pasos, base
<1>4. \A q \in Intentos : paso'[q] \in {"libre", "fin"}
  BY DEF Caida, EnVuelo, IInv, TypeOK
<1>5. \A q \in Intentos : paso'[q] = "libre" => respuesta'[q] = Nulo
  BY DEF Caida, EnVuelo, IInv, TypeOK, PeticionEnCurso
<1>6. PeticionEnCurso'
  BY <1>4, <1>5 DEF PeticionEnCurso
<1>7. EfectosConRecibo'
  BY DEF IInv, EfectosConRecibo, Caida, base
<1> QED
  BY <1>3, <1>6, <1>7 DEF IInv

\* Losing the right to edit, and steps that change nothing.
LEMMA RevocarIInv ==
    ASSUME IInv, (\E u \in Usuarios : Revocar(u)) \/ UNCHANGED vars
    PROVE  IInv'
<1>1. TypeOK'
  BY DEF IInv, TypeOK, Revocar, vars, base, hilo
<1>2. (PeticionEnCurso /\ EfectosConRecibo)'
  BY DEF IInv, PeticionEnCurso, EfectosConRecibo, Revocar, vars, base, hilo, ReciboDe
<1> QED
  BY <1>1, <1>2 DEF IInv

\* Every step keeps the invariant.
LEMMA PasoIInv == IInv /\ [Next]_vars => IInv'
<1> SUFFICES ASSUME IInv, [Next]_vars PROVE IInv'
  OBVIOUS
<1>1. ASSUME NEW p \in Intentos, Avanzar(p) PROVE IInv'
  <2>1. CASE Preparar(p)
    BY <2>1, PrepararIInv
  <2>2. CASE Confirmar(p)
    BY <2>2, ConfirmarIInv
  <2>3. CASE ConfirmarFalla(p)
    BY <2>3, ResponderIInv DEF ConfirmarFalla, Estados
  <2>4. CASE DevolverRecibo(p)
    <3>1. efecto[p] \in Efectos \cup {Nulo}
      BY DEF IInv, TypeOK
    <3> QED
      BY <2>4, <3>1, ResponderIInv DEF DevolverRecibo, Estados
  <2> QED
    BY <1>1, <2>1, <2>2, <2>3, <2>4, LecturasIInv, DifundirIInv DEF Avanzar
<1>2. ASSUME NEW p \in Intentos, NEW pet \in Peticiones, Recibir(p, pet) PROVE IInv'
  BY <1>2, RecibirIInv
<1> QED
  BY <1>1, <1>2, RevocarIInv, CaidaIInv DEF Next

\* IInv holds in every reachable state.
THEOREM Inductivo == Spec => []IInv
  BY InicioIInv, PasoIInv, PTL DEF Spec

\* The tables, the threads and the clients keep their types.
THEOREM TiposCorrectos == Spec => []TypeOK
<1>1. IInv => TypeOK
  BY DEF IInv
<1> QED
  BY Inductivo, <1>1, PTL

\* No class is written without the receipt of the action that wrote it.
THEOREM NadaSinRecibo == Spec => []EfectosConRecibo
<1>1. IInv => EfectosConRecibo
  BY DEF IInv
<1> QED
  BY Inductivo, <1>1, PTL

\* A step that is not a commit touches neither table.
LEMMA SoloConfirmarEscribe ==
    ASSUME [Next]_vars, \A p \in Intentos : ~Confirmar(p)
    PROVE  filas' = filas /\ operaciones' = operaciones
<1>1. ASSUME NEW p \in Intentos, Avanzar(p) PROVE filas' = filas /\ operaciones' = operaciones
  BY <1>1 DEF Avanzar, Autorizar, ConsultarRecibo, ReconsultarRecibo, Preparar,
              ConfirmarFalla, Difundir, DevolverRecibo, Responder, base
<1>2. ASSUME NEW p \in Intentos, NEW pet \in Peticiones, Recibir(p, pet)
      PROVE  filas' = filas /\ operaciones' = operaciones
  BY <1>2 DEF Recibir, base
<1>3. CASE \E u \in Usuarios : Revocar(u)
  BY <1>3 DEF Revocar, base
<1>4. CASE Caida
  BY <1>4 DEF Caida, base
<1>5. CASE UNCHANGED vars
  BY <1>5 DEF vars, base
<1> QED
  BY <1>1, <1>2, <1>3, <1>4, <1>5 DEF Next

\* However often a request is repeated its action writes at most once, and
\* a receipt, once given, is never rewritten.
THEOREM NadaSeEscribeDosVeces == Spec => EscribeUnaVez
<1> DEFINE Paso ==
      /\ \A a \in Acciones : operaciones[a] # Nulo => operaciones'[a] = operaciones[a]
      /\ \A c \in Clases : filas'[c] # filas[c] =>
           \E a \in Acciones : /\ operaciones[a] = Nulo /\ operaciones'[a] # Nulo
                              /\ operaciones'[a].clase = c
                              /\ filas'[c] # Nulo /\ filas'[c].valor = a
<1>1. IInv /\ [Next]_vars => [Paso]_vars
  <2> SUFFICES ASSUME IInv, [Next]_vars PROVE Paso
    OBVIOUS
  <2>1. CASE \A p \in Intentos : ~Confirmar(p)
    BY <2>1, SoloConfirmarEscribe
  <2>2. ASSUME NEW p \in Intentos, Confirmar(p) PROVE Paso
    <3> DEFINE w == escritura[p]
               a == peticion[p].accion
               f == FilaTras(filas[w.clase], w.modo, a)
               r == ReciboDe(p)
    <3>1. /\ a \in Acciones /\ w.clase \in Clases /\ operaciones[a] = Nulo
          /\ f \in Filas /\ f.valor = a /\ r \in Recibos /\ r.clase = w.clase
          /\ filas' = [filas EXCEPT ![w.clase] = f]
          /\ operaciones' = [operaciones EXCEPT ![a] = r]
      BY <2>2, EscrituraConfirmada
    <3> HIDE DEF f, r
    <3>2. /\ operaciones'[a] = r /\ filas'[w.clase] = f /\ r # Nulo /\ f # Nulo
          /\ \A b \in Acciones : b # a => operaciones'[b] = operaciones[b]
          /\ \A c \in Clases : c # w.clase => filas'[c] = filas[c]
      BY <3>1 DEF IInv, TypeOK
    <3> QED
      BY <3>1, <3>2
  <2> QED
    BY <2>1, <2>2
<1> QED
  BY Inductivo, <1>1, PTL DEF Spec, EscribeUnaVez

\* An attempt not answered shows no answer.
LEMMA SinContestar ==
    ASSUME IInv, NEW p \in Intentos, paso[p] # "fin"
    PROVE  Contestado(p) = Nulo
  BY DEF IInv, PeticionEnCurso, Contestado

\* An answer that is not a receipt is a refusal of ReciboUnico.
LEMMA ResponderRechaza ==
    ASSUME IInv, NEW p \in Intentos, NEW estado \in Estados \ {"recibo"},
           NEW e \in Efectos \cup {Nulo}, paso[p] # "fin", Responder(p, estado, e)
    PROVE  Unico!Next
<1>1. /\ respuesta' = [respuesta EXCEPT ![p] = [estado |-> estado, efecto |-> e]]
      /\ peticion' = peticion /\ operaciones' = operaciones
  BY DEF Responder, base
<1>2. respuesta'[p] = [estado |-> estado, efecto |-> e]
  BY <1>1 DEF IInv, TypeOK
<1>3. respuesta[p] = Nulo /\ Contestado(p) = Nulo
  BY SinContestar DEF IInv, PeticionEnCurso
<1>4. \A q \in Intentos \ {p} : (Contestado(q))' = Contestado(q)
  BY <1>1 DEF IInv, TypeOK, Contestado
<1>5. (Contestado(p))' = Unico!Rechazo
  <2>1. respuesta'[p] \in Respuestas /\ respuesta'[p].estado # "recibo"
    BY <1>2 DEF Respuestas
  <2> QED
    BY <2>1 DEF Contestado, Unico!Rechazo
<1>6. Unico!Rechazar({p})
  BY <1>1, <1>3, <1>4, <1>5 DEF Unico!Rechazar
<1> QED
  BY <1>6 DEF Unico!Next

\* An answer with the receipt on record is a success of ReciboUnico.
LEMMA ResponderContesta ==
    ASSUME IInv, NEW p \in Intentos, paso[p] \notin {"libre", "fin"},
           NEW e \in Efectos \cup {Nulo}, Responder(p, "recibo", e),
           operaciones[peticion[p].accion] =
             [usuario |-> peticion[p].usuario, tipo |-> peticion[p].tipo,
              clase |-> peticion[p].clase, efecto |-> e]
    PROVE  Unico!Next
<1> DEFINE a == peticion[p].accion
           r == [usuario |-> peticion[p].usuario, tipo |-> peticion[p].tipo,
                 clase |-> peticion[p].clase, efecto |-> e]
<1>1. /\ respuesta' = [respuesta EXCEPT ![p] = [estado |-> "recibo", efecto |-> e]]
      /\ peticion' = peticion /\ operaciones' = operaciones
  BY DEF Responder, base
<1>2. respuesta'[p] = [estado |-> "recibo", efecto |-> e] /\ respuesta'[p] \in Respuestas
  BY <1>1 DEF IInv, TypeOK, Respuestas, Estados
<1>3. Contestado(p) = Nulo
  BY SinContestar
<1>4. \A q \in Intentos \ {p} : (Contestado(q))' = Contestado(q)
  BY <1>1 DEF IInv, TypeOK, Contestado
<1>5. (Contestado(p))' = Unico!Exito(a, r)
  <2>1. /\ respuesta'[p] # Nulo /\ respuesta'[p].estado = "recibo"
        /\ respuesta'[p].efecto = e /\ peticion'[p] = peticion[p]
    BY <1>1, <1>2
  <2>2. (Contestado(p))' = [exito |-> TRUE, accion |-> peticion[p].accion, recibo |-> r]
    BY <2>1 DEF Contestado
  <2> QED
    BY <2>2 DEF Unico!Exito
<1>6. a \in Acciones /\ r # Nulo
  <2>1. peticion[p] \in Peticiones
    BY DEF IInv, TypeOK, PeticionEnCurso
  <2>2. r \in Recibos
    BY <2>1 DEF Recibos, Peticiones
  <2> QED
    BY <2>1, <2>2 DEF Peticiones
<1>7. Unico!Contestar(p, a)
  <2>1. operaciones[a] = r
    OBVIOUS
  <2> HIDE DEF a, r
  <2> QED
    BY <1>1, <1>3, <1>4, <1>5, <1>6, <2>1 DEF Unico!Contestar
<1> QED
  BY <1>6, <1>7 DEF Unico!Next

\* A step that keeps the receipts, the answers and the requests answered is
\* a stutter of ReciboUnico.
LEMMA Tartamudeo ==
    ASSUME operaciones' = operaciones, respuesta' = respuesta,
           \A q \in Intentos : respuesta[q] = Nulo \/ peticion'[q] = peticion[q]
    PROVE  UNCHANGED Unico!vars
<1>1. \A q \in Intentos : (Contestado(q))' = Contestado(q)
  BY DEF Contestado
<1> QED
  BY <1>1 DEF Unico!vars

\* A step of a thread is one of ReciboUnico, or none.
LEMMA AvanzarImplementa ==
    ASSUME IInv, NEW p \in Intentos, Avanzar(p)
    PROVE  Unico!Next \/ UNCHANGED Unico!vars
<1>1. CASE Autorizar(p)
  BY <1>1, ResponderRechaza, Tartamudeo DEF Autorizar, Estados, base
<1>2. CASE ConsultarRecibo(p)
  <2> DEFINE pet == peticion[p]
             r == operaciones[pet.accion]
  <2>1. r \in Recibos \cup {Nulo}
    BY <1>2, EnVueloTienePeticion DEF ConsultarRecibo, IInv, TypeOK
  <2>2. CASE r = Nulo
    BY <1>2, <2>2, Tartamudeo DEF ConsultarRecibo, base
  <2>3. CASE r # Nulo /\ Coincide(r, pet)
    <3>1. r.efecto \in Efectos \cup {Nulo}
      BY <2>1, <2>3 DEF Recibos
    <3>2. r = [usuario |-> pet.usuario, tipo |-> pet.tipo, clase |-> pet.clase,
               efecto |-> r.efecto]
      BY <2>1, <2>3 DEF Recibos, Coincide
    <3>3. Responder(p, "recibo", r.efecto) /\ paso[p] \notin {"libre", "fin"}
      BY <1>2, <2>3 DEF ConsultarRecibo
    <3> QED
      BY <3>1, <3>2, <3>3, ResponderContesta
  <2>4. CASE r # Nulo /\ ~Coincide(r, pet)
    <3>1. Responder(p, "conflicto", Nulo) /\ paso[p] # "fin"
      BY <1>2, <2>4 DEF ConsultarRecibo
    <3> QED
      BY <3>1, ResponderRechaza DEF Estados
  <2> QED
    BY <2>2, <2>3, <2>4
<1>3. CASE ReconsultarRecibo(p)
  BY <1>3, ResponderRechaza, Tartamudeo DEF ReconsultarRecibo, Estados, base
<1>4. CASE Preparar(p)
  <2>1. CASE Crea(peticion[p]) = Viva(peticion[p].clase)
    BY <1>4, <2>1, ResponderRechaza DEF Preparar, Estados
  <2>2. CASE Crea(peticion[p]) # Viva(peticion[p].clase)
    BY <1>4, <2>2, Tartamudeo DEF Preparar, base
  <2> QED
    BY <2>1, <2>2
<1>5. CASE Confirmar(p)
  <2> DEFINE a == peticion[p].accion
             r == ReciboDe(p)
  <2>1. /\ a \in Acciones /\ operaciones[a] = Nulo /\ r \in Recibos
        /\ operaciones' = [operaciones EXCEPT ![a] = r]
    BY <1>5, EscrituraConfirmada
  <2>2. \A q \in Intentos : (Contestado(q))' = Contestado(q)
    BY <1>5 DEF Confirmar, Contestado
  <2>3. Unico!Confirmar(a, r)
    BY <2>1, <2>2 DEF Unico!Confirmar
  <2> QED
    BY <2>1, <2>3 DEF Unico!Next
<1>6. CASE ConfirmarFalla(p)
  BY <1>6, ResponderRechaza DEF ConfirmarFalla, Estados
<1>7. CASE \E k \in Clientes : Difundir(p, k)
  BY <1>7, Tartamudeo DEF Difundir, base
<1>8. CASE DevolverRecibo(p)
  <2>1. efecto[p] \in Efectos \cup {Nulo} /\ paso[p] = "difundiendo"
    BY <1>8 DEF IInv, TypeOK, DevolverRecibo
  <2>2. operaciones[peticion[p].accion] = ReciboDe(p)
    BY <2>1 DEF IInv, PeticionEnCurso
  <2>3. Responder(p, "recibo", efecto[p])
    BY <1>8 DEF DevolverRecibo
  <2> QED
    BY <2>1, <2>2, <2>3, ResponderContesta DEF ReciboDe
<1> QED
  BY <1>1, <1>2, <1>3, <1>4, <1>5, <1>6, <1>7, <1>8 DEF Avanzar

\* A crash refuses at once every attempt in flight.
LEMMA CaidaImplementa ==
    ASSUME IInv, Caida
    PROVE  Unico!Next
<1>1. /\ operaciones' = operaciones /\ peticion' = peticion
      /\ respuesta' = [q \in Intentos |->
           IF q \in EnVuelo THEN [estado |-> "perdida", efecto |-> Nulo] ELSE respuesta[q]]
  BY DEF Caida, base
<1>2. EnVuelo \subseteq Intentos /\ \A q \in EnVuelo : Contestado(q) = Nulo
  BY SinContestar DEF EnVuelo
<1>3. ASSUME NEW q \in EnVuelo PROVE (Contestado(q))' = Unico!Rechazo
  <2>1. respuesta'[q] = [estado |-> "perdida", efecto |-> Nulo]
    BY <1>1, <1>2
  <2>2. respuesta'[q] \in Respuestas
    BY <2>1 DEF Respuestas, Estados
  <2> QED
    BY <2>1, <2>2 DEF Contestado, Unico!Rechazo
<1>4. \A q \in Intentos \ EnVuelo : (Contestado(q))' = Contestado(q)
  BY <1>1 DEF Contestado
<1>5. Unico!Rechazar(EnVuelo)
  <2>1. [q \in Intentos |-> Contestado(q)]' =
          [q \in Intentos |-> IF q \in EnVuelo THEN Unico!Rechazo
                             ELSE [t \in Intentos |-> Contestado(t)][q]]
    BY <1>3, <1>4
  <2> QED
    BY <1>1, <1>2, <2>1 DEF Unico!Rechazar
<1> QED
  BY <1>2, <1>5 DEF Unico!Next

\* The facade implements ReciboUnico: each action has one receipt, and every
\* success, first or repeated, is that receipt given to its own user for
\* the content it was asked with.
THEOREM ImplementaReciboUnico == Spec => EsReciboUnico
<1>1. Init => Unico!Init
  BY DEF Init, Contestado, Unico!Init
<1>2. IInv /\ [Next]_vars => [Unico!Next]_(Unico!vars)
  <2> SUFFICES ASSUME IInv, [Next]_vars PROVE Unico!Next \/ UNCHANGED Unico!vars
    OBVIOUS
  <2>1. ASSUME NEW p \in Intentos, NEW pet \in Peticiones, Recibir(p, pet)
        PROVE  UNCHANGED Unico!vars
    <3>1. respuesta[p] = Nulo
      BY <2>1 DEF Recibir, IInv, PeticionEnCurso
    <3> QED
      BY <2>1, <3>1, Tartamudeo DEF Recibir, IInv, TypeOK, base
  <2>2. CASE \E u \in Usuarios : Revocar(u)
    BY <2>2, Tartamudeo DEF Revocar, base
  <2>3. CASE UNCHANGED vars
    BY <2>3, Tartamudeo DEF vars, base
  <2> QED
    BY <2>1, <2>2, <2>3, AvanzarImplementa, CaidaImplementa DEF Next
<1> QED
  BY Inductivo, <1>1, <1>2, PTL DEF Spec, EsReciboUnico, Unico!Spec
(***************************************************************************)
(* What the clients show.  A class on which no two requests overlapped has *)
(* at most one request in course, so that what this one prepared is still  *)
(* true when it commits, and what it commits is still true when the last   *)
(* client hears of it.                                                     *)
(***************************************************************************)
\* The broadcast of p has yet to tell k of the class c.
PorMostrar(p, k, c) ==
    /\ paso[p] = "difundiendo" /\ k \in destinos[p]
    /\ efecto[p] # Nulo /\ efecto[p].clase = c

SoloUno ==
    \A p, q \in Intentos : \A c \in Clases \ solapadas :
        EnCurso(p, c) /\ EnCurso(q, c) => p = q
EfectoPropio ==
    \A p \in Intentos : paso[p] \in {"preparada", "difundiendo"} /\ efecto[p] # Nulo =>
        efecto[p].clase = peticion[p].clase
PreparadoVigente ==
    \A p \in Intentos : paso[p] = "preparada" /\ peticion[p].clase \notin solapadas =>
        /\ Crea(peticion[p]) # Viva(peticion[p].clase)
        /\ escritura[p].modo = Modo(peticion[p])
        /\ efecto[p] = Proyeccion(peticion[p])
DifundidoVigente ==
    \A p \in Intentos :
        paso[p] = "difundiendo" /\ peticion[p].clase \notin solapadas /\ efecto[p] # Nulo =>
            efecto[p].valor = Visible[peticion[p].clase]
MostradoOPorMostrar ==
    \A k \in Clientes : \A c \in Clases \ solapadas :
        vista[k][c] = Visible[c] \/ \E p \in Intentos : PorMostrar(p, k, c)

VInv == /\ SoloUno /\ EfectoPropio /\ PreparadoVigente /\ DifundidoVigente
        /\ MostradoOPorMostrar

LEMMA InicioVInv == Init => VInv
BY DEF Init, VInv, SoloUno, EfectoPropio, PreparadoVigente, DifundidoVigente,
       MostradoOPorMostrar, EnCurso, Visible, Viva

\* A step that takes no request into course, and out of it only those whose
\* broadcast is complete.
Callado ==
    /\ UNCHANGED <<filas, vista, solapadas>>
    /\ \A q \in Intentos :
        /\ paso'[q] \in {"preparada", "difundiendo"} =>
             /\ paso'[q] = paso[q] /\ peticion'[q] = peticion[q]
             /\ escritura'[q] = escritura[q] /\ efecto'[q] = efecto[q]
        /\ paso[q] = "difundiendo" /\ destinos[q] # {} =>
             /\ paso'[q] = paso[q] /\ destinos'[q] = destinos[q] /\ efecto'[q] = efecto[q]

LEMMA CalladoVInv == ASSUME VInv, Callado PROVE VInv'
<1>1. /\ filas' = filas /\ vista' = vista /\ solapadas' = solapadas /\ Visible' = Visible
      /\ \A c : Viva(c)' = Viva(c)
  BY DEF Callado, Visible, Viva
<1>2. ASSUME NEW q \in Intentos, paso'[q] \in {"preparada", "difundiendo"}
      PROVE  /\ paso'[q] = paso[q] /\ peticion'[q] = peticion[q]
             /\ escritura'[q] = escritura[q] /\ efecto'[q] = efecto[q]
  BY <1>2 DEF Callado
<1>3. SoloUno'
  BY <1>1, <1>2 DEF VInv, SoloUno, EnCurso
<1>4. EfectoPropio'
  BY <1>2 DEF VInv, EfectoPropio
<1>5. PreparadoVigente'
  <2>1. SUFFICES ASSUME NEW q \in Intentos, paso'[q] = "preparada",
                        peticion'[q].clase \notin solapadas'
                 PROVE  /\ Crea(peticion'[q]) # Viva(peticion[q].clase)'
                        /\ escritura'[q].modo = Modo(peticion[q])'
                        /\ efecto'[q] = Proyeccion(peticion[q])'
    BY DEF PreparadoVigente, Crea, Modo, Proyeccion
  <2>2. /\ paso[q] = "preparada" /\ peticion'[q] = peticion[q]
        /\ escritura'[q] = escritura[q] /\ efecto'[q] = efecto[q]
    BY <1>2, <2>1
  <2>3. Modo(peticion[q])' = Modo(peticion[q]) /\ Proyeccion(peticion[q])' = Proyeccion(peticion[q])
    BY <1>1, <2>2 DEF Modo, Proyeccion, Crea
  <2>. QED BY <1>1, <2>1, <2>2, <2>3 DEF VInv, PreparadoVigente
<1>6. DifundidoVigente'
  BY <1>1, <1>2 DEF VInv, DifundidoVigente
<1>7. MostradoOPorMostrar'
  <2>1. \A q \in Intentos, k \in Clientes, c \in Clases :
          PorMostrar(q, k, c) => PorMostrar(q, k, c)'
    BY DEF Callado, PorMostrar
  <2>. QED BY <1>1, <2>1 DEF VInv, MostradoOPorMostrar
<1>. QED BY <1>3, <1>4, <1>5, <1>6, <1>7 DEF VInv

\* What is answered without having prepared, or once everybody was told.
LEMMA ResponderVInv ==
    ASSUME IInv, VInv, NEW p \in Intentos, NEW estado \in Estados, NEW e,
           Responder(p, estado, e), paso[p] # "difundiendo" \/ destinos[p] = {}
    PROVE  VInv'
<1>1. Callado
  BY DEF Callado, Responder, Ir, IInv, TypeOK, base
<1>. QED BY <1>1, CalladoVInv

LEMMA IrVInv ==
    ASSUME IInv, VInv, NEW p \in Intentos, paso[p] \notin {"preparada", "difundiendo"},
           NEW donde \in {"recibida", "autorizada", "sin_recibo", "reconsultada"}, Ir(p, donde),
           \A q \in Intentos \ {p} : peticion'[q] = peticion[q],
           UNCHANGED <<base, hilo, vista, solapadas>>
    PROVE  VInv'
<1>1. Callado
  BY DEF Callado, Ir, IInv, TypeOK, base, hilo
<1>. QED BY <1>1, CalladoVInv

\* A request that prepares its operation is alone on its class, or the class
\* is one on which two overlapped.
LEMMA PrepararVInv ==
    ASSUME IInv, VInv, NEW p \in Intentos, Preparar(p)
    PROVE  VInv'
<1> DEFINE pet == peticion[p]
<1>1. paso[p] \in {"reconsultada", "sin_recibo"}
  BY DEF Preparar
<1>2. pet \in Peticiones /\ pet.clase \in Clases
  BY <1>1, EnVueloTienePeticion
<1>3. CASE Crea(pet) = Viva(pet.clase)
  BY <1>1, <1>3, ResponderVInv DEF Preparar, Estados
<1>4. CASE Crea(pet) # Viva(pet.clase)
  <2>1. /\ paso' = [paso EXCEPT ![p] = "preparada"]
        /\ escritura' = [escritura EXCEPT ![p] = [clase |-> pet.clase, modo |-> Modo(pet)]]
        /\ efecto' = [efecto EXCEPT ![p] = Proyeccion(pet)]
        /\ solapadas' = solapadas \cup {c \in {pet.clase} : \E q \in Intentos : EnCurso(q, c)}
        /\ UNCHANGED <<filas, peticion, destinos, vista>>
    BY <1>4 DEF Preparar, base, Ir
  <2>2. /\ paso'[p] = "preparada"
        /\ escritura'[p] = [clase |-> pet.clase, modo |-> Modo(pet)]
        /\ efecto'[p] = Proyeccion(pet)
    BY <2>1 DEF IInv, TypeOK
  <2>3. \A q \in Intentos \ {p} :
          paso'[q] = paso[q] /\ escritura'[q] = escritura[q] /\ efecto'[q] = efecto[q]
    BY <2>1 DEF IInv, TypeOK
  <2>4. /\ Visible' = Visible /\ (\A c : Viva(c)' = Viva(c))
        /\ \A q \in Intentos : /\ Modo(peticion[q])' = Modo(peticion[q])
                              /\ Proyeccion(peticion[q])' = Proyeccion(peticion[q])
    BY <2>1 DEF Visible, Viva, Modo, Proyeccion, Crea
  <2>5. solapadas \subseteq solapadas'
    BY <2>1
  <2>6. SoloUno'
    <3>1. SUFFICES ASSUME NEW q \in Intentos, NEW t \in Intentos, NEW c \in Clases \ solapadas',
                          EnCurso(q, c)', EnCurso(t, c)', q # t
                   PROVE  FALSE
      BY DEF SoloUno
    <3>2. ASSUME NEW x \in Intentos, x # p, EnCurso(x, c)' PROVE EnCurso(x, c)
      BY <2>1, <2>3, <3>2 DEF EnCurso
    <3>3. CASE q # p /\ t # p
      BY <2>5, <3>1, <3>2, <3>3 DEF VInv, SoloUno
    <3>4. CASE q = p \/ t = p
      <4>1. c = pet.clase
        BY <2>1, <3>1, <3>4 DEF EnCurso
      <4>2. \E x \in Intentos : EnCurso(x, c)
        BY <3>1, <3>2, <3>4
      <4>. QED BY <2>1, <3>1, <4>1, <4>2
    <3>. QED BY <3>3, <3>4
  <2>7. EfectoPropio'
    <3>1. Proyeccion(pet) # Nulo => Proyeccion(pet).clase = pet.clase
      BY DEF Proyeccion
    <3>. QED BY <2>1, <2>2, <2>3, <3>1 DEF VInv, EfectoPropio
  <2>8. PreparadoVigente'
    <3>1. SUFFICES ASSUME NEW q \in Intentos, paso'[q] = "preparada",
                          peticion[q].clase \notin solapadas'
                   PROVE  /\ Crea(peticion[q]) # Viva(peticion[q].clase)
                          /\ escritura'[q].modo = Modo(peticion[q])
                          /\ efecto'[q] = Proyeccion(peticion[q])
      BY <2>1, <2>4 DEF PreparadoVigente, Crea
    <3>2. CASE q = p
      BY <1>4, <2>2, <3>2
    <3>3. CASE q # p
      BY <2>3, <2>5, <3>1, <3>3 DEF VInv, PreparadoVigente
    <3>. QED BY <3>2, <3>3
  <2>9. DifundidoVigente'
    BY <2>1, <2>2, <2>3, <2>4, <2>5 DEF VInv, DifundidoVigente
  <2>10. MostradoOPorMostrar'
    <3>1. \A q \in Intentos, k \in Clientes, c \in Clases :
            PorMostrar(q, k, c) => PorMostrar(q, k, c)'
      BY <1>1, <2>1, <2>3 DEF PorMostrar
    <3>. QED BY <2>1, <2>4, <2>5, <3>1 DEF VInv, MostradoOPorMostrar
  <2>. QED BY <2>6, <2>7, <2>8, <2>9, <2>10 DEF VInv
<1>. QED BY <1>3, <1>4

\* What the commit makes visible is what the operation projected; a creation
\* over a deleted row has no projection and makes nothing visible.
LEMMA ProyeccionVisible ==
    ASSUME IInv, VInv, NEW p \in Intentos, Confirmar(p), peticion[p].clase \notin solapadas
    PROVE  LET c == peticion[p].clase
           IN IF efecto[p] = Nulo THEN Visible'[c] = Visible[c]
              ELSE Visible'[c] = efecto[p].valor
<1> DEFINE pet == peticion[p]
           c == pet.clase
           a == pet.accion
<1>1. /\ pet \in Peticiones /\ a \in Acciones /\ c \in Clases /\ pet.tipo \in Tipos
  BY EnVueloTienePeticion DEF Confirmar
<1>2. /\ escritura[p].clase = c
      /\ filas' = [filas EXCEPT ![c] = FilaTras(filas[c], escritura[p].modo, a)]
  BY EscrituraConfirmada
<1>3. /\ Crea(pet) # Viva(c) /\ escritura[p].modo = Modo(pet) /\ efecto[p] = Proyeccion(pet)
  BY DEF Confirmar, VInv, PreparadoVigente
<1>4. filas'[c] = FilaTras(filas[c], Modo(pet), a) /\ filas[c] \in Filas \cup {Nulo}
  BY <1>1, <1>2, <1>3 DEF IInv, TypeOK
<1>5. Visible[c] = IF Viva(c) THEN filas[c].valor ELSE Nulo
  BY <1>1 DEF Visible
<1>6. Visible'[c] = IF filas'[c] # Nulo /\ ~filas'[c].borrada THEN filas'[c].valor ELSE Nulo
  BY <1>1 DEF Visible, Viva
<1>7. CASE pet.tipo = "ELIMINAR_CLASE"
  <2>1. /\ Modo(pet) = "borrar"
        /\ efecto[p] = [clase |-> c, valor |-> Nulo]
    BY <1>3, <1>7 DEF Modo, Proyeccion, Crea
  <2>2. filas'[c] = [valor |-> a, borrada |-> TRUE]
    BY <1>4, <2>1 DEF FilaTras
  <2>3. efecto[p] \in Efectos
    BY <1>1, <2>1 DEF Efectos
  <2>. QED BY <1>6, <2>1, <2>2, <2>3
<1>8. CASE Crea(pet) /\ filas[c] = Nulo
  <2>1. /\ filas'[c] = [valor |-> a, borrada |-> FALSE]
        /\ efecto[p] = [clase |-> c, valor |-> a]
    BY <1>3, <1>4, <1>8 DEF Modo, FilaTras, Proyeccion, Crea
  <2>2. efecto[p] \in Efectos /\ filas'[c] \in Filas
    BY <1>1, <2>1 DEF Efectos, Filas
  <2>3. efecto[p] # Nulo /\ filas'[c] # Nulo
    BY <2>2
  <2>. QED BY <1>6, <2>1, <2>3
<1>9. CASE Crea(pet) /\ filas[c] # Nulo
  <2>1. filas'[c] = [valor |-> a, borrada |-> filas[c].borrada] /\ efecto[p] = Nulo
    BY <1>3, <1>4, <1>9 DEF Modo, FilaTras, Proyeccion, Crea
  <2>2. ~Viva(c) /\ filas[c].borrada
    BY <1>3, <1>9 DEF Viva, Crea
  <2>. QED BY <1>5, <1>6, <2>1, <2>2
<1>10. CASE ~Crea(pet) /\ pet.tipo # "ELIMINAR_CLASE"
  <2>1. Viva(c) /\ filas[c] # Nulo /\ filas[c].borrada = FALSE
    BY <1>3, <1>4, <1>10 DEF Viva, Crea, Filas
  <2>2. /\ filas'[c] = [valor |-> a, borrada |-> FALSE]
        /\ efecto[p] = [clase |-> c, valor |-> a]
    BY <1>3, <1>4, <1>10, <2>1 DEF Modo, FilaTras, Proyeccion, Crea
  <2>3. efecto[p] \in Efectos /\ filas'[c] \in Filas
    BY <1>1, <2>2 DEF Efectos, Filas
  <2>4. efecto[p] # Nulo /\ filas'[c] # Nulo
    BY <2>3
  <2>. QED BY <1>6, <2>2, <2>4
<1>. QED BY <1>7, <1>8, <1>9, <1>10 DEF Crea

LEMMA ConfirmarVInv ==
    ASSUME IInv, VInv, NEW p \in Intentos, Confirmar(p)
    PROVE  VInv'
<1> DEFINE pet == peticion[p]
           c == pet.clase
<1>1. /\ paso[p] = "preparada" /\ paso' = [paso EXCEPT ![p] = "difundiendo"]
      /\ escritura' = [escritura EXCEPT ![p] = Nulo]
      /\ destinos' = [destinos EXCEPT ![p] = Clientes]
      /\ UNCHANGED <<peticion, efecto, vista, solapadas>>
  BY DEF Confirmar, Ir
<1>2. c \in Clases /\ EnCurso(p, c)
  BY <1>1, EnVueloTienePeticion DEF EnCurso
<1>3. \A x \in Clases \ {c} : filas'[x] = filas[x] /\ Visible'[x] = Visible[x] /\ Viva(x)' = Viva(x)
  <2>1. \A x \in Clases \ {c} : filas'[x] = filas[x]
    BY EscrituraConfirmada DEF IInv, TypeOK
  <2>. QED BY <2>1 DEF Visible, Viva
<1>4. paso'[p] = "difundiendo" /\ destinos'[p] = Clientes
  BY <1>1 DEF IInv, TypeOK
<1>5. \A q \in Intentos \ {p} :
        paso'[q] = paso[q] /\ escritura'[q] = escritura[q] /\ destinos'[q] = destinos[q]
  BY <1>1 DEF IInv, TypeOK
<1>6. \A q \in Intentos, x \in Clases : EnCurso(q, x)' = EnCurso(q, x)
  BY <1>1, <1>4, <1>5 DEF EnCurso
<1>7. \A q \in Intentos \ {p} :
        /\ paso[q] \in {"preparada", "difundiendo"} => peticion[q].clase \in Clases
        /\ paso[q] \in {"preparada", "difundiendo"} /\ peticion[q].clase \notin solapadas
             => peticion[q].clase # c
  <2>1. SUFFICES ASSUME NEW q \in Intentos \ {p}, paso[q] \in {"preparada", "difundiendo"}
                 PROVE  /\ peticion[q].clase \in Clases
                        /\ peticion[q].clase \notin solapadas => peticion[q].clase # c
    OBVIOUS
  <2>2. peticion[q].clase \in Clases /\ EnCurso(q, peticion[q].clase)
    BY <2>1, EnVueloTienePeticion DEF EnCurso
  <2>. QED BY <1>2, <2>2 DEF VInv, SoloUno
<1>8. SoloUno'
  BY <1>1, <1>6 DEF VInv, SoloUno
<1>9. EfectoPropio'
  BY <1>1, <1>4, <1>5 DEF VInv, EfectoPropio
<1>10. PreparadoVigente'
  <2>1. SUFFICES ASSUME NEW q \in Intentos, paso'[q] = "preparada",
                        peticion[q].clase \notin solapadas
                 PROVE  /\ Crea(peticion[q]) # Viva(peticion[q].clase)'
                        /\ escritura'[q].modo = Modo(peticion[q])'
                        /\ efecto'[q] = Proyeccion(peticion[q])'
    BY <1>1 DEF PreparadoVigente, Crea
  <2>2. q # p /\ paso[q] = "preparada"
    BY <1>4, <1>5, <2>1
  <2>3. peticion[q].clase \in Clases \ {c}
    BY <1>7, <2>1, <2>2
  <2>4. /\ Crea(peticion[q]) # Viva(peticion[q].clase)
        /\ escritura[q].modo = Modo(peticion[q])
        /\ efecto[q] = Proyeccion(peticion[q])
    BY <2>1, <2>2 DEF VInv, PreparadoVigente
  <2>5. Modo(peticion[q])' = Modo(peticion[q]) /\ Proyeccion(peticion[q])' = Proyeccion(peticion[q])
    BY <1>1, <1>3, <2>3 DEF Modo, Proyeccion, Crea
  <2>. QED BY <1>1, <1>3, <1>5, <2>2, <2>3, <2>4, <2>5
<1>11. DifundidoVigente'
  <2>1. SUFFICES ASSUME NEW q \in Intentos, paso'[q] = "difundiendo",
                        peticion[q].clase \notin solapadas, efecto[q] # Nulo
                 PROVE  efecto[q].valor = Visible'[peticion[q].clase]
    BY <1>1 DEF DifundidoVigente
  <2>2. CASE q = p
    BY <2>1, <2>2, ProyeccionVisible
  <2>3. CASE q # p
    BY <1>3, <1>5, <1>7, <2>1, <2>3 DEF VInv, DifundidoVigente
  <2>. QED BY <2>2, <2>3
<1>12. MostradoOPorMostrar'
  <2>1. SUFFICES ASSUME NEW k \in Clientes, NEW x \in Clases \ solapadas
                 PROVE  vista[k][x] = Visible'[x] \/ \E q \in Intentos : PorMostrar(q, k, x)'
    BY <1>1 DEF MostradoOPorMostrar
  <2>2. vista[k][x] = Visible[x] \/ \E q \in Intentos : PorMostrar(q, k, x)
    BY DEF VInv, MostradoOPorMostrar
  <2>3. ASSUME NEW q \in Intentos, PorMostrar(q, k, x) PROVE PorMostrar(q, k, x)'
    BY <1>1, <1>5, <2>3 DEF PorMostrar
  <2>4. CASE x # c
    BY <1>3, <2>2, <2>3, <2>4
  <2>5. CASE x = c /\ efecto[p] = Nulo
    BY <2>2, <2>3, <2>5, ProyeccionVisible
  <2>6. CASE x = c /\ efecto[p] # Nulo
    <3>1. efecto[p].clase = c
      BY <1>1, <2>6 DEF VInv, EfectoPropio
    <3>. QED BY <1>1, <1>4, <2>6, <3>1 DEF PorMostrar
  <2>. QED BY <2>4, <2>5, <2>6
<1>. QED BY <1>8, <1>9, <1>10, <1>11, <1>12 DEF VInv

\* A frame brings its client up to date on its class.
LEMMA DifundirVInv ==
    ASSUME IInv, VInv, NEW p \in Intentos, NEW j \in Clientes, Difundir(p, j)
    PROVE  VInv'
<1>1. /\ paso[p] = "difundiendo" /\ destinos' = [destinos EXCEPT ![p] = @ \ {j}]
      /\ UNCHANGED <<filas, peticion, paso, escritura, efecto, solapadas>>
  BY DEF Difundir, base
<1>2. Visible' = Visible /\ \A c : Viva(c)' = Viva(c)
  BY <1>1 DEF Visible, Viva
<1>3. SoloUno' /\ EfectoPropio'
  BY <1>1 DEF VInv, SoloUno, EnCurso, EfectoPropio
<1>4. PreparadoVigente'
  BY <1>1, <1>2 DEF VInv, PreparadoVigente, Crea, Modo, Proyeccion
<1>5. DifundidoVigente'
  BY <1>1, <1>2 DEF VInv, DifundidoVigente
<1>6. MostradoOPorMostrar'
  <2>1. SUFFICES ASSUME NEW k \in Clientes, NEW c \in Clases \ solapadas
                 PROVE  vista'[k][c] = Visible[c] \/ \E q \in Intentos : PorMostrar(q, k, c)'
    BY <1>1, <1>2 DEF MostradoOPorMostrar
  <2>2. vista[k][c] = Visible[c] \/ \E q \in Intentos : PorMostrar(q, k, c)
    BY DEF VInv, MostradoOPorMostrar
  <2>3. vista[k] \in [Clases -> Acciones \cup {Nulo}] /\ vista[j] \in [Clases -> Acciones \cup {Nulo}]
    BY DEF IInv, TypeOK
  <2>4. CASE k = j /\ efecto[p] # Nulo /\ efecto[p].clase = c
    <3>1. vista'[k][c] = efecto[p].valor
      BY <2>3, <2>4 DEF Difundir, IInv, TypeOK
    <3>2. peticion[p].clase = c
      BY <1>1, <2>4 DEF VInv, EfectoPropio
    <3>. QED BY <1>1, <2>4, <3>1, <3>2 DEF VInv, DifundidoVigente
  <2>5. CASE ~(k = j /\ efecto[p] # Nulo /\ efecto[p].clase = c)
    <3>1. vista'[k][c] = vista[k][c]
      BY <2>3, <2>5 DEF Difundir, IInv, TypeOK
    <3>2. ASSUME NEW q \in Intentos, PorMostrar(q, k, c) PROVE PorMostrar(q, k, c)'
      BY <1>1, <2>5, <3>2 DEF PorMostrar, IInv, TypeOK
    <3>. QED BY <2>2, <3>1, <3>2
  <2>. QED BY <2>4, <2>5
<1>. QED BY <1>3, <1>4, <1>5, <1>6 DEF VInv

\* After a crash nobody is in course and everybody has read the diagram.
LEMMA CaidaVInv == ASSUME IInv, VInv, Caida PROVE VInv'
<1>1. \A q \in Intentos : paso'[q] \in {"libre", "fin"}
  BY DEF Caida, EnVuelo, IInv, TypeOK
<1>2. \A k \in Clientes, c \in Clases : vista'[k][c] = Visible'[c]
  <2>1. Visible' = Visible
    BY DEF Caida, base, Visible, Viva
  <2>. QED BY <2>1 DEF Caida
<1>. QED BY <1>1, <1>2 DEF VInv, SoloUno, EnCurso, EfectoPropio, PreparadoVigente,
                           DifundidoVigente, MostradoOPorMostrar

LEMMA PasoVInv == IInv /\ VInv /\ [Next]_vars => VInv'
<1> SUFFICES ASSUME IInv, VInv, [Next]_vars PROVE VInv'
  OBVIOUS
<1>1. ASSUME NEW p \in Intentos, Avanzar(p) PROVE VInv'
  <2>1. CASE Autorizar(p)
    BY <2>1, ResponderVInv, IrVInv DEF Autorizar, Estados
  <2>2. CASE ConsultarRecibo(p)
    BY <2>2, ResponderVInv, IrVInv DEF ConsultarRecibo, Estados
  <2>3. CASE ReconsultarRecibo(p)
    BY <2>3, ResponderVInv, IrVInv DEF ReconsultarRecibo, Estados
  <2>4. CASE ConfirmarFalla(p)
    BY <2>4, ResponderVInv DEF ConfirmarFalla, Estados
  <2>5. CASE DevolverRecibo(p)
    BY <2>5, ResponderVInv DEF DevolverRecibo, Estados
  <2>. QED BY <1>1, <2>1, <2>2, <2>3, <2>4, <2>5, PrepararVInv, ConfirmarVInv, DifundirVInv
           DEF Avanzar
<1>2. ASSUME NEW p \in Intentos, NEW pet \in Peticiones, Recibir(p, pet) PROVE VInv'
  <2>1. \A q \in Intentos \ {p} : peticion'[q] = peticion[q]
    BY <1>2 DEF Recibir, IInv, TypeOK
  <2>. QED BY <1>2, <2>1, IrVInv DEF Recibir
<1>3. CASE (\E u \in Usuarios : Revocar(u)) \/ UNCHANGED vars
  <2>1. Callado
    BY <1>3 DEF Callado, Revocar, vars, base, hilo
  <2>. QED BY <2>1, CalladoVInv
<1>. QED BY <1>1, <1>2, <1>3, CaidaVInv DEF Next

\* Once the broadcasts are over every client shows what the database holds,
\* of every class on which no two requests overlapped.
THEOREM NadieSeQuedaAtras == Spec => []VistaAlDia
<1>1. VInv => VistaAlDia
  BY DEF VInv, MostradoOPorMostrar, VistaAlDia, EnVuelo, PorMostrar
<1>. QED BY <1>1, Inductivo, InicioVInv, PasoVInv, PTL DEF Spec
=============================================================================
