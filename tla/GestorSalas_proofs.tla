-------------------------- MODULE GestorSalas_proofs --------------------------
(***************************************************************************)
(* What the room of GestorSalas promises, for any number of connections,   *)
(* users and classes, any slow peers and any TTL.                          *)
(*                                                                         *)
(* All but VistaFiel rest on one invariant, IInv: where a handler is       *)
(* determines what it has to say and whether its socket is in the room.    *)
(* VistaFiel is about peers none of which is slow, and needs VInv: what a  *)
(* client believes of a lock is what the room says, or the frame that      *)
(* tells it is among those of the handler that has the loop.               *)
(***************************************************************************)
EXTENDS GestorSalas, TLAPS

\* A broadcast in progress has a message.
DifusionBienFormada ==
    \A s \in Conexiones : destinos[s] # {} => actual[s] # Nulo

\* Before it joins a handler has nothing to say, and before it is welcomed
\* its client knows of nobody.
AntesDeEntrar ==
    \A s \in Conexiones :
        /\ fase[s] \in {"nueva", "aceptada"} => Ociosa(s)
        /\ fase[s] \in {"nueva", "aceptada", "uniendo"} => presentes[s] = {}

\* The strengthening: type correctness, the two facts above and the three
\* safety invariants are inductive together.
IInv ==
    /\ TypeOK
    /\ DifusionBienFormada
    /\ AntesDeEntrar
    /\ SalaSiConexiones
    /\ DueniosConectados

USE NuloAssumption, UsuarioDeAssumption

\* The constructors of frames build frames.
LEMMA MensajesBienTipados ==
    /\ \A c \in Clases, u \in Usuarios, t \in Nat : Concedido(c, u, t) \in Mensajes
    /\ \A c \in Clases : Denegado(c) \in Mensajes /\ Liberado(c) \in Mensajes
    /\ \A u \in Usuarios : Desconectado(u) \in Mensajes
    /\ Puntero \in Mensajes
  BY DEF Concedido, Denegado, Liberado, Desconectado, Puntero, Mensajes

\* Cleaning the expired locks leaves a table of locks, and only removes.
LEMMA LimpiarBloqueos ==
    ASSUME bloqueos \in [Clases -> Bloqueo \cup {Nulo}]
    PROVE  /\ SinExpirados \in [Clases -> Bloqueo \cup {Nulo}]
           /\ \A c \in Clases : SinExpirados[c] \in {Nulo, bloqueos[c]}
           /\ \A c \in Clases : ~Vencido(c) => SinExpirados[c] = bloqueos[c]
  BY DEF SinExpirados

\* What a frame leaves a client knowing is a table of locks again.
LEMMA FrameBienTipado ==
    ASSUME NEW m \in Mensajes, NEW v \in [Clases -> Bloqueo \cup {Nulo}],
           NEW p \in SUBSET Usuarios
    PROVE  /\ VistaTras(m, v) \in [Clases -> Bloqueo \cup {Nulo}]
           /\ PresentesTras(m, p) \in SUBSET Usuarios
           /\ PresentesTras(m, p) \subseteq p
  BY DEF Mensajes, VistaTras, PresentesTras, Bloqueo

\* The invariant holds of an empty room.
LEMMA InicioIInv == Init => IInv
<1> SUFFICES ASSUME Init PROVE IInv
  OBVIOUS
<1>1. TypeOK
  <2>1. /\ reloj \in 0..MaxReloj
        /\ abierta \subseteq Conexiones
        /\ fase \in [Conexiones -> Fases]
        /\ edita \subseteq Conexiones
        /\ conexiones \subseteq Conexiones
    BY TTLAssumption DEF Init, Fases
  <2>1a. salaExiste \in BOOLEAN
    BY DEF Init
  <2>2. /\ pendientes \in [Conexiones -> SUBSET Mensajes]
        /\ actual \in [Conexiones -> Mensajes \cup {Nulo}]
        /\ destinos \in [Conexiones -> SUBSET Conexiones]
        /\ bucle \in Conexiones \cup {Nulo}
        /\ presentes \in [Conexiones -> SUBSET Usuarios]
    BY DEF Init
  <2>3. SinBloqueos \in [Clases -> Bloqueo \cup {Nulo}]
    BY DEF SinBloqueos
  <2> QED
    BY <2>1, <2>1a, <2>2, <2>3 DEF Init, TypeOK
<1>2. DifusionBienFormada /\ AntesDeEntrar
  BY DEF Init, DifusionBienFormada, AntesDeEntrar, Ociosa
<1>3. SalaSiConexiones /\ DueniosConectados
  BY DEF Init, SalaSiConexiones, DueniosConectados, SinBloqueos
<1> QED
  BY <1>1, <1>2, <1>3 DEF IInv

\* What announcing leaves: only the pending broadcasts of s change.
LEMMA AnunciarBien ==
    ASSUME TypeOK, NEW s \in Conexiones, NEW msgs \in SUBSET Mensajes, Anunciar(s, msgs)
    PROVE  /\ pendientes' \in [Conexiones -> SUBSET Mensajes]
           /\ \A t \in Conexiones \ {s} : pendientes'[t] = pendientes[t]
           /\ actual' = actual /\ destinos' = destinos
           /\ bucle' \in Conexiones
           /\ Ociosa(s) => \A t \in Conexiones : t # s => (Ociosa(t))' = Ociosa(t)
  BY DEF TypeOK, Anunciar, Ociosa

\* Accepting a WebSocket only marks its handler.
LEMMA AceptarIInv ==
    ASSUME IInv, NEW s \in Conexiones, Aceptar(s)
    PROVE  IInv'
<1>1. TypeOK'
  BY DEF IInv, TypeOK, Aceptar, Fases, sala, envio, remoto
<1>2. (DifusionBienFormada /\ AntesDeEntrar)'
  BY DEF IInv, TypeOK, Aceptar, DifusionBienFormada, AntesDeEntrar, Ociosa, envio, remoto
<1>3. (SalaSiConexiones /\ DueniosConectados)'
  BY DEF IInv, TypeOK, Aceptar, SalaSiConexiones, DueniosConectados, UsuariosDe, sala
<1> QED
  BY <1>1, <1>2, <1>3 DEF IInv

\* A WebSocket refused never enters the room.
LEMMA RechazarIInv ==
    ASSUME IInv, NEW s \in Conexiones, Rechazar(s)
    PROVE  IInv'
<1>1. TypeOK'
  BY DEF IInv, TypeOK, Rechazar, Fases, sala, envio, remoto
<1>2. (DifusionBienFormada /\ AntesDeEntrar)'
  BY DEF IInv, TypeOK, Rechazar, DifusionBienFormada, AntesDeEntrar, Ociosa, envio, remoto
<1>3. (SalaSiConexiones /\ DueniosConectados)'
  BY DEF IInv, TypeOK, Rechazar, SalaSiConexiones, DueniosConectados, UsuariosDe, sala
<1> QED
  BY <1>1, <1>2, <1>3 DEF IInv

\* Joining adds an owner's connection or none, and only drops locks.
LEMMA UnirIInv ==
    ASSUME IInv, NEW s \in Conexiones, Unir(s)
    PROVE  IInv'
<1> DEFINE msgs == {Liberado(c) : c \in Expirados}
<1>1. msgs \in SUBSET Mensajes
  BY MensajesBienTipados DEF Expirados
<1>2. /\ bloqueos' \in [Clases -> Bloqueo \cup {Nulo}]
      /\ \A c \in Clases : bloqueos'[c] \in {Nulo, bloqueos[c]}
  BY LimpiarBloqueos DEF IInv, TypeOK, Unir
<1>3. /\ pendientes' \in [Conexiones -> SUBSET Mensajes]
      /\ \A t \in Conexiones \ {s} : pendientes'[t] = pendientes[t]
      /\ actual' = actual /\ destinos' = destinos
      /\ bucle' \in Conexiones
  BY <1>1, AnunciarBien DEF IInv, Unir
<1>4. TypeOK'
  BY <1>2, <1>3 DEF IInv, TypeOK, Unir, Fases, remoto
<1>5. (DifusionBienFormada /\ AntesDeEntrar)'
  BY <1>3 DEF IInv, TypeOK, Unir, DifusionBienFormada, AntesDeEntrar, Ociosa, remoto
<1>6. SalaSiConexiones'
  BY DEF IInv, TypeOK, Unir, SalaSiConexiones
<1>7. DueniosConectados'
  BY <1>2 DEF IInv, TypeOK, Unir, DueniosConectados, UsuariosDe
<1> QED
  BY <1>4, <1>5, <1>6, <1>7 DEF IInv

\* The welcome tells the newcomer the room as it is.
LEMMA BienvenidaIInv ==
    ASSUME IInv, NEW s \in Conexiones, Bienvenida(s)
    PROVE  IInv'
<1>1. UsuariosDe(conexiones) \subseteq Usuarios
  BY DEF IInv, TypeOK, UsuariosDe
<1>2. TypeOK'
  BY <1>1 DEF IInv, TypeOK, Bienvenida, Fases, sala, envio
<1>3. (DifusionBienFormada /\ AntesDeEntrar)'
  BY DEF IInv, TypeOK, Bienvenida, DifusionBienFormada, AntesDeEntrar, Ociosa, envio
<1>4. (SalaSiConexiones /\ DueniosConectados)'
  BY DEF IInv, TypeOK, Bienvenida, SalaSiConexiones, DueniosConectados, UsuariosDe, sala
<1> QED
  BY <1>2, <1>3, <1>4 DEF IInv

\* A welcome that fails leaves the connection in the room.
LEMMA BienvenidaFallaIInv ==
    ASSUME IInv, NEW s \in Conexiones, BienvenidaFalla(s)
    PROVE  IInv'
<1>1. TypeOK'
  BY DEF IInv, TypeOK, BienvenidaFalla, Fases, sala, envio, remoto
<1>2. (DifusionBienFormada /\ AntesDeEntrar)'
  BY DEF IInv, TypeOK, BienvenidaFalla, DifusionBienFormada, AntesDeEntrar, Ociosa,
         envio, remoto
<1>3. (SalaSiConexiones /\ DueniosConectados)'
  BY DEF IInv, TypeOK, BienvenidaFalla, SalaSiConexiones, DueniosConectados, UsuariosDe, sala
<1> QED
  BY <1>1, <1>2, <1>3 DEF IInv

\* The frames a client sends: the locks change, and something is announced.
LEMMA PeticionIInv ==
    ASSUME IInv, NEW s \in Conexiones, NEW msgs \in SUBSET Mensajes,
           Atiende(s), Anunciar(s, msgs),
           bloqueos' \in [Clases -> Bloqueo \cup {Nulo}],
           \A c \in Clases : \/ bloqueos'[c] \in {Nulo, bloqueos[c]}
                             \/ bloqueos'[c].usuario = UsuarioDe[s],
           UNCHANGED <<reloj, abierta, fase, edita, salaExiste, conexiones, remoto>>
    PROVE  IInv'
<1>1. /\ pendientes' \in [Conexiones -> SUBSET Mensajes]
      /\ \A t \in Conexiones \ {s} : pendientes'[t] = pendientes[t]
      /\ actual' = actual /\ destinos' = destinos
      /\ bucle' \in Conexiones
  BY AnunciarBien DEF IInv
<1>2. TypeOK'
  BY <1>1 DEF IInv, TypeOK, remoto
<1>3. (DifusionBienFormada /\ AntesDeEntrar)'
  BY <1>1 DEF IInv, TypeOK, Atiende, DifusionBienFormada, AntesDeEntrar, Ociosa, remoto
<1>4. SalaSiConexiones'
  BY DEF IInv, SalaSiConexiones
<1>5. s \in conexiones
  BY DEF IInv, Atiende, SalaSiConexiones
<1>6. DueniosConectados'
  BY <1>5 DEF IInv, TypeOK, DueniosConectados, UsuariosDe
<1> QED
  BY <1>2, <1>3, <1>4, <1>6 DEF IInv

\* A lock is given to a connected user, or denied.
LEMMA SolicitarIInv ==
    ASSUME IInv, NEW s \in Conexiones, NEW c \in Clases, Solicitar(s, c)
    PROVE  IInv'
<1> DEFINE u == UsuarioDe[s]
           concede == PuedeTomar(u, SinExpirados[c])
           nuevo == [usuario |-> u, expira |-> reloj + TTL]
<1>1. u \in Usuarios /\ reloj + TTL \in Nat /\ nuevo \in Bloqueo
  BY TTLAssumption DEF IInv, TypeOK, Bloqueo
<1>2. /\ SinExpirados \in [Clases -> Bloqueo \cup {Nulo}]
      /\ \A k \in Clases : SinExpirados[k] \in {Nulo, bloqueos[k]}
  BY LimpiarBloqueos DEF IInv, TypeOK
<1>3. CASE PuedeEditar(s)
  <2>1. PICK msgs \in SUBSET Mensajes : Anunciar(s, msgs)
    <3>1. {IF concede THEN Concedido(c, u, reloj + TTL) ELSE Denegado(c)} \in SUBSET Mensajes
      BY <1>1, MensajesBienTipados
    <3> QED
      BY <3>1, <1>3 DEF Solicitar
  <2>2. bloqueos' = IF concede THEN [SinExpirados EXCEPT ![c] = nuevo] ELSE SinExpirados
    BY <1>3 DEF Solicitar
  <2>3. /\ bloqueos' \in [Clases -> Bloqueo \cup {Nulo}]
        /\ \A k \in Clases : \/ bloqueos'[k] \in {Nulo, bloqueos[k]}
                             \/ bloqueos'[k].usuario = u
    BY <1>1, <1>2, <2>2
  <2> QED
    BY <2>1, <2>3, PeticionIInv DEF Solicitar
<1>4. CASE ~PuedeEditar(s)
  <2>1. PICK msgs \in SUBSET Mensajes : Anunciar(s, msgs)
    BY <1>4, MensajesBienTipados DEF Solicitar
  <2>2. bloqueos' = bloqueos
    BY <1>4 DEF Solicitar
  <2> QED
    BY <2>1, <2>2, PeticionIInv DEF Solicitar, IInv, TypeOK
<1> QED
  BY <1>3, <1>4

\* Renewing changes the expiry of a lock, not its owner.
LEMMA RenovarIInv ==
    ASSUME IInv, NEW s \in Conexiones, NEW c \in Clases, Renovar(s, c)
    PROVE  IInv'
<1>1. UsuarioDe[s] \in Usuarios /\ reloj + TTL \in Nat
  BY TTLAssumption DEF IInv, TypeOK
<1>2. {Concedido(c, UsuarioDe[s], reloj + TTL)} \in SUBSET Mensajes
  BY <1>1, MensajesBienTipados
<1>3. bloqueos[c] \in Bloqueo /\ bloqueos[c].usuario = UsuarioDe[s]
  BY DEF IInv, TypeOK, Renovar, BloqueadaPor
<1>4. /\ bloqueos' \in [Clases -> Bloqueo \cup {Nulo}]
      /\ \A k \in Clases : \/ bloqueos'[k] \in {Nulo, bloqueos[k]}
                           \/ bloqueos'[k].usuario = UsuarioDe[s]
  BY <1>1, <1>3 DEF IInv, TypeOK, Renovar, Bloqueo
<1> QED
  BY <1>2, <1>4, PeticionIInv DEF Renovar

\* Releasing removes a lock.
LEMMA LiberarIInv ==
    ASSUME IInv, NEW s \in Conexiones, NEW c \in Clases, Liberar(s, c)
    PROVE  IInv'
<1>1. {Liberado(c)} \in SUBSET Mensajes
  BY MensajesBienTipados
<1>2. /\ bloqueos' \in [Clases -> Bloqueo \cup {Nulo}]
      /\ \A k \in Clases : bloqueos'[k] \in {Nulo, bloqueos[k]}
  BY DEF IInv, TypeOK, Liberar
<1> QED
  BY <1>1, <1>2, PeticionIInv DEF Liberar

\* Pointers change nothing that is kept.
LEMMA ApuntarIInv ==
    ASSUME IInv, NEW s \in Conexiones, Apuntar(s)
    PROVE  IInv'
<1>1. {Puntero} \in SUBSET Mensajes
  BY MensajesBienTipados
<1> QED
  BY <1>1, PeticionIInv DEF Apuntar, sala, IInv, TypeOK

\* Leaving: the locks of a user go with his last tab, so those that stay
\* belong to somebody who has a connection other than s.
LEMMA RemoverIInv ==
    ASSUME IInv, NEW s \in Conexiones, Atiende(s), Remover(s)
    PROVE  IInv'
<1> DEFINE u == UsuarioDe[s]
           quedan == conexiones \ {s}
<1>1. u \in Usuarios
  OBVIOUS
<1>2. PICK msgs \in SUBSET Mensajes : Anunciar(s, msgs)
  <2>1. AnunciosDeSalida(u) \in SUBSET Mensajes
    BY <1>1, MensajesBienTipados DEF AnunciosDeSalida, BloqueosDe
  <2> QED
    BY <2>1 DEF Remover
<1>3. /\ pendientes' \in [Conexiones -> SUBSET Mensajes]
      /\ \A t \in Conexiones \ {s} : pendientes'[t] = pendientes[t]
      /\ actual' = actual /\ destinos' = destinos
      /\ bucle' \in Conexiones
  BY <1>2, AnunciarBien DEF IInv
<1>4. /\ bloqueos' \in [Clases -> Bloqueo \cup {Nulo}]
      /\ \A c \in Clases : bloqueos'[c] \in {Nulo, bloqueos[c]}
      /\ quedan = {} => \A c \in Clases : bloqueos'[c] = Nulo
      /\ EsUltimaPestana(s) => \A c \in Clases : BloqueadaPor(u, c) => bloqueos'[c] = Nulo
  <2>1. CASE quedan = {}
    <3>1. bloqueos' = SinBloqueos
      BY <2>1 DEF Remover
    <3> QED
      BY <3>1 DEF SinBloqueos
  <2>2. CASE quedan # {} /\ EsUltimaPestana(s)
    <3>1. bloqueos' = [c \in Clases |-> IF c \in BloqueosDe(u) THEN Nulo ELSE bloqueos[c]]
      BY <2>2 DEF Remover
    <3> QED
      BY <2>2, <3>1 DEF IInv, TypeOK, BloqueosDe
  <2>3. CASE quedan # {} /\ ~EsUltimaPestana(s)
    <3>1. bloqueos' = bloqueos
      BY <2>3 DEF Remover
    <3> QED
      BY <2>3, <3>1 DEF IInv, TypeOK
  <2> QED
    BY <2>1, <2>2, <2>3
<1>5. /\ fase' = [fase EXCEPT ![s] = "saliendo"]
      /\ conexiones' = quedan
      /\ salaExiste' = (quedan # {})
      /\ UNCHANGED <<reloj, abierta, edita, remoto>>
  BY DEF Remover, SalaQueda
<1>6. TypeOK'
  BY <1>3, <1>4, <1>5 DEF IInv, TypeOK, Fases, remoto
<1>7. (DifusionBienFormada /\ AntesDeEntrar)'
  BY <1>3, <1>5 DEF IInv, TypeOK, DifusionBienFormada, AntesDeEntrar, Ociosa, remoto
<1>8. SalaSiConexiones'
  BY <1>5 DEF IInv, TypeOK, SalaSiConexiones
<1>9. DueniosConectados'
  <2> SUFFICES ASSUME NEW c \in Clases, bloqueos'[c] # Nulo
               PROVE  bloqueos'[c].usuario \in UsuariosDe(quedan)
    BY <1>5 DEF DueniosConectados, UsuariosDe
  <2>1. bloqueos'[c] = bloqueos[c] /\ bloqueos[c].usuario \in UsuariosDe(conexiones)
    BY <1>4 DEF IInv, DueniosConectados
  <2>2. PICK t \in conexiones : bloqueos[c].usuario = UsuarioDe[t]
    BY <2>1 DEF UsuariosDe
  <2>3. CASE bloqueos[c].usuario = u
    BY <1>4, <2>1, <2>3 DEF EsUltimaPestana, BloqueadaPor
  <2>4. CASE bloqueos[c].usuario # u
    BY <2>1, <2>2, <2>4 DEF UsuariosDe
  <2> QED
    BY <2>3, <2>4
<1> QED
  BY <1>6, <1>7, <1>8, <1>9 DEF IInv

\* A handler that returns had left the room before.
LEMMA TerminarIInv ==
    ASSUME IInv, NEW s \in Conexiones, Terminar(s)
    PROVE  IInv'
<1>1. SinBloqueos \in [Clases -> Bloqueo \cup {Nulo}]
  BY DEF SinBloqueos
<1>2. TypeOK'
  BY <1>1 DEF IInv, TypeOK, Terminar, Fases, sala, envio
<1>3. (DifusionBienFormada /\ AntesDeEntrar)'
  BY DEF IInv, TypeOK, Terminar, DifusionBienFormada, AntesDeEntrar, Ociosa, envio
<1>4. (SalaSiConexiones /\ DueniosConectados)'
  BY DEF IInv, TypeOK, Terminar, SalaSiConexiones, DueniosConectados, UsuariosDe, sala
<1> QED
  BY <1>2, <1>3, <1>4 DEF IInv

\* A broadcast is addressed to connections.
LEMMA EmpezarDifusionIInv ==
    ASSUME IInv, NEW s \in Conexiones, EmpezarDifusion(s)
    PROVE  IInv'
<1>1. PICK m \in pendientes[s] :
        /\ pendientes' = [pendientes EXCEPT ![s] = @ \ {m}]
        /\ destinos' = [destinos EXCEPT ![s] = Audiencia(m, s)]
        /\ actual' = [actual EXCEPT ![s] = IF Audiencia(m, s) = {} THEN Nulo ELSE m]
  BY DEF EmpezarDifusion
<1>2. m \in Mensajes /\ m # Nulo
  BY DEF IInv, TypeOK
<1>3. Audiencia(m, s) \in SUBSET Conexiones
  BY DEF Audiencia, IInv, TypeOK
<1>4. TypeOK'
  BY <1>1, <1>2, <1>3 DEF IInv, TypeOK, EmpezarDifusion, sala, remoto
<1>5. DifusionBienFormada'
  BY <1>1, <1>2, <1>3 DEF IInv, TypeOK, DifusionBienFormada
<1>6. AntesDeEntrar'
  <2>1. ~(fase[s] \in {"nueva", "aceptada"})
    BY <1>1 DEF IInv, AntesDeEntrar, Ociosa
  <2> QED
    BY <1>1, <2>1 DEF IInv, TypeOK, EmpezarDifusion, AntesDeEntrar, Ociosa, remoto
<1>7. (SalaSiConexiones /\ DueniosConectados)'
  BY DEF IInv, EmpezarDifusion, SalaSiConexiones, DueniosConectados, UsuariosDe, sala
<1> QED
  BY <1>4, <1>5, <1>6, <1>7 DEF IInv

\* A frame delivered leaves a client with well-typed knowledge.
LEMMA EnviarFrameIInv ==
    ASSUME IInv, NEW s \in Conexiones, NEW d \in Conexiones, EnviarFrame(s, d)
    PROVE  IInv'
<1> DEFINE m == actual[s]
           faltan == destinos[s] \ {d}
<1>1. m \in Mensajes /\ m # Nulo
  BY DEF IInv, TypeOK, DifusionBienFormada, EnviarFrame
<1>2. /\ destinos' = [destinos EXCEPT ![s] = faltan]
      /\ actual' = [actual EXCEPT ![s] = IF faltan = {} THEN Nulo ELSE m]
      /\ UNCHANGED <<reloj, abierta, fase, edita, sala, pendientes>>
      /\ bucle' \in {Nulo, s}
  BY DEF EnviarFrame
<1>3. /\ vista' \in [Conexiones -> [Clases -> Bloqueo \cup {Nulo}]]
      /\ presentes' \in [Conexiones -> SUBSET Usuarios]
      /\ \A t \in Conexiones : presentes'[t] \subseteq presentes[t]
  <2>1. CASE d \in abierta
    <3>1. /\ VistaTras(m, vista[d]) \in [Clases -> Bloqueo \cup {Nulo}]
          /\ PresentesTras(m, presentes[d]) \in SUBSET Usuarios
          /\ PresentesTras(m, presentes[d]) \subseteq presentes[d]
      <4>1. vista[d] \in [Clases -> Bloqueo \cup {Nulo}] /\ presentes[d] \in SUBSET Usuarios
        BY DEF IInv, TypeOK
      <4> HIDE DEF m
      <4> QED
        BY <1>1, <4>1, FrameBienTipado
    <3>2. /\ vista' = [vista EXCEPT ![d] = VistaTras(m, vista[d])]
          /\ presentes' = [presentes EXCEPT ![d] = PresentesTras(m, presentes[d])]
      BY <2>1 DEF EnviarFrame
    <3> QED
      BY <3>1, <3>2 DEF IInv, TypeOK
  <2>2. CASE d \notin abierta
    BY <2>2 DEF EnviarFrame, remoto, IInv, TypeOK
  <2> QED
    BY <2>1, <2>2
<1>4. TypeOK'
  BY <1>1, <1>2, <1>3 DEF IInv, TypeOK, sala
<1>5. DifusionBienFormada'
  BY <1>1, <1>2 DEF IInv, TypeOK, DifusionBienFormada
<1>6. AntesDeEntrar'
  <2>1. ~(fase[s] \in {"nueva", "aceptada"})
    BY <1>1 DEF IInv, AntesDeEntrar, Ociosa
  <2> QED
    BY <1>2, <1>3, <2>1 DEF IInv, TypeOK, AntesDeEntrar, Ociosa
<1>7. (SalaSiConexiones /\ DueniosConectados)'
  BY <1>2 DEF IInv, SalaSiConexiones, DueniosConectados, UsuariosDe, sala
<1> QED
  BY <1>4, <1>5, <1>6, <1>7 DEF IInv

\* Giving the loop away changes nothing else.
LEMMA CederIInv ==
    ASSUME IInv, NEW s \in Conexiones, Ceder(s)
    PROVE  IInv'
<1>1. TypeOK'
  BY DEF IInv, TypeOK, Ceder, sala, envio, remoto
<1>2. (DifusionBienFormada /\ AntesDeEntrar)'
  BY DEF IInv, Ceder, DifusionBienFormada, AntesDeEntrar, Ociosa, envio, remoto
<1>3. (SalaSiConexiones /\ DueniosConectados)'
  BY DEF IInv, Ceder, SalaSiConexiones, DueniosConectados, UsuariosDe, sala
<1> QED
  BY <1>1, <1>2, <1>3 DEF IInv

\* A peer that goes away leaves the room as it was.
LEMMA CerrarIInv ==
    ASSUME IInv, NEW s \in Conexiones, Cerrar(s)
    PROVE  IInv'
<1>1. SinBloqueos \in [Clases -> Bloqueo \cup {Nulo}]
  BY DEF SinBloqueos
<1>2. TypeOK'
  BY <1>1 DEF IInv, TypeOK, Cerrar, sala, envio
<1>3. (DifusionBienFormada /\ AntesDeEntrar)'
  BY DEF IInv, TypeOK, Cerrar, DifusionBienFormada, AntesDeEntrar, Ociosa, envio
<1>4. (SalaSiConexiones /\ DueniosConectados)'
  BY DEF IInv, Cerrar, SalaSiConexiones, DueniosConectados, UsuariosDe, sala
<1> QED
  BY <1>2, <1>3, <1>4 DEF IInv

\* Time passes.
LEMMA PasarIInv == IInv /\ Pasar => IInv'
<1> SUFFICES ASSUME IInv, Pasar PROVE IInv'
  OBVIOUS
<1>1. reloj' \in 0..MaxReloj
  BY TTLAssumption DEF IInv, TypeOK, Pasar
<1>2. TypeOK'
  BY <1>1 DEF IInv, TypeOK, Pasar, sala, envio, remoto
<1>3. (DifusionBienFormada /\ AntesDeEntrar)'
  BY DEF IInv, Pasar, DifusionBienFormada, AntesDeEntrar, Ociosa, envio, remoto
<1>4. (SalaSiConexiones /\ DueniosConectados)'
  BY DEF IInv, Pasar, SalaSiConexiones, DueniosConectados, UsuariosDe, sala
<1> QED
  BY <1>2, <1>3, <1>4 DEF IInv

\* Every step keeps the invariant.
LEMMA PasoIInv == IInv /\ [Next]_vars => IInv'
<1> SUFFICES ASSUME IInv, [Next]_vars PROVE IInv'
  OBVIOUS
<1>1. CASE Pasar
  BY <1>1, PasarIInv
<1>2. ASSUME NEW s \in Conexiones, Paso(s) PROVE IInv'
  <2>1. CASE Desconexion(s)
    BY <2>1, RemoverIInv DEF Desconexion
  <2>2. CASE \E d \in Conexiones : EnviarFrame(s, d)
    BY <2>2, EnviarFrameIInv
  <2> QED
    BY <1>2, <2>1, <2>2, UnirIInv, BienvenidaIInv, BienvenidaFallaIInv, EmpezarDifusionIInv,
       CederIInv, TerminarIInv DEF Paso
<1>3. ASSUME NEW s \in Conexiones, Peticion(s) PROVE IInv'
  <2>1. CASE FrameInvalido(s)
    BY <2>1, RemoverIInv DEF FrameInvalido
  <2>2. CASE \E c \in Clases : Solicitar(s, c) \/ Renovar(s, c) \/ Liberar(s, c)
    BY <2>2, SolicitarIInv, RenovarIInv, LiberarIInv
  <2> QED
    BY <1>3, <2>1, <2>2, AceptarIInv, RechazarIInv, ApuntarIInv, CerrarIInv DEF Peticion
<1>4. CASE UNCHANGED vars
  <2>1. TypeOK'
    BY <1>4 DEF IInv, TypeOK, vars, sala, envio, remoto
  <2>2. (DifusionBienFormada /\ AntesDeEntrar)'
    BY <1>4 DEF IInv, DifusionBienFormada, AntesDeEntrar, Ociosa, vars, envio, remoto
  <2>3. (SalaSiConexiones /\ DueniosConectados)'
    BY <1>4 DEF IInv, SalaSiConexiones, DueniosConectados, UsuariosDe, vars, sala
  <2> QED
    BY <2>1, <2>2, <2>3 DEF IInv
<1> QED
  BY <1>1, <1>2, <1>3, <1>4 DEF Next

\* The invariant holds in every reachable state.
THEOREM Inductivo == Spec => []IInv
  BY InicioIInv, PasoIInv, PTL DEF Spec

\* Every variable of the room keeps its type.
THEOREM TiposCorrectos == Spec => []TypeOK
<1>1. IInv => TypeOK
  BY DEF IInv
<1> QED
  BY Inductivo, <1>1, PTL

\* No lock, expired or not, outlives the last connection of its owner.
THEOREM NingunBloqueoHuerfano == Spec => []DueniosConectados
<1>1. IInv => DueniosConectados
  BY DEF IInv
<1> QED
  BY Inductivo, <1>1, PTL

\* The room exists exactly while it has connections, and every handler that
\* serves a client finds it.
THEOREM SalaBienMantenida == Spec => []SalaSiConexiones
<1>1. IInv => SalaSiConexiones
  BY DEF IInv
<1> QED
  BY Inductivo, <1>1, PTL

(***************************************************************************)
(* The steps that touch a lock.  Three ways, and no other: it had expired  *)
(* and is cleaned; an editing connection in the room acts on a lock that   *)
(* was free, expired or its user's own; or the owner's last tab leaves.    *)
(***************************************************************************)
Limpieza(c) == bloqueos[c] # Nulo /\ Vencido(c) /\ bloqueos'[c] = Nulo
DelEditor(s, c) ==
    /\ bucle' = s /\ s \in edita \cap conexiones /\ fase'[s] = "activa"
    /\ bloqueos[c] # Nulo /\ ~Vencido(c) => bloqueos[c].usuario = UsuarioDe[s]
    /\ bloqueos'[c] # Nulo => bloqueos'[c].usuario = UsuarioDe[s]
DelAusente(c) ==
    /\ bloqueos[c] # Nulo /\ bloqueos'[c] = Nulo
    /\ bloqueos[c].usuario \notin UsuariosDe(conexiones')
CambioLicito(c) ==
    \/ bloqueos'[c] = bloqueos[c]
    \/ Limpieza(c)
    \/ \E s \in Conexiones : DelEditor(s, c)
    \/ DelAusente(c)

\* Joining drops expired locks only.
LEMMA UnirLicito ==
    ASSUME IInv, NEW s \in Conexiones, Unir(s), NEW c \in Clases
    PROVE  CambioLicito(c)
  BY LimpiarBloqueos DEF IInv, TypeOK, Unir, SinExpirados, CambioLicito, Limpieza, Vencido

\* A request drops expired locks and takes one that is free or its own.
LEMMA SolicitarLicito ==
    ASSUME IInv, NEW s \in Conexiones, NEW k \in Clases, Solicitar(s, k), NEW c \in Clases
    PROVE  CambioLicito(c)
<1>1. CASE ~PuedeEditar(s)
  BY <1>1 DEF Solicitar, CambioLicito
<1>2. CASE PuedeEditar(s)
  <2>1. /\ bucle' = s /\ s \in edita \cap conexiones /\ fase'[s] = "activa"
    BY <1>2 DEF Solicitar, Anunciar, Atiende, PuedeEditar, IInv, SalaSiConexiones
  <2>2. bloqueos' = IF PuedeTomar(UsuarioDe[s], SinExpirados[k])
                    THEN [SinExpirados EXCEPT ![k] =
                            [usuario |-> UsuarioDe[s], expira |-> reloj + TTL]]
                    ELSE SinExpirados
    BY <1>2 DEF Solicitar
  <2>3. /\ SinExpirados \in [Clases -> Bloqueo \cup {Nulo}]
        /\ SinExpirados[c] = IF Vencido(c) THEN Nulo ELSE bloqueos[c]
    BY LimpiarBloqueos DEF IInv, TypeOK, SinExpirados
  <2>4. CASE c = k /\ PuedeTomar(UsuarioDe[s], SinExpirados[k])
    <3>1. /\ bloqueos[c] # Nulo /\ ~Vencido(c) => bloqueos[c].usuario = UsuarioDe[s]
          /\ bloqueos'[c].usuario = UsuarioDe[s]
      BY <2>2, <2>3, <2>4 DEF PuedeTomar
    <3> QED
      BY <2>1, <3>1 DEF CambioLicito, DelEditor
  <2>5. CASE ~(c = k /\ PuedeTomar(UsuarioDe[s], SinExpirados[k]))
    <3>1. bloqueos'[c] = SinExpirados[c]
      BY <2>2, <2>3, <2>5
    <3> QED
      BY <2>3, <3>1 DEF CambioLicito, Limpieza, Vencido
  <2> QED
    BY <2>4, <2>5
<1> QED
  BY <1>1, <1>2

\* Renewing extends a lock of the same user.
LEMMA RenovarLicito ==
    ASSUME IInv, NEW s \in Conexiones, NEW k \in Clases, Renovar(s, k) \/ Liberar(s, k),
           NEW c \in Clases
    PROVE  CambioLicito(c)
<1>1. /\ bucle' = s /\ s \in edita \cap conexiones /\ fase'[s] = "activa"
      /\ bloqueos[k] # Nulo /\ bloqueos[k].usuario = UsuarioDe[s]
  BY DEF Renovar, Liberar, Anunciar, Atiende, PuedeEditar, BloqueadaPor, IInv, SalaSiConexiones
<1>2. /\ c # k => bloqueos'[c] = bloqueos[c]
      /\ c = k /\ bloqueos'[c] # Nulo => bloqueos'[c].usuario = UsuarioDe[s]
  <2>1. CASE Renovar(s, k)
    <3>1. bloqueos[k] \in Bloqueo
      BY <1>1 DEF IInv, TypeOK
    <3>2. bloqueos' = [bloqueos EXCEPT ![k] = [bloqueos[k] EXCEPT !.expira = reloj + TTL]]
      BY <2>1, <3>1 DEF Renovar, IInv, TypeOK, Bloqueo
    <3> QED
      BY <1>1, <3>1, <3>2 DEF IInv, TypeOK, Bloqueo
  <2>2. CASE Liberar(s, k)
    BY <2>2 DEF Liberar, IInv, TypeOK
  <2> QED
    BY <2>1, <2>2
<1> QED
  BY <1>1, <1>2 DEF CambioLicito, DelEditor

\* Leaving drops the locks of the user that is gone.
LEMMA RemoverLicito ==
    ASSUME IInv, NEW s \in Conexiones, Atiende(s), Remover(s), NEW c \in Clases
    PROVE  CambioLicito(c)
<1> DEFINE u == UsuarioDe[s]
<1>1. conexiones' = conexiones \ {s} /\ s \in conexiones
  BY DEF Remover, Atiende, IInv, SalaSiConexiones
<1>2. CASE EsUltimaPestana(s) /\ bloqueos[c] # Nulo /\ bloqueos'[c] = Nulo
  <2>1. CASE bloqueos[c].usuario = u
    BY <1>1, <1>2, <2>1 DEF EsUltimaPestana, CambioLicito, DelAusente
  <2>2. CASE bloqueos[c].usuario # u /\ conexiones \ {s} # {}
    <3>1. bloqueos' = [k \in Clases |-> IF k \in BloqueosDe(u) THEN Nulo ELSE bloqueos[k]]
      BY <1>2, <2>2 DEF Remover
    <3> QED
      BY <3>1, <2>2, <1>2 DEF BloqueosDe, BloqueadaPor
  <2>3. CASE conexiones \ {s} = {}
    BY <1>1, <1>2, <2>3 DEF UsuariosDe, CambioLicito, DelAusente
  <2> QED
    BY <2>1, <2>2, <2>3
<1>3. CASE ~(EsUltimaPestana(s) /\ bloqueos[c] # Nulo /\ bloqueos'[c] = Nulo)
  <2>1. CASE conexiones \ {s} = {}
    <3>1. bloqueos'[c] = Nulo /\ EsUltimaPestana(s)
      BY <2>1 DEF Remover, SinBloqueos, EsUltimaPestana, UsuariosDe
    <3> QED
      BY <1>3, <3>1 DEF CambioLicito
  <2>2. CASE conexiones \ {s} # {} /\ EsUltimaPestana(s)
    <3>1. bloqueos' = [k \in Clases |-> IF k \in BloqueosDe(u) THEN Nulo ELSE bloqueos[k]]
      BY <2>2 DEF Remover
    <3> QED
      BY <3>1, <1>3, <2>2 DEF CambioLicito
  <2>3. CASE conexiones \ {s} # {} /\ ~EsUltimaPestana(s)
    BY <2>3 DEF Remover, CambioLicito
  <2> QED
    BY <2>1, <2>2, <2>3
<1> QED
  BY <1>2, <1>3

\* No step changes a lock in any other way.
LEMMA TodoCambioLicito ==
    ASSUME IInv, [Next]_vars, NEW c \in Clases
    PROVE  CambioLicito(c)
<1>1. CASE UNCHANGED vars \/ Pasar
  BY <1>1 DEF vars, Pasar, sala, CambioLicito
<1>2. ASSUME NEW s \in Conexiones, Paso(s) PROVE CambioLicito(c)
  <2>1. CASE Unir(s)
    BY <2>1, UnirLicito
  <2>2. CASE Desconexion(s)
    BY <2>2, RemoverLicito DEF Desconexion
  <2>3. CASE Bienvenida(s) \/ BienvenidaFalla(s) \/ EmpezarDifusion(s)
             \/ (\E d \in Conexiones : EnviarFrame(s, d)) \/ Ceder(s) \/ Terminar(s)
    BY <2>3 DEF Bienvenida, BienvenidaFalla, EmpezarDifusion, EnviarFrame, Ceder, Terminar,
                sala, CambioLicito
  <2> QED
    BY <1>2, <2>1, <2>2, <2>3 DEF Paso
<1>3. ASSUME NEW s \in Conexiones, Peticion(s) PROVE CambioLicito(c)
  <2>1. CASE FrameInvalido(s)
    BY <2>1, RemoverLicito DEF FrameInvalido
  <2>2. CASE \E k \in Clases : Solicitar(s, k) \/ Renovar(s, k) \/ Liberar(s, k)
    BY <2>2, SolicitarLicito, RenovarLicito
  <2>3. CASE Aceptar(s) \/ Rechazar(s) \/ Apuntar(s) \/ Cerrar(s)
    BY <2>3 DEF Aceptar, Rechazar, Apuntar, Cerrar, sala, CambioLicito
  <2> QED
    BY <1>3, <2>1, <2>2, <2>3 DEF Peticion
<1> QED
  BY <1>1, <1>2, <1>3 DEF Next

\* A live lock never goes from one user to another in one step.
THEOREM BloqueoNoSeRoba == Spec => NadieRoba
<1>1. IInv /\ [Next]_vars =>
        [\A c \in Clases :
           /\ bloqueos[c] # Nulo /\ ~Vencido(c)
           /\ bloqueos'[c] # Nulo
           => bloqueos'[c].usuario = bloqueos[c].usuario]_vars
  BY TodoCambioLicito DEF CambioLicito, Limpieza, DelEditor, DelAusente
<1> QED
  BY Inductivo, <1>1, PTL DEF Spec, NadieRoba

\* A live lock is only dropped by its owner or after his last tab.
THEOREM BloqueoSoloLoSueltaSuDuenio == Spec => SoloSuelta
<1>1. IInv /\ [Next]_vars =>
        [\A c \in Clases :
           /\ bloqueos[c] # Nulo /\ ~Vencido(c)
           /\ bloqueos'[c] = Nulo
           => \/ bloqueos[c].usuario \notin UsuariosDe(conexiones')
              \/ \E s \in edita : /\ UsuarioDe[s] = bloqueos[c].usuario
                                 /\ bucle' = s /\ fase'[s] = "activa"]_vars
  BY TodoCambioLicito DEF CambioLicito, Limpieza, DelEditor, DelAusente
<1> QED
  BY Inductivo, <1>1, PTL DEF Spec, SoloSuelta

\* Locks are only obtained and extended by connected editors, for themselves.
THEOREM BloqueoSoloDeEditores == Spec => SoloEditores
<1>1. IInv /\ [Next]_vars =>
        [\A c \in Clases :
           bloqueos'[c] # bloqueos[c] /\ bloqueos'[c] # Nulo
           => bucle' \in edita \cap conexiones
              /\ UsuarioDe[bucle'] = bloqueos'[c].usuario]_vars
  BY TodoCambioLicito DEF CambioLicito, Limpieza, DelEditor, DelAusente
<1> QED
  BY Inductivo, <1>1, PTL DEF Spec, SoloEditores

(***************************************************************************)
(* Presence: every participant a client shows is connected, or the news of *)
(* his departure is on its way to that client.                             *)
(***************************************************************************)

\* A step that loses no announcement, disconnects nobody and teaches no
\* client a participant.
LEMMA PresenciaConservada ==
    ASSUME PresenciaSinAusentes,
           conexiones \subseteq conexiones',
           \A d \in conexiones' \cap abierta' : \A u \in presentes'[d] :
              d \in conexiones \cap abierta /\ u \in presentes[d],
           \A s \in Conexiones : pendientes[s] \subseteq pendientes'[s],
           actual' = actual, destinos' = destinos
    PROVE  PresenciaSinAusentes'
<1>1. \A s \in Conexiones : \A d, u : PorAvisar(s, d, u) => PorAvisar(s, d, u)'
  BY DEF PorAvisar, Desconectado
<1> QED
  BY <1>1 DEF PresenciaSinAusentes, UsuariosDe

\* A departure is announced to those who show the user.
LEMMA PresenciaRemover ==
    ASSUME IInv, PresenciaSinAusentes, NEW s \in Conexiones, Atiende(s), Remover(s)
    PROVE  PresenciaSinAusentes'
<1>1. /\ conexiones' = conexiones \ {s}
      /\ abierta' = abierta /\ presentes' = presentes
      /\ actual' = actual /\ destinos' = destinos
      /\ \A t \in Conexiones : pendientes[t] \subseteq pendientes'[t]
      /\ EsUltimaPestana(s) => Desconectado(UsuarioDe[s]) \in pendientes'[s]
  BY DEF Remover, Anunciar, Atiende, Ociosa, AnunciosDeSalida, remoto, IInv, TypeOK
<1>2. \A t \in Conexiones : \A d, u : PorAvisar(t, d, u) => PorAvisar(t, d, u)'
  BY <1>1 DEF PorAvisar, Desconectado
<1>3. \A d : EsUltimaPestana(s) => PorAvisar(s, d, UsuarioDe[s])'
  BY <1>1 DEF PorAvisar, Desconectado
<1>4. \A u \in UsuariosDe(conexiones) :
         u \in UsuariosDe(conexiones)' \/ (u = UsuarioDe[s] /\ EsUltimaPestana(s))
  BY <1>1 DEF UsuariosDe, EsUltimaPestana
<1> QED
  BY <1>1, <1>2, <1>3, <1>4 DEF PresenciaSinAusentes

\* Beginning a broadcast addresses whoever is connected.
LEMMA PresenciaEmpezarDifusion ==
    ASSUME IInv, PresenciaSinAusentes, NEW s \in Conexiones, EmpezarDifusion(s)
    PROVE  PresenciaSinAusentes'
<1>1. PICK m \in pendientes[s] :
        /\ pendientes' = [pendientes EXCEPT ![s] = @ \ {m}]
        /\ destinos' = [destinos EXCEPT ![s] = Audiencia(m, s)]
        /\ actual' = [actual EXCEPT ![s] = IF Audiencia(m, s) = {} THEN Nulo ELSE m]
  BY DEF EmpezarDifusion
<1>2. /\ actual[s] = Nulo
      /\ conexiones' = conexiones /\ abierta' = abierta /\ presentes' = presentes
  BY DEF EmpezarDifusion, sala, remoto
<1>3. ASSUME NEW d \in conexiones, NEW u \in Usuarios, NEW t \in Conexiones, PorAvisar(t, d, u)
      PROVE  PorAvisar(t, d, u)'
  <2> DEFINE aviso == Desconectado(u)
  <2>1. aviso \in Mensajes /\ aviso # Nulo
    BY MensajesBienTipados
  <2>2. aviso \in pendientes[t] \/ (actual[t] = aviso /\ d \in destinos[t])
    BY <1>3 DEF PorAvisar
  <2>3. aviso = m => Audiencia(m, s) = conexiones
    BY DEF Audiencia, Desconectado
  <2> HIDE DEF aviso
  <2>4. aviso \in pendientes'[t] \/ (actual'[t] = aviso /\ d \in destinos'[t])
    BY <1>1, <1>2, <2>1, <2>2, <2>3 DEF IInv, TypeOK
  <2> QED
    BY <2>4 DEF PorAvisar, aviso, Desconectado
<1> QED
  BY <1>2, <1>3 DEF PresenciaSinAusentes, IInv, TypeOK

\* A client told of a departure no longer shows the user.
LEMMA PresenciaEnviarFrame ==
    ASSUME IInv, PresenciaSinAusentes, NEW s \in Conexiones, NEW e \in Conexiones,
           EnviarFrame(s, e)
    PROVE  PresenciaSinAusentes'
<1>1. /\ destinos' = [destinos EXCEPT ![s] = destinos[s] \ {e}]
      /\ actual' = [actual EXCEPT ![s] = IF destinos[s] \ {e} = {} THEN Nulo ELSE actual[s]]
      /\ conexiones' = conexiones /\ abierta' = abierta /\ pendientes' = pendientes
  BY DEF EnviarFrame, sala
<1>2. presentes' = IF e \in abierta
                   THEN [presentes EXCEPT ![e] = PresentesTras(actual[s], presentes[e])]
                   ELSE presentes
  BY DEF EnviarFrame, remoto
<1>3. ASSUME NEW d \in conexiones \cap abierta, NEW u \in presentes'[d],
             NEW t \in Conexiones, PorAvisar(t, d, u)
      PROVE  u \in presentes[d] /\ PorAvisar(t, d, u)'
  <2> DEFINE aviso == Desconectado(u)
  <2>1. u \in presentes[d]
    BY <1>2 DEF IInv, TypeOK, PresentesTras
  <2>2. aviso \in pendientes[t] \/ (actual[t] = aviso /\ d \in destinos[t])
    BY <1>3 DEF PorAvisar
  <2>3. ~(actual[s] = aviso /\ d = e)
    BY <1>2 DEF PresentesTras, Desconectado, IInv, TypeOK
  <2> HIDE DEF aviso
  <2>4. aviso \in pendientes'[t] \/ (actual'[t] = aviso /\ d \in destinos'[t])
    BY <1>1, <2>2, <2>3 DEF IInv, TypeOK
  <2> QED
    BY <2>1, <2>4 DEF PorAvisar, aviso, Desconectado
<1>4. \A d \in conexiones \cap abierta : presentes'[d] \subseteq presentes[d]
  BY <1>2 DEF IInv, TypeOK, PresentesTras
<1> QED
  BY <1>1, <1>3, <1>4 DEF PresenciaSinAusentes, UsuariosDe

\* Every step keeps what clients show within what is connected or announced.
LEMMA PresenciaPaso == IInv /\ PresenciaSinAusentes /\ [Next]_vars => PresenciaSinAusentes'
<1> SUFFICES ASSUME IInv, PresenciaSinAusentes, [Next]_vars PROVE PresenciaSinAusentes'
  OBVIOUS
<1>1. CASE UNCHANGED vars \/ Pasar
  BY <1>1, PresenciaConservada DEF vars, Pasar, sala, envio, remoto
<1>2. ASSUME NEW s \in Conexiones, Paso(s) PROVE PresenciaSinAusentes'
  <2>1. CASE Unir(s)
    <3>1. pendientes[s] = {} /\ presentes[s] = {}
      BY <2>1 DEF Unir, IInv, AntesDeEntrar, Ociosa
    <3> QED
      BY <2>1, <3>1, PresenciaConservada DEF Unir, Anunciar, remoto, IInv, TypeOK
  <2>2. CASE Bienvenida(s)
    <3>1. /\ conexiones' = conexiones /\ abierta' = abierta /\ pendientes' = pendientes
          /\ actual' = actual /\ destinos' = destinos
          /\ presentes' = [presentes EXCEPT ![s] = UsuariosDe(conexiones)]
      BY <2>2 DEF Bienvenida, sala, envio
    <3>2. \A t \in Conexiones : \A d, u : PorAvisar(t, d, u)' = PorAvisar(t, d, u)
      BY <3>1 DEF PorAvisar, Desconectado
    <3> QED
      BY <3>1, <3>2 DEF PresenciaSinAusentes, UsuariosDe, IInv, TypeOK
  <2>3. CASE BienvenidaFalla(s) \/ Ceder(s)
    BY <2>3, PresenciaConservada DEF BienvenidaFalla, Ceder, sala, envio, remoto
  <2>4. CASE EmpezarDifusion(s)
    BY <2>4, PresenciaEmpezarDifusion
  <2>5. CASE \E d \in Conexiones : EnviarFrame(s, d)
    BY <2>5, PresenciaEnviarFrame
  <2>6. CASE Desconexion(s)
    BY <2>6, PresenciaRemover DEF Desconexion
  <2>7. CASE Terminar(s)
    BY <2>7, PresenciaConservada DEF Terminar, sala, envio, IInv, TypeOK
  <2> QED
    BY <1>2, <2>1, <2>2, <2>3, <2>4, <2>5, <2>6, <2>7 DEF Paso
<1>3. ASSUME NEW s \in Conexiones, Peticion(s) PROVE PresenciaSinAusentes'
  <2>1. CASE FrameInvalido(s)
    BY <2>1, PresenciaRemover DEF FrameInvalido
  <2>2. CASE (\E c \in Clases : Solicitar(s, c) \/ Renovar(s, c) \/ Liberar(s, c)) \/ Apuntar(s)
    <3>1. pendientes[s] = {} /\ \E msgs : Anunciar(s, msgs)
      BY <2>2 DEF Solicitar, Renovar, Liberar, Apuntar, Atiende, Ociosa
    <3>2. conexiones' = conexiones /\ abierta' = abierta /\ presentes' = presentes
      BY <2>2 DEF Solicitar, Renovar, Liberar, Apuntar, sala, remoto
    <3> QED
      BY <3>1, <3>2, PresenciaConservada DEF Anunciar, IInv, TypeOK
  <2>3. CASE Aceptar(s)
    <3>1. presentes[s] = {}
      BY <2>3 DEF Aceptar, IInv, AntesDeEntrar
    <3> QED
      BY <2>3, <3>1, PresenciaConservada DEF Aceptar, sala, envio, remoto
  <2>4. CASE Rechazar(s)
    BY <2>4, PresenciaConservada DEF Rechazar, sala, envio, remoto
  <2>5. CASE Cerrar(s)
    BY <2>5, PresenciaConservada DEF Cerrar, sala, envio, IInv, TypeOK
  <2> QED
    BY <1>3, <2>1, <2>2, <2>3, <2>4, <2>5 DEF Peticion
<1> QED
  BY <1>1, <1>2, <1>3 DEF Next

\* Whoever a client shows is connected, or his departure is on its way.
THEOREM PresenciaVeraz == Spec => []PresenciaSinAusentes
<1>1. Init => PresenciaSinAusentes
  BY DEF Init, PresenciaSinAusentes
<1> QED
  BY <1>1, Inductivo, PresenciaPaso, PTL DEF Spec

(***************************************************************************)
(* The clients' view of the locks, while no send suspends its sender: the  *)
(* handler that speaks is the one that has the loop, every frame on its    *)
(* way about a lock says what the room says, and a client that does not    *)
(* know a live lock has such a frame on its way to it.                     *)
(***************************************************************************)
Vigente(b) == IF b # Nulo /\ b.expira > reloj THEN b ELSE Nulo

\* The frame m tells its reader what became of the lock of c.
Dice(m, c) == m # Nulo /\ m.clase = c /\ m.tipo \in {"CONCEDIDO", "LIBERADO"}
Contenido(m) ==
    IF m.tipo = "CONCEDIDO" THEN [usuario |-> m.usuario, expira |-> m.expira] ELSE Nulo

EnCamino(s, d, c) ==
    \/ \E m \in pendientes[s] : Dice(m, c)
    \/ Dice(actual[s], c) /\ d \in destinos[s]

SoloElBucle == \A s \in Conexiones : ~Ociosa(s) => bucle = s

FramesVeraces ==
    \A s \in Conexiones : \A c \in Clases : \A m \in pendientes[s] \cup {actual[s]} :
        Dice(m, c) => Contenido(m) = bloqueos[c]

VistaAnunciada ==
    \A d \in abierta : fase[d] = "activa" =>
        \A c \in Clases :
            \/ Vigente(vista[d][c]) = Vigente(bloqueos[c])
            \/ \E s \in Conexiones : EnCamino(s, d, c)

VInv == SoloElBucle /\ FramesVeraces /\ VistaAnunciada

\* All is still when the loop is free or with a handler that has nothing to
\* say.
LEMMA Silencio ==
    ASSUME SoloElBucle, NEW s \in Conexiones, Turno(s), Ociosa(s)
    PROVE  /\ \A t \in Conexiones : Ociosa(t)
           /\ \A t \in Conexiones, d \in Conexiones, c \in Clases : ~EnCamino(t, d, c)
<1>1. \A t \in Conexiones : Ociosa(t)
  BY NuloAssumption DEF SoloElBucle, Turno
<1> QED
  BY <1>1 DEF EnCamino, Ociosa, Dice

\* A critical section that starts when all is still: what it announces is
\* what it did, and what it does not announce no client can tell apart.
LEMMA AnuncioVeraz ==
    ASSUME IInv, VInv, NEW s \in Conexiones, Turno(s), Ociosa(s),
           NEW msgs \in SUBSET Mensajes, Anunciar(s, msgs),
           reloj' = reloj, vista' = vista,
           \A m \in msgs : \A c \in Clases : Dice(m, c) => Contenido(m) = bloqueos'[c],
           \A d \in abierta' : fase'[d] = "activa" =>
              /\ d \in abierta /\ fase[d] = "activa"
              /\ \A c \in Clases : \/ \E m \in msgs : Dice(m, c)
                                   \/ Vigente(bloqueos[c])' = Vigente(bloqueos[c])
    PROVE  VInv'
<1>1. /\ \A t \in Conexiones : Ociosa(t)
      /\ \A t \in Conexiones, d \in Conexiones, c \in Clases : ~EnCamino(t, d, c)
  BY Silencio DEF VInv
<1>2. /\ pendientes' = [pendientes EXCEPT ![s] = msgs]
      /\ actual' = actual /\ destinos' = destinos /\ bucle' = s
  BY DEF Anunciar
<1>3. SoloElBucle'
  BY <1>1, <1>2 DEF SoloElBucle, Ociosa, IInv, TypeOK
<1>4. FramesVeraces'
  <2> SUFFICES ASSUME NEW t \in Conexiones, NEW c \in Clases,
                      NEW f \in pendientes'[t] \cup {actual'[t]}, Dice(f, c)
               PROVE  Contenido(f) = bloqueos'[c]
    BY DEF FramesVeraces, Dice, Contenido
  <2>1. f \in msgs
    BY <1>1, <1>2 DEF Ociosa, IInv, TypeOK, Dice
  <2> QED
    BY <2>1
<1>5. VistaAnunciada'
  <2> SUFFICES ASSUME NEW d \in abierta', fase'[d] = "activa", NEW c \in Clases
               PROVE  \/ Vigente(vista[d][c])' = Vigente(bloqueos[c])'
                      \/ \E t \in Conexiones : EnCamino(t, d, c)'
    BY DEF VistaAnunciada
  <2>1. d \in abierta /\ fase[d] = "activa" /\ d \in Conexiones
    BY DEF IInv, TypeOK
  <2>2. Vigente(vista[d][c]) = Vigente(bloqueos[c])
    BY <1>1, <2>1 DEF VInv, VistaAnunciada
  <2>3. Vigente(vista[d][c])' = Vigente(vista[d][c])
    BY DEF Vigente
  <2>4. CASE \E m \in msgs : Dice(m, c)
    <3>1. EnCamino(s, d, c)'
      BY <1>2, <2>4 DEF EnCamino, Dice, IInv, TypeOK
    <3> QED
      BY <3>1
  <2>5. CASE Vigente(bloqueos[c])' = Vigente(bloqueos[c])
    BY <2>2, <2>3, <2>5
  <2> QED
    BY <2>4, <2>5
<1> QED
  BY <1>3, <1>4, <1>5 DEF VInv

\* What the frames about a lock say.
LEMMA QueDicen ==
    /\ \A k \in Clases, u \in Usuarios, t \in Nat : \A c :
         /\ Dice(Concedido(k, u, t), c) <=> c = k
         /\ Contenido(Concedido(k, u, t)) = [usuario |-> u, expira |-> t]
    /\ \A k \in Clases : \A c :
         /\ Dice(Liberado(k), c) <=> c = k
         /\ Contenido(Liberado(k)) = Nulo
         /\ ~Dice(Denegado(k), c)
    /\ \A u \in Usuarios : \A c : ~Dice(Desconectado(u), c)
    /\ \A c : ~Dice(Puntero, c)
<1>1. \A k \in Clases, u \in Usuarios, t \in Nat : Concedido(k, u, t) # Nulo
  BY MensajesBienTipados
<1>2. \A k \in Clases : Liberado(k) # Nulo
  BY MensajesBienTipados
<1> QED
  BY <1>1, <1>2 DEF Dice, Contenido, Concedido, Liberado, Denegado, Desconectado, Puntero

\* Cleaning what has expired changes no lock that is in force.
LEMMA LimpiarNoSeNota ==
    ASSUME IInv
    PROVE  \A c \in Clases : Vigente(SinExpirados[c]) = Vigente(bloqueos[c])
  BY DEF SinExpirados, Vencido, Vigente, IInv, TypeOK, Bloqueo

\* Joining drops expired locks only, and announces each.
LEMMA UnirVeraz ==
    ASSUME IInv, VInv, NEW s \in Conexiones, Unir(s)
    PROVE  VInv'
<1> DEFINE msgs == {Liberado(c) : c \in Expirados}
<1>1. msgs \in SUBSET Mensajes
  BY MensajesBienTipados DEF Expirados
<1>2. Turno(s) /\ Ociosa(s) /\ Anunciar(s, msgs) /\ bloqueos' = SinExpirados
      /\ reloj' = reloj /\ vista' = vista /\ abierta' = abierta
      /\ fase' = [fase EXCEPT ![s] = "uniendo"]
  BY DEF Unir, IInv, AntesDeEntrar, remoto
<1>3. \A m \in msgs : \A c \in Clases : Dice(m, c) => Contenido(m) = bloqueos'[c]
  BY <1>2, QueDicen DEF Expirados, SinExpirados
<1>4. \A c \in Clases : Vigente(bloqueos[c])' = Vigente(bloqueos[c])
  BY <1>2, LimpiarNoSeNota DEF Vigente
<1>5. \A d \in abierta' : fase'[d] = "activa" => d \in abierta /\ fase[d] = "activa"
  BY <1>2 DEF IInv, TypeOK
<1> QED
  BY <1>1, <1>2, <1>3, <1>4, <1>5, AnuncioVeraz

\* A lock granted is announced; one denied was only cleaned.
LEMMA SolicitarVeraz ==
    ASSUME IInv, VInv, NEW s \in Conexiones, NEW k \in Clases, Solicitar(s, k)
    PROVE  VInv'
<1> DEFINE u == UsuarioDe[s]
           concede == PuedeTomar(u, SinExpirados[k])
           nuevo == [usuario |-> u, expira |-> reloj + TTL]
<1>1. u \in Usuarios /\ reloj + TTL \in Nat
  BY TTLAssumption DEF IInv, TypeOK
<1>2. Turno(s) /\ Ociosa(s) /\ UNCHANGED <<reloj, vista, abierta, fase>>
  BY DEF Solicitar, Atiende, Turno, remoto
<1>3. SinExpirados \in [Clases -> Bloqueo \cup {Nulo}]
  BY LimpiarBloqueos DEF IInv, TypeOK
<1>4. CASE PuedeEditar(s) /\ concede
  <2> DEFINE msgs == {Concedido(k, u, reloj + TTL)}
  <2>1. Anunciar(s, msgs) /\ bloqueos' = [SinExpirados EXCEPT ![k] = nuevo]
    BY <1>4 DEF Solicitar
  <2>2. msgs \in SUBSET Mensajes
    BY <1>1, MensajesBienTipados
  <2>3. \A m \in msgs : \A c \in Clases : Dice(m, c) => Contenido(m) = bloqueos'[c]
    BY <1>1, <1>3, <2>1, QueDicen
  <2>4. \A c \in Clases : \/ \E m \in msgs : Dice(m, c)
                          \/ Vigente(bloqueos[c])' = Vigente(bloqueos[c])
    <3> SUFFICES ASSUME NEW c \in Clases, c # k
                 PROVE  Vigente(bloqueos[c])' = Vigente(bloqueos[c])
      BY <1>1, QueDicen
    <3>1. bloqueos'[c] = SinExpirados[c]
      BY <1>3, <2>1
    <3> QED
      BY <1>2, <3>1, LimpiarNoSeNota DEF Vigente
  <2> HIDE DEF msgs
  <2> QED
    BY <1>2, <2>1, <2>2, <2>3, <2>4, AnuncioVeraz
<1>5. CASE ~(PuedeEditar(s) /\ concede)
  <2> DEFINE msgs == {Denegado(k)}
  <2>1. Anunciar(s, msgs) /\ bloqueos' \in {bloqueos, SinExpirados}
    BY <1>5 DEF Solicitar
  <2>2. msgs \in SUBSET Mensajes /\ \A m \in msgs : \A c \in Clases : ~Dice(m, c)
    BY MensajesBienTipados, QueDicen
  <2>3. \A c \in Clases : Vigente(bloqueos[c])' = Vigente(bloqueos[c])
    BY <1>2, <2>1, LimpiarNoSeNota DEF Vigente
  <2> HIDE DEF msgs
  <2> QED
    BY <1>2, <2>1, <2>2, <2>3, AnuncioVeraz
<1> QED
  BY <1>4, <1>5

\* A lock renewed or released is announced as it is left.
LEMMA RenovarVeraz ==
    ASSUME IInv, VInv, NEW s \in Conexiones, NEW k \in Clases, Renovar(s, k) \/ Liberar(s, k)
    PROVE  VInv'
<1> DEFINE u == UsuarioDe[s]
           nuevo == IF Renovar(s, k) THEN [usuario |-> u, expira |-> reloj + TTL] ELSE Nulo
           m == IF Renovar(s, k) THEN Concedido(k, u, reloj + TTL) ELSE Liberado(k)
<1>1. u \in Usuarios /\ reloj + TTL \in Nat
  BY TTLAssumption DEF IInv, TypeOK
<1>2. Turno(s) /\ Ociosa(s) /\ Anunciar(s, {m}) /\ UNCHANGED <<reloj, vista, abierta, fase>>
  BY DEF Renovar, Liberar, Atiende, Turno, remoto
<1>3. bloqueos[k] \in Bloqueo /\ bloqueos[k].usuario = u
  BY DEF IInv, TypeOK, Renovar, Liberar, BloqueadaPor
<1>4. bloqueos' = [bloqueos EXCEPT ![k] = nuevo]
  <2>1. CASE Renovar(s, k)
    <3>1. bloqueos' = [bloqueos EXCEPT ![k] = [bloqueos[k] EXCEPT !.expira = reloj + TTL]]
      BY <2>1 DEF Renovar
    <3>2. [bloqueos[k] EXCEPT !.expira = reloj + TTL] = [usuario |-> u, expira |-> reloj + TTL]
      BY <1>3 DEF Bloqueo
    <3> QED
      BY <2>1, <3>1, <3>2
  <2>2. CASE ~Renovar(s, k)
    BY <2>2 DEF Liberar
  <2> QED
    BY <2>1, <2>2
<1>5. m \in Mensajes /\ Contenido(m) = nuevo /\ \A c : Dice(m, c) <=> c = k
  BY <1>1, MensajesBienTipados, QueDicen
<1> HIDE DEF m, nuevo
<1>6. \A c \in Clases : /\ Dice(m, c) => Contenido(m) = bloqueos'[c]
                        /\ Dice(m, c) \/ Vigente(bloqueos[c])' = Vigente(bloqueos[c])
  BY <1>2, <1>4, <1>5 DEF IInv, TypeOK, Vigente
<1> QED
  BY <1>2, <1>5, <1>6, AnuncioVeraz

\* Leaving: the locks of a user that go with his last tab are announced; a
\* room left empty has nobody to deceive.
LEMMA RemoverVeraz ==
    ASSUME IInv, VInv, NEW s \in Conexiones, Atiende(s), Remover(s)
    PROVE  VInv'
<1> DEFINE u == UsuarioDe[s]
           quedan == conexiones \ {s}
           msgs == IF EsUltimaPestana(s) THEN AnunciosDeSalida(u) ELSE {}
<1>1. /\ Turno(s) /\ Ociosa(s) /\ Anunciar(s, msgs)
      /\ UNCHANGED <<reloj, vista, abierta>>
      /\ fase' = [fase EXCEPT ![s] = "saliendo"]
  BY DEF Remover, Atiende, Turno, remoto
<1>2. u \in Usuarios /\ msgs \in SUBSET Mensajes
  BY MensajesBienTipados DEF AnunciosDeSalida, BloqueosDe
<1>3. \A m \in msgs : \A c \in Clases : Dice(m, c) =>
         EsUltimaPestana(s) /\ c \in BloqueosDe(u) /\ Contenido(m) = Nulo
  BY <1>2, QueDicen DEF AnunciosDeSalida, BloqueosDe
<1>4. EsUltimaPestana(s) => \A c \in BloqueosDe(u) : \E m \in msgs : Dice(m, c)
  BY QueDicen DEF AnunciosDeSalida, BloqueosDe
<1> HIDE DEF msgs
<1>5. CASE quedan = {}
  <2>1. \A c \in Clases : bloqueos'[c] = Nulo
    BY <1>5 DEF Remover, SinBloqueos
  <2>2. \A d \in abierta' : fase'[d] # "activa"
    BY <1>1, <1>5 DEF IInv, TypeOK, SalaSiConexiones
  <2>3. \A m \in msgs : \A c \in Clases : Dice(m, c) => Contenido(m) = bloqueos'[c]
    BY <1>3, <2>1
  <2> QED
    BY <1>1, <1>2, <2>2, <2>3, AnuncioVeraz
<1>6. CASE quedan # {}
  <2>1. bloqueos' = IF EsUltimaPestana(s)
                    THEN [c \in Clases |-> IF c \in BloqueosDe(u) THEN Nulo ELSE bloqueos[c]]
                    ELSE bloqueos
    BY <1>6 DEF Remover
  <2>2. \A m \in msgs : \A c \in Clases : Dice(m, c) => Contenido(m) = bloqueos'[c]
    BY <1>3, <2>1
  <2>3. \A c \in Clases : \/ \E m \in msgs : Dice(m, c)
                          \/ bloqueos'[c] = bloqueos[c]
    BY <1>4, <2>1
  <2>4. \A c \in Clases : \/ \E m \in msgs : Dice(m, c)
                          \/ Vigente(bloqueos[c])' = Vigente(bloqueos[c])
    BY <1>1, <2>3 DEF Vigente
  <2>5. \A d \in abierta' : fase'[d] = "activa" => d \in abierta /\ fase[d] = "activa"
    BY <1>1 DEF IInv, TypeOK
  <2> QED
    BY <1>1, <1>2, <2>2, <2>4, <2>5, AnuncioVeraz
<1> QED
  BY <1>5, <1>6

\* A step that says nothing, touches no lock and lets nobody in.
LEMMA VistaConservada ==
    ASSUME IInv, VInv, UNCHANGED <<sala, envio>>,
           \A s \in Conexiones : ~Ociosa(s) => bucle' = bucle,
           reloj' \in Nat, reloj <= reloj',
           \A d \in abierta' : fase'[d] = "activa" =>
              d \in abierta /\ fase[d] = "activa" /\ vista'[d] = vista[d]
    PROVE  VInv'
<1>1. SoloElBucle'
  BY DEF VInv, SoloElBucle, Ociosa, envio
<1>2. FramesVeraces'
  BY DEF VInv, FramesVeraces, envio, sala, Dice, Contenido
<1>3. VistaAnunciada'
  <2> SUFFICES ASSUME NEW d \in abierta', fase'[d] = "activa", NEW c \in Clases
               PROVE  \/ Vigente(vista[d][c])' = Vigente(bloqueos[c])'
                      \/ \E t \in Conexiones : EnCamino(t, d, c)'
    BY DEF VistaAnunciada
  <2>1. d \in abierta /\ fase[d] = "activa" /\ vista'[d] = vista[d] /\ d \in Conexiones
    BY DEF IInv, TypeOK
  <2>2. \A t \in Conexiones : EnCamino(t, d, c) => EnCamino(t, d, c)'
    BY DEF EnCamino, Dice, envio
  <2>3. /\ vista[d][c] \in Bloqueo \cup {Nulo}
        /\ bloqueos[c] \in Bloqueo \cup {Nulo}
        /\ reloj \in Nat
    BY <2>1 DEF IInv, TypeOK
  <2>4. Vigente(vista[d][c]) = Vigente(bloqueos[c])
        => Vigente(vista[d][c])' = Vigente(bloqueos[c])'
    BY <2>1, <2>3 DEF Vigente, sala, Bloqueo
  <2> QED
    BY <2>1, <2>2, <2>4 DEF VInv, VistaAnunciada
<1> QED
  BY <1>1, <1>2, <1>3 DEF VInv

\* The newcomer is told every lock.
LEMMA BienvenidaVeraz ==
    ASSUME IInv, VInv, NEW s \in Conexiones, Bienvenida(s)
    PROVE  VInv'
<1>1. /\ \A t \in Conexiones : Ociosa(t)
      /\ \A t \in Conexiones, d \in Conexiones, c \in Clases : ~EnCamino(t, d, c)
  BY Silencio DEF VInv, Bienvenida
<1>2. /\ UNCHANGED <<reloj, abierta, sala, envio>>
      /\ fase' = [fase EXCEPT ![s] = "activa"]
      /\ vista' = [vista EXCEPT ![s] = bloqueos]
  BY DEF Bienvenida
<1>3. SoloElBucle'
  BY <1>1, <1>2 DEF SoloElBucle, Ociosa, envio
<1>4. FramesVeraces'
  BY <1>2 DEF VInv, FramesVeraces, envio, sala, Dice, Contenido
<1>5. VistaAnunciada'
  <2> SUFFICES ASSUME NEW d \in abierta, fase'[d] = "activa", NEW c \in Clases
               PROVE  Vigente(vista[d][c])' = Vigente(bloqueos[c])'
    BY <1>2 DEF VistaAnunciada
  <2>1. d \in Conexiones
    BY DEF IInv, TypeOK
  <2>2. CASE d = s
    BY <1>2, <2>1, <2>2 DEF IInv, TypeOK, sala, Vigente
  <2>3. CASE d # s
    <3>1. fase[d] = "activa" /\ vista'[d] = vista[d]
      BY <1>2, <2>1, <2>3 DEF IInv, TypeOK
    <3>2. Vigente(vista[d][c]) = Vigente(bloqueos[c])
      BY <1>1, <2>1, <3>1 DEF VInv, VistaAnunciada
    <3> QED
      BY <1>2, <3>1, <3>2 DEF Vigente, sala
  <2> QED
    BY <2>2, <2>3
<1> QED
  BY <1>3, <1>4, <1>5 DEF VInv

\* A broadcast about a lock is addressed to every client that is served.
LEMMA EmpezarDifusionVeraz ==
    ASSUME IInv, VInv, NEW s \in Conexiones, EmpezarDifusion(s)
    PROVE  VInv'
<1>1. PICK m \in pendientes[s] :
        /\ pendientes' = [pendientes EXCEPT ![s] = @ \ {m}]
        /\ destinos' = [destinos EXCEPT ![s] = Audiencia(m, s)]
        /\ actual' = [actual EXCEPT ![s] = IF Audiencia(m, s) = {} THEN Nulo ELSE m]
  BY DEF EmpezarDifusion
<1>2. /\ actual[s] = Nulo /\ bucle' = s /\ Turno(s)
      /\ UNCHANGED <<reloj, abierta, fase, sala, vista>>
  BY DEF EmpezarDifusion, remoto
<1>3. \A t \in Conexiones \ {s} : Ociosa(t)
  BY <1>2, NuloAssumption DEF VInv, SoloElBucle, Turno
<1>4. SoloElBucle'
  BY <1>1, <1>2, <1>3 DEF SoloElBucle, Ociosa, IInv, TypeOK
<1>5. FramesVeraces'
  <2> SUFFICES ASSUME NEW t \in Conexiones, NEW c \in Clases,
                      NEW f \in pendientes'[t] \cup {actual'[t]}, Dice(f, c)
               PROVE  Contenido(f) = bloqueos'[c]
    BY DEF FramesVeraces, Dice, Contenido
  <2>1. f \in pendientes[t] \cup {actual[t]}
    BY <1>1 DEF Dice, IInv, TypeOK
  <2> QED
    BY <1>2, <2>1 DEF VInv, FramesVeraces, sala
<1>6. VistaAnunciada'
  <2> SUFFICES ASSUME NEW d \in abierta, fase[d] = "activa", NEW c \in Clases
               PROVE  \/ Vigente(vista[d][c]) = Vigente(bloqueos[c])
                      \/ \E t \in Conexiones : EnCamino(t, d, c)'
    BY <1>2 DEF VistaAnunciada, Vigente, sala
  <2>1. d \in conexiones
    BY DEF IInv, TypeOK, SalaSiConexiones
  <2>2. ASSUME NEW t \in Conexiones, EnCamino(t, d, c) PROVE EnCamino(t, d, c)'
    <3>1. CASE t # s
      BY <1>1, <2>2, <3>1 DEF EnCamino, Dice, IInv, TypeOK
    <3>2. CASE t = s /\ Dice(m, c)
      <4>1. Audiencia(m, s) = conexiones
        BY <3>2 DEF Audiencia, Dice
      <4> QED
        BY <1>1, <2>1, <3>2, <4>1 DEF EnCamino, Dice, IInv, TypeOK
    <3>3. CASE t = s /\ ~Dice(m, c)
      <4>1. PICK f \in pendientes[s] : Dice(f, c)
        BY <1>2, <2>2, <3>3 DEF EnCamino, Dice
      <4>2. f \in pendientes'[s]
        BY <1>1, <3>3, <4>1 DEF IInv, TypeOK
      <4> QED
        BY <3>3, <4>1, <4>2 DEF EnCamino, Dice
    <3> QED
      BY <3>1, <3>2, <3>3
  <2> QED
    BY <2>2 DEF VInv, VistaAnunciada
<1> QED
  BY <1>4, <1>5, <1>6 DEF VInv

\* Whoever gets a frame about a lock knows the lock; the sender keeps the loop.
LEMMA EnviarFrameVeraz ==
    ASSUME IInv, VInv, Lentos = {}, NEW s \in Conexiones, NEW e \in Conexiones,
           EnviarFrame(s, e)
    PROVE  VInv'
<1>1. /\ destinos' = [destinos EXCEPT ![s] = destinos[s] \ {e}]
      /\ actual' = [actual EXCEPT ![s] = IF destinos[s] \ {e} = {} THEN Nulo ELSE actual[s]]
      /\ UNCHANGED <<reloj, abierta, fase, sala, pendientes>>
      /\ bucle' = s /\ Turno(s) /\ e \in destinos[s]
  BY DEF EnviarFrame
<1>2. vista' = IF e \in abierta
               THEN [vista EXCEPT ![e] = VistaTras(actual[s], vista[e])]
               ELSE vista
  BY DEF EnviarFrame, remoto
<1>3. actual[s] \in Mensajes
  BY <1>1 DEF IInv, TypeOK, DifusionBienFormada
<1>4. SoloElBucle'
  <2>1. \A t \in Conexiones \ {s} : Ociosa(t)
    BY <1>1, NuloAssumption DEF VInv, SoloElBucle, Turno
  <2> QED
    BY <1>1, <2>1 DEF SoloElBucle, Ociosa, IInv, TypeOK
<1>5. FramesVeraces'
  <2> SUFFICES ASSUME NEW t \in Conexiones, NEW c \in Clases,
                      NEW f \in pendientes'[t] \cup {actual'[t]}, Dice(f, c)
               PROVE  Contenido(f) = bloqueos'[c]
    BY DEF FramesVeraces, Dice, Contenido
  <2>1. f \in pendientes[t] \cup {actual[t]}
    BY <1>1 DEF Dice, IInv, TypeOK
  <2> QED
    BY <1>1, <2>1 DEF VInv, FramesVeraces, sala
<1>6. VistaAnunciada'
  <2> SUFFICES ASSUME NEW d \in abierta, fase[d] = "activa", NEW c \in Clases
               PROVE  \/ Vigente(vista'[d][c]) = Vigente(bloqueos[c])
                      \/ \E t \in Conexiones : EnCamino(t, d, c)'
    BY <1>1 DEF VistaAnunciada, Vigente, sala
  <2>1. d \in Conexiones
    BY DEF IInv, TypeOK
  <2>2. CASE d = e /\ Dice(actual[s], c)
    <3>1. vista'[d][c] = Contenido(actual[s])
      BY <1>2, <1>3, <2>1, <2>2 DEF IInv, TypeOK, VistaTras, Contenido, Dice
    <3>2. Contenido(actual[s]) = bloqueos[c]
      BY <2>2 DEF VInv, FramesVeraces
    <3> QED
      BY <3>1, <3>2
  <2>3. CASE ~(d = e /\ Dice(actual[s], c))
    <3>1. vista'[d][c] = vista[d][c]
      BY <1>2, <1>3, <2>1, <2>3 DEF IInv, TypeOK, VistaTras, Dice, Mensajes
    <3>2. ASSUME NEW t \in Conexiones, EnCamino(t, d, c) PROVE EnCamino(t, d, c)'
      BY <1>1, <2>3, <3>2 DEF EnCamino, Dice, IInv, TypeOK
    <3> QED
      BY <3>1, <3>2 DEF VInv, VistaAnunciada
  <2> QED
    BY <2>2, <2>3
<1> QED
  BY <1>4, <1>5, <1>6 DEF VInv

\* Every step of a server whose sends do not suspend keeps the views true.
LEMMA VistaPaso == Lentos = {} /\ IInv /\ VInv /\ [Next]_vars => VInv'
<1> SUFFICES ASSUME Lentos = {}, IInv, VInv, [Next]_vars PROVE VInv'
  OBVIOUS
<1>0. reloj \in Nat
  BY DEF IInv, TypeOK
<1>1. CASE UNCHANGED vars
  BY <1>0, <1>1, VistaConservada DEF vars, remoto
<1>2. CASE Pasar
  BY <1>0, <1>2, VistaConservada DEF Pasar, remoto
<1>3. ASSUME NEW s \in Conexiones, Paso(s) PROVE VInv'
  <2>1. CASE Unir(s)
    BY <2>1, UnirVeraz
  <2>2. CASE Bienvenida(s)
    BY <2>2, BienvenidaVeraz
  <2>3. CASE BienvenidaFalla(s) \/ Ceder(s) \/ Terminar(s)
    <3>1. \A t \in Conexiones : Ociosa(t)
      BY <2>3, Silencio DEF VInv, BienvenidaFalla, Ceder, Terminar, Turno
    <3>2. \A d \in abierta' : fase'[d] = "activa" =>
             d \in abierta /\ fase[d] = "activa" /\ vista'[d] = vista[d]
      BY <2>3 DEF BienvenidaFalla, Ceder, Terminar, remoto, IInv, TypeOK
    <3> QED
      BY <1>0, <2>3, <3>1, <3>2, VistaConservada DEF BienvenidaFalla, Ceder, Terminar
  <2>4. CASE EmpezarDifusion(s)
    BY <2>4, EmpezarDifusionVeraz
  <2>5. CASE \E d \in Conexiones : EnviarFrame(s, d)
    BY <2>5, EnviarFrameVeraz
  <2>6. CASE Desconexion(s)
    BY <2>6, RemoverVeraz DEF Desconexion
  <2> QED
    BY <1>3, <2>1, <2>2, <2>3, <2>4, <2>5, <2>6 DEF Paso
<1>4. ASSUME NEW s \in Conexiones, Peticion(s) PROVE VInv'
  <2>1. CASE \E c \in Clases : Solicitar(s, c) \/ Renovar(s, c) \/ Liberar(s, c)
    BY <2>1, SolicitarVeraz, RenovarVeraz
  <2>2. CASE FrameInvalido(s)
    BY <2>2, RemoverVeraz DEF FrameInvalido
  <2>3. CASE Apuntar(s)
    <3>1. {Puntero} \in SUBSET Mensajes /\ \A m \in {Puntero} : \A c \in Clases : ~Dice(m, c)
      BY MensajesBienTipados, QueDicen
    <3>2. \A c \in Clases : Vigente(bloqueos[c])' = Vigente(bloqueos[c])
      BY <2>3 DEF Apuntar, sala, Vigente
    <3> QED
      BY <2>3, <3>1, <3>2, AnuncioVeraz DEF Apuntar, Atiende, Turno, remoto
  <2>4. CASE Aceptar(s) \/ Rechazar(s) \/ Cerrar(s)
    <3>1. \A d \in abierta' : fase'[d] = "activa" =>
             d \in abierta /\ fase[d] = "activa" /\ vista'[d] = vista[d]
      BY <2>4 DEF Aceptar, Rechazar, Cerrar, remoto, IInv, TypeOK
    <3> QED
      BY <1>0, <2>4, <3>1, VistaConservada DEF Aceptar, Rechazar, Cerrar
  <2> QED
    BY <1>4, <2>1, <2>2, <2>3, <2>4 DEF Peticion
<1> QED
  BY <1>1, <1>2, <1>3, <1>4 DEF Next

\* While sends do not suspend, what the clients believe about the locks in
\* force is what the room says, whenever the loop is free.
THEOREM VistaFiel == ASSUME Lentos = {} PROVE Spec => []VistaCoherente
<1>1. Init => VInv
  BY DEF Init, VInv, SoloElBucle, FramesVeraces, VistaAnunciada, Ociosa, Dice
<1>2. Lentos = {} /\ IInv /\ VInv /\ [Next]_vars => VInv'
  BY VistaPaso
<1>3. IInv /\ VInv => VistaCoherente
  BY DEF IInv, TypeOK, VInv, VistaAnunciada, VistaCoherente, Vigente, EnCamino, Ociosa, Dice
<1>4. Lentos = {}
  OBVIOUS
<1>5. IInv /\ VInv /\ [Next]_vars => VInv'
  BY <1>2, <1>4
<1> QED
  BY <1>1, <1>3, <1>5, Inductivo, PTL DEF Spec
=============================================================================
