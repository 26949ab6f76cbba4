----------------------- MODULE SignalingServerProofs -----------------------
(***************************************************************************)
(* Proofs about SignalingServer for any sets of sockets and ids.  IInv is  *)
(* inductive for the clients of this repository (Next); everything else is *)
(* read off it.                                                            *)
(***************************************************************************)
EXTENDS SignalingServer, TLAPS

IInv == TypeOK /\ NoDanglingKeys /\ IndexAgrees /\ WellFormedSession

(***************************************************************************)
(* The sockets of a session are sockets of the program, and every one of   *)
(* them is connected, so that a QPointer to it is not null.                *)
(***************************************************************************)
LEMMA EndpointsConnected ==
    ASSUME IInv, NEW id \in Ids
    PROVE  /\ Endpoints(id) \subseteq Sockets
           /\ \A p \in Endpoints(id) : Connected(p) /\ Deref(p) = p /\ p # None
<1>1. Endpoints(id) \subseteq Sockets
  BY DEF IInv, TypeOK, Binding, Endpoints
<1>2. ASSUME NEW p \in Endpoints(id)
      PROVE  Connected(p) /\ Deref(p) = p /\ p # None
  <2>1. socket_to_session[p] = id
    BY <1>1, <1>2 DEF IInv, IndexAgrees
  <2>2. Connected(p)
    BY <1>1, <1>2, <2>1, Sentinels DEF IInv, NoDanglingKeys
  <2>3. p # None
    BY <1>2 DEF Endpoints
  <2> QED
    BY <2>2, <2>3 DEF Connected, Deref
<1> QED
  BY <1>1, <1>2

(***************************************************************************)
(* What onDisconnected clears for socket s is what the index and the       *)
(* sessions say of s: all endpoints of its session, if it is in one.       *)
(***************************************************************************)
LEMMA TakenIsWholeSession ==
    ASSUME IInv, NEW s \in Sockets
    PROVE  /\ socket_to_session[s] = NoId => TakenEndpoints(s) = {}
           /\ \A id \in Ids : socket_to_session[s] = id =>
                 HasSession(id) /\ s \in Endpoints(id) /\ TakenEndpoints(s) = Endpoints(id)
<1>1. socket_to_session[s] = NoId => TakenEndpoints(s) = {}
  BY Sentinels DEF TakenEndpoints, HasSession
<1>2. ASSUME NEW id \in Ids, socket_to_session[s] = id
      PROVE  HasSession(id) /\ s \in Endpoints(id) /\ TakenEndpoints(s) = Endpoints(id)
  <2>1. s \in Endpoints(id)
    BY <1>2 DEF IInv, IndexAgrees
  <2>2. HasSession(id)
    BY <2>1 DEF HasSession, Endpoints, Unbound
  <2>3. TakenEndpoints(s) = Endpoints(id)
    BY <1>2, <2>2, EndpointsConnected DEF TakenEndpoints
  <2> QED
    BY <2>1, <2>2, <2>3
<1> QED
  BY <1>1, <1>2

-----------------------------------------------------------------------------
LEMMA InitInv == Init => IInv
<1> SUFFICES ASSUME Init PROVE IInv
  OBVIOUS
<1>1. TypeOK
  BY DEF Init, TypeOK, ConnState, Binding, Unbound
<1>2. NoDanglingKeys
  BY DEF Init, NoDanglingKeys
<1>3. IndexAgrees
  BY Sentinels DEF Init, IndexAgrees, Endpoints, Unbound
<1>4. WellFormedSession
  BY DEF Init, WellFormedSession, HasSession
<1> QED
  BY <1>1, <1>2, <1>3, <1>4 DEF IInv

\* A step that leaves the tables alone and takes no connection down keeps
\* every part of IInv but the types.
LEMMA TablesUnchanged ==
    ASSUME IInv, TypeOK',
           UNCHANGED <<sessions, socket_to_session>>,
           ready_senders \subseteq ready_senders',
           \A s \in ready_senders' : s \notin ready_senders => Connected(s)',
           \A s \in Sockets : Connected(s) => Connected(s)'
    PROVE  IInv'
<1>1. NoDanglingKeys'
  BY DEF IInv, NoDanglingKeys, TypeOK
<1>2. IndexAgrees'
  BY DEF IInv, IndexAgrees, Endpoints
<1>3. WellFormedSession'
  BY DEF IInv, WellFormedSession, HasSession
<1> QED
  BY <1>1, <1>2, <1>3 DEF IInv

LEMMA AcceptRequestInv ==
    ASSUME IInv, NEW s \in Sockets, NEW id \in Ids, NEW selected \in Sockets,
           socket_to_session[s] \in {NoId, id},
           AcceptRequest(s, id, selected)
    PROVE  IInv'
<1> USE DEF AcceptRequest, Eligible
<1>1. selected # s /\ selected \in ready_senders /\ socket_to_session[selected] = NoId
  OBVIOUS
<1>2. s \notin Endpoints(id) /\ Endpoints(id) = {}
  BY DEF HasSession, Endpoints, Unbound
<1>3. socket_to_session[s] = NoId
  BY <1>2 DEF IInv, IndexAgrees
<1>4. \A i \in Ids : s \notin Endpoints(i) /\ selected \notin Endpoints(i)
  BY <1>1, <1>3, Sentinels DEF IInv, IndexAgrees
<1>5. Connected(selected) /\ Connected(s)
  BY <1>1 DEF IInv, NoDanglingKeys
<1>6. TypeOK'
  BY DEF IInv, TypeOK, Binding, Message
<1>7. sessions' = [sessions EXCEPT ![id] = [sender |-> selected, receiver |-> s]]
      /\ sessions \in [Ids -> Binding] /\ selected # None /\ s # None
  BY Sentinels DEF IInv, TypeOK
<1>8. Endpoints(id)' = {selected, s}
  BY <1>7 DEF Endpoints
<1>9. \A i \in Ids : i # id => Endpoints(i)' = Endpoints(i)
  BY <1>7 DEF Endpoints
<1>10. socket_to_session' = [x \in Sockets |->
          IF x \in {selected, s} THEN id ELSE socket_to_session[x]]
  BY DEF IInv, TypeOK
<1>11. NoDanglingKeys'
  BY <1>5, <1>10 DEF IInv, NoDanglingKeys, Connected
<1>12. IndexAgrees'
  <2> SUFFICES ASSUME NEW x \in Sockets, NEW i \in Ids
               PROVE  socket_to_session'[x] = i <=> x \in Endpoints(i)'
    BY DEF IndexAgrees
  <2>1. CASE x \in {selected, s}
    BY <2>1, <1>4, <1>8, <1>9, <1>10
  <2>2. CASE x \notin {selected, s}
    BY <2>2, <1>2, <1>8, <1>9, <1>10 DEF IInv, IndexAgrees
  <2> QED
    BY <2>1, <2>2
<1>13. WellFormedSession'
  <2> SUFFICES ASSUME NEW i \in Ids, HasSession(i)'
               PROVE  /\ None \notin {sessions'[i].sender, sessions'[i].receiver}
                      /\ sessions'[i].sender # sessions'[i].receiver
                      /\ sessions'[i].sender \in ready_senders'
    BY DEF WellFormedSession
  <2>1. CASE i = id
    BY <2>1, <1>1, <1>7
  <2>2. CASE i # id
    BY <2>2, <1>7 DEF IInv, WellFormedSession, HasSession
  <2> QED
    BY <2>1, <2>2
<1> QED
  BY <1>6, <1>11, <1>12, <1>13 DEF IInv

LEMMA OnDisconnectedInv ==
    ASSUME IInv, NEW s \in Sockets, onDisconnected(s)
    PROVE  IInv'
<1> DEFINE gone == {s} \cup TakenEndpoints(s)
<1>1. \A id \in Ids : Endpoints(id)' = IF id = socket_to_session[s] THEN {} ELSE Endpoints(id)
  BY DEF onDisconnected, Endpoints, Unbound
<1>2. \A x \in Sockets : socket_to_session'[x] = IF x \in gone THEN NoId ELSE socket_to_session[x]
  BY DEF onDisconnected
<1>3. \A x \in Sockets, id \in Ids :
          x \in gone /\ x \in Endpoints(id) => id = socket_to_session[s]
  <2> SUFFICES ASSUME NEW x \in gone, NEW id \in Ids, x \in Endpoints(id), x \in Sockets
               PROVE  id = socket_to_session[s]
    OBVIOUS
  <2>1. socket_to_session[x] = id
    BY DEF IInv, IndexAgrees
  <2>2. CASE x = s
    BY <2>1, <2>2
  <2>3. CASE x \in TakenEndpoints(s)
    <3>1. socket_to_session[s] \in Ids /\ x \in Endpoints(socket_to_session[s])
      BY <2>3, TakenIsWholeSession DEF IInv, TypeOK
    <3>2. socket_to_session[x] = socket_to_session[s]
      BY <3>1 DEF IInv, IndexAgrees
    <3> QED
      BY <2>1, <3>2
  <2> QED
    BY <2>2, <2>3
<1>4. \A x \in Sockets : socket_to_session[s] \in Ids /\ x \in Endpoints(socket_to_session[s])
          => x \in gone
  BY TakenIsWholeSession
<1>5. TakenEndpoints(s) \subseteq Sockets
  BY EndpointsConnected, TakenIsWholeSession DEF IInv, TypeOK
<1>6. TypeOK'
  <2>1. conn' \in [Sockets -> ConnState]
    BY DEF onDisconnected, IInv, TypeOK, ConnState
  <2>2. ready_senders' \subseteq Sockets
    BY DEF onDisconnected, IInv, TypeOK
  <2>3. sessions' \in [Ids -> Binding]
    BY DEF onDisconnected, IInv, TypeOK, Binding, Unbound
  <2>4. socket_to_session' \in [Sockets -> Ids \cup {NoId}]
    BY DEF onDisconnected, IInv, TypeOK
  <2>5. out' \subseteq Message
    BY <1>5 DEF onDisconnected, IInv, TypeOK, Message
  <2> QED
    BY <2>1, <2>2, <2>3, <2>4, <2>5 DEF TypeOK
<1>7. \A x \in Sockets : x # s => Connected(x)' = Connected(x)
  BY DEF onDisconnected, Connected, IInv, TypeOK
<1>8. NoDanglingKeys'
  BY <1>2, <1>6, <1>7 DEF onDisconnected, IInv, NoDanglingKeys, TypeOK
<1>9. IndexAgrees'
  <2> SUFFICES ASSUME NEW x \in Sockets, NEW id \in Ids
               PROVE  socket_to_session'[x] = id <=> x \in Endpoints(id)'
    BY DEF IndexAgrees
  <2>1. CASE x \in gone
    BY <2>1, <1>1, <1>2, <1>3, Sentinels
  <2>2. CASE x \notin gone
    <3>1. socket_to_session'[x] = socket_to_session[x]
      BY <2>2, <1>2
    <3>2. socket_to_session[x] = id <=> x \in Endpoints(id)
      BY DEF IInv, IndexAgrees
    <3>3. id = socket_to_session[s] => x \notin Endpoints(id)
      BY <2>2, <1>4
    <3> QED
      BY <3>1, <3>2, <3>3, <1>1
  <2> QED
    BY <2>1, <2>2
<1>10. WellFormedSession'
  <2> SUFFICES ASSUME NEW id \in Ids, HasSession(id)'
               PROVE  /\ None \notin {sessions'[id].sender, sessions'[id].receiver}
                      /\ sessions'[id].sender # sessions'[id].receiver
                      /\ sessions'[id].sender \in ready_senders'
    BY DEF WellFormedSession
  <2>1. id # socket_to_session[s] /\ sessions'[id] = sessions[id] /\ HasSession(id)
    BY DEF onDisconnected, HasSession
  <2>2. None \notin {sessions[id].sender, sessions[id].receiver}
        /\ sessions[id].sender # sessions[id].receiver
        /\ sessions[id].sender \in ready_senders
    BY <2>1 DEF IInv, WellFormedSession
  <2>3. sessions[id].sender \in Endpoints(id)
    BY <2>2 DEF Endpoints
  <2>4. sessions[id].sender # s
    BY <2>1, <2>3 DEF IInv, IndexAgrees
  <2> QED
    BY <2>1, <2>2, <2>4 DEF onDisconnected
<1> QED
  BY <1>6, <1>8, <1>9, <1>10 DEF IInv

\* IInv is inductive: one case per action of the clients and of the sockets.
LEMMA NextInv == IInv /\ [Next]_vars => IInv'
<1> SUFFICES ASSUME IInv, [Next]_vars PROVE IInv'
  OBVIOUS
<1>1. ASSUME NEW s \in Senders, OnSenderReady(s) PROVE IInv'
  <2>1. s \in Sockets /\ TypeOK'
    BY <1>1 DEF OnSenderReady, IInv, TypeOK, Sockets
  <2> QED
    BY <1>1, <2>1, TablesUnchanged DEF OnSenderReady, Connected
<1>2. ASSUME NEW s \in Receivers, NEW id \in Ids \cup {NoId},
             socket_to_session[s] \in {NoId, id}, handleRequest(s, id)
      PROVE  IInv'
  <2>1. s \in Sockets
    BY DEF Sockets
  <2>2. CASE RejectRequest(s, id)
    <3>1. TypeOK'
      BY <2>1, <2>2 DEF RejectRequest, ErrorTo, Message, Forwarded, IInv, TypeOK
    <3> QED
      BY <2>2, <3>1, TablesUnchanged DEF RejectRequest, Connected
  <2>3. CASE \E selected \in Sockets : AcceptRequest(s, id, selected)
    BY <1>2, <2>1, <2>3, AcceptRequestInv DEF AcceptRequest
  <2> QED
    BY <1>2, <2>2, <2>3 DEF handleRequest
<1>3. ASSUME NEW s \in Sockets, onNewConnection(s) PROVE IInv'
  <2>1. TypeOK'
    BY <1>3 DEF onNewConnection, IInv, TypeOK, ConnState
  <2>2. \A x \in Sockets : Connected(x) => Connected(x)'
    BY <1>3 DEF onNewConnection, Connected, IInv, TypeOK
  <2> QED
    BY <1>3, <2>1, <2>2, TablesUnchanged DEF onNewConnection
<1>4. ASSUME NEW s \in Sockets, PeerCloses(s) PROVE IInv'
  <2>1. TypeOK'
    BY <1>4 DEF PeerCloses, IInv, TypeOK, ConnState
  <2>2. \A x \in Sockets : Connected(x) => Connected(x)'
    BY <1>4 DEF PeerCloses, Connected, IInv, TypeOK
  <2> QED
    BY <1>4, <2>1, <2>2, TablesUnchanged DEF PeerCloses
<1>5. ASSUME NEW s \in Sockets, onDisconnected(s) PROVE IInv'
  BY <1>5, OnDisconnectedInv
<1>6. ASSUME NEW s \in Sockets, DeferredDelete(s) PROVE IInv'
  <2>1. TypeOK'
    BY <1>6 DEF DeferredDelete, IInv, TypeOK, ConnState
  <2>2. \A x \in Sockets : Connected(x) => Connected(x)'
    BY <1>6 DEF DeferredDelete, Connected, IInv, TypeOK
  <2> QED
    BY <1>6, <2>1, <2>2, TablesUnchanged DEF DeferredDelete
<1>7. ASSUME NEW s \in Sockets, NEW type \in Forwarded, NEW id \in Ids \cup {NoId},
             forwardSessionMessage(s, type, id)
      PROVE  IInv'
  <2>1. Target(s, id) \in Sockets \cup {None}
    BY DEF Target, Deref, HasSession, IInv, TypeOK, Binding
  <2>2. out' \subseteq Message
    BY <1>7, <2>1 DEF forwardSessionMessage, ErrorTo, Message, Forwarded
  <2>3. TypeOK'
    BY <1>7, <2>2 DEF forwardSessionMessage, IInv, TypeOK
  <2> QED
    BY <1>7, <2>3, TablesUnchanged DEF forwardSessionMessage, Connected
<1>8. CASE UNCHANGED vars
  BY <1>8 DEF vars, IInv, TypeOK, NoDanglingKeys, IndexAgrees, WellFormedSession,
              Connected, Endpoints, HasSession
<1> QED
  BY <1>1, <1>2, <1>3, <1>4, <1>5, <1>6, <1>7, <1>8 DEF Next, SenderStep, PageStep, SocketStep

(***************************************************************************)
(* The tables and messages of the server keep their types.                 *)
(***************************************************************************)
THEOREM TypeCorrect == Spec => []TypeOK
<1>1. IInv => TypeOK
  BY DEF IInv
<1> QED
  BY <1>1, InitInv, NextInv, PTL DEF Spec

\* The inductive invariant holds of every behaviour.
THEOREM Invariance == Spec => []IInv
BY InitInv, NextInv, PTL DEF Spec

(***************************************************************************)
(* handleRequest and onDisconnected never meet a key of a dead socket.     *)
(***************************************************************************)
THEOREM NeverDangling == Spec => []NoDanglingKeys
<1>1. IInv => NoDanglingKeys
  BY DEF IInv
<1> QED
  BY <1>1, Invariance, PTL

(***************************************************************************)
(* sessions_ and socket_to_session_ agree after every handler.             *)
(***************************************************************************)
THEOREM TablesAgree == Spec => []IndexAgrees
<1>1. IInv => IndexAgrees
  BY DEF IInv
<1> QED
  BY <1>1, Invariance, PTL

(***************************************************************************)
(* No session outlives the connection of one of its endpoints.             *)
(***************************************************************************)
THEOREM NoOrphans == Spec => []NoOrphanSession
<1>1. IInv => NoOrphanSession
  BY EndpointsConnected DEF NoOrphanSession
<1> QED
  BY <1>1, Invariance, PTL

(***************************************************************************)
(* A sender carries one session at a time, and a page is in one at a time. *)
(***************************************************************************)
THEOREM SingleSession == Spec => []OneSessionPerSocket
<1>1. IInv => OneSessionPerSocket
  <2> SUFFICES ASSUME IInv, NEW i \in Ids, NEW j \in Ids, i # j,
                      NEW p \in Endpoints(i), p \in Endpoints(j)
               PROVE  FALSE
    BY DEF OneSessionPerSocket
  <2>1. p \in Sockets
    BY EndpointsConnected
  <2> QED
    BY <2>1 DEF IInv, IndexAgrees
<1> QED
  BY <1>1, Invariance, PTL

(***************************************************************************)
(* A live session pairs a ready sender with somebody else.                 *)
(***************************************************************************)
THEOREM SessionsWellFormed == Spec => []WellFormedSession
<1>1. IInv => WellFormedSession
  BY DEF IInv
<1> QED
  BY <1>1, Invariance, PTL

-----------------------------------------------------------------------------
\* Only onDisconnected takes a session away.
LEMMA SessionStep ==
    ASSUME IInv, Next
    PROVE  \/ /\ \A id \in Ids : HasSession(id) => sessions'[id] = sessions[id]
           \/ \E s \in Sockets : onDisconnected(s)
<1>1. ASSUME NEW s \in Sockets, NEW i \in Ids \cup {NoId}, handleRequest(s, i), NEW id \in Ids, HasSession(id)
      PROVE  sessions'[id] = sessions[id]
  BY <1>1 DEF handleRequest, RejectRequest, AcceptRequest, IInv, TypeOK
<1>2. \A s \in Receivers : s \in Sockets
  BY DEF Sockets
<1> QED
  BY <1>1, <1>2 DEF Next, SenderStep, PageStep, SocketStep, OnSenderReady, onNewConnection, PeerCloses,
                    DeferredDelete, forwardSessionMessage

(***************************************************************************)
(* Whoever is left of a session that ends is told in the same step.        *)
(***************************************************************************)
THEOREM SurvivorsTold == Spec => SurvivorTold
<1>1. ASSUME IInv, Next, NEW id \in Ids, HasSession(id), sessions'[id] # sessions[id],
             NEW p \in Endpoints(id), conn'[p] \in {"open", "closing"}
      PROVE  [to |-> p, from |-> None, id |-> id, type |-> "peer-disconnected"] \in out'
  <2>1. PICK s \in Sockets : onDisconnected(s)
    BY <1>1, SessionStep
  <2>2. socket_to_session[s] = id
    BY <1>1, <2>1 DEF onDisconnected
  <2>3. p \in TakenEndpoints(s) /\ p \in Sockets
    BY <1>1, <2>2, TakenIsWholeSession, EndpointsConnected
  <2>4. p # s
    BY <1>1, <2>1 DEF onDisconnected, IInv, TypeOK
  <2> QED
    BY <2>1, <2>2, <2>3, <2>4 DEF onDisconnected
<1>2. IInv /\ [Next]_vars =>
        [\A id \in Ids : HasSession(id) /\ sessions'[id] # sessions[id] =>
            \A p \in Endpoints(id) : conn'[p] \in {"open", "closing"} =>
                [to |-> p, from |-> None, id |-> id, type |-> "peer-disconnected"] \in out']_vars
  BY <1>1
<1> QED
  BY <1>2, Invariance, PTL DEF Spec, SurvivorTold

(***************************************************************************)
(* A forwarded message goes from one endpoint of its session to the other. *)
(***************************************************************************)
THEOREM RoutingStaysWithin == Spec => []RoutedWithinSession
<1>1. Init => RoutedWithinSession
  BY DEF Init, RoutedWithinSession
<1>2. ASSUME IInv, NEW s \in Sockets, NEW type \in Forwarded, NEW id \in Ids \cup {NoId},
             forwardSessionMessage(s, type, id)
      PROVE  RoutedWithinSession'
  <2>1. CASE Target(s, id) = None
    BY <1>2, <2>1 DEF forwardSessionMessage, ErrorTo, RoutedWithinSession
  <2>2. CASE Target(s, id) # None
    <3>1. HasSession(id)
      BY <2>2 DEF Target
    <3> id \in Ids
      BY <3>1 DEF HasSession
    <3>2. sessions[id].sender # None /\ sessions[id].receiver # None
      BY <1>2, <3>1 DEF IInv, WellFormedSession
    <3>3. Endpoints(id) = {sessions[id].sender, sessions[id].receiver}
      BY <3>2 DEF Endpoints
    <3>4. /\ Deref(sessions[id].sender) = sessions[id].sender
          /\ Deref(sessions[id].receiver) = sessions[id].receiver
      BY <1>2, <3>3, EndpointsConnected
    <3>5. {s, Target(s, id)} = Endpoints(id)
      BY <2>2, <3>1, <3>3, <3>4 DEF Target
    <3>6. Endpoints(id)' = Endpoints(id)
      BY <1>2 DEF forwardSessionMessage, Endpoints
    <3> QED
      BY <1>2, <2>2, <3>1, <3>5, <3>6 DEF forwardSessionMessage, RoutedWithinSession
  <2> QED
    BY <2>1, <2>2
<1>3. IInv /\ RoutedWithinSession /\ [Next]_vars => RoutedWithinSession'
  <2> SUFFICES ASSUME IInv, RoutedWithinSession, [Next]_vars PROVE RoutedWithinSession'
    OBVIOUS
  <2>1. CASE UNCHANGED vars
    BY <2>1 DEF vars, RoutedWithinSession, Endpoints
  <2>2. ASSUME NEW s, NEW id, handleRequest(s, id) PROVE RoutedWithinSession'
    BY <2>2 DEF handleRequest, RejectRequest, AcceptRequest, ErrorTo, Forwarded, RoutedWithinSession
  <2>3. ASSUME NEW s \in Sockets, onDisconnected(s) PROVE RoutedWithinSession'
    BY <2>3 DEF onDisconnected, RoutedWithinSession
  <2>4. ASSUME out' = {} PROVE RoutedWithinSession'
    BY <2>4 DEF RoutedWithinSession
  <2> QED
    BY <1>2, <2>1, <2>2, <2>3, <2>4
       DEF Next, SenderStep, PageStep, SocketStep, OnSenderReady, onNewConnection, PeerCloses, DeferredDelete
<1> QED
  BY <1>1, <1>3, Invariance, PTL DEF Spec

-----------------------------------------------------------------------------
LEMMA BrokerInit == Init => Broker!Init
BY DEF Init, Broker!Init, Broker!NoPair, Unbound, Connected

\* Every step of the server is a step of the session broker or a stutter.
LEMMA BrokerStep == IInv /\ [Next]_vars => [Broker!Next]_(Broker!vars)
<1> SUFFICES ASSUME IInv, [Next]_vars PROVE [Broker!Next]_(Broker!vars)
  OBVIOUS
<1> DEFINE online == {s \in Sockets : Connected(s)}
<1>1. ASSUME UNCHANGED <<conn, ready_senders, sessions>> PROVE UNCHANGED Broker!vars
  BY <1>1 DEF Broker!vars, Connected
<1>2. ASSUME NEW s \in Senders, OnSenderReady(s) PROVE Broker!Next
  <2>1. s \in Sockets /\ s \in online
    BY <1>2 DEF OnSenderReady, Sockets
  <2>2. online' = online
    BY <1>2 DEF OnSenderReady, Connected
  <2>3. Broker!Offer(s)
    BY <1>2, <2>1, <2>2 DEF OnSenderReady, Broker!Offer
  <2> QED
    BY <2>1, <2>3 DEF Broker!Next
<1>3. ASSUME NEW s \in Receivers, NEW id \in Ids \cup {NoId},
             socket_to_session[s] \in {NoId, id}, NEW selected \in Sockets,
             AcceptRequest(s, id, selected)
      PROVE  Broker!Next
  <2>1. s \in Sockets /\ id \in Ids
    BY <1>3 DEF Sockets, AcceptRequest
  <2>2. sessions[id] = Unbound /\ Endpoints(id) = {}
    BY <1>3, <2>1 DEF AcceptRequest, HasSession, Endpoints, Unbound
  <2>3. socket_to_session[s] = NoId /\ socket_to_session[selected] = NoId /\ selected # s
        /\ selected \in ready_senders
    BY <1>3, <2>1, <2>2 DEF AcceptRequest, Eligible, IInv, IndexAgrees
  <2>4. \A i \in Ids : Broker!Members(i) = Endpoints(i)
    BY DEF Broker!Members, Endpoints
  <2>5. Broker!Idle(s) /\ Broker!Idle(selected)
    BY <2>1, <2>3, <2>4, Sentinels DEF Broker!Idle, IInv, IndexAgrees
  <2>6. s \in online /\ selected \in online
    BY <1>3, <2>1, <2>3 DEF AcceptRequest, IInv, NoDanglingKeys
  <2>7. online' = online
    BY <1>3 DEF AcceptRequest, Connected
  <2>8. Broker!Start(id, selected, s)
    BY <1>3, <2>2, <2>3, <2>5, <2>6, <2>7 DEF AcceptRequest, Broker!Start, Broker!NoPair, Unbound
  <2> QED
    BY <2>1, <2>8 DEF Broker!Next
<1>4. ASSUME NEW s \in Sockets, onNewConnection(s) PROVE Broker!Next
  <2>1. s \notin online /\ online' = online \cup {s}
    BY <1>4 DEF onNewConnection, Connected, IInv, TypeOK
  <2>2. Broker!Join(s)
    BY <1>4, <2>1 DEF onNewConnection, Broker!Join
  <2> QED
    BY <2>2 DEF Broker!Next
<1>5. ASSUME NEW s \in Sockets, PeerCloses(s) PROVE UNCHANGED Broker!vars
  <2>1. online' = online
    BY <1>5 DEF PeerCloses, Connected, IInv, TypeOK
  <2> QED
    BY <1>5, <2>1 DEF PeerCloses, Broker!vars
<1>6. ASSUME NEW s \in Sockets, onDisconnected(s) PROVE Broker!Next
  <2>1. s \in online /\ online' = online \ {s}
    BY <1>6 DEF onDisconnected, Connected, IInv, TypeOK
  <2>2. \A id \in Ids : s \in Broker!Members(id) <=> id = socket_to_session[s]
    BY DEF Broker!Members, Endpoints, IInv, IndexAgrees
  <2>3. sessions' = [id \in Ids |-> IF s \in Broker!Members(id) THEN Broker!NoPair ELSE sessions[id]]
    BY <1>6, <2>2 DEF onDisconnected, Broker!NoPair, Unbound
  <2>4. Broker!Leave(s)
    BY <1>6, <2>1, <2>3 DEF onDisconnected, Broker!Leave
  <2> QED
    BY <2>4 DEF Broker!Next
<1>7. ASSUME NEW s \in Sockets, DeferredDelete(s) PROVE UNCHANGED Broker!vars
  <2>1. online' = online
    BY <1>7 DEF DeferredDelete, Connected, IInv, TypeOK
  <2> QED
    BY <1>7, <2>1 DEF DeferredDelete, Broker!vars
<1>8. ASSUME NEW s \in Sockets, NEW type \in Forwarded, NEW id \in Ids \cup {NoId},
             forwardSessionMessage(s, type, id)
      PROVE  UNCHANGED Broker!vars
  BY <1>1, <1>8 DEF forwardSessionMessage
<1>9. ASSUME NEW s \in Receivers, NEW id \in Ids \cup {NoId}, RejectRequest(s, id)
      PROVE  UNCHANGED Broker!vars
  BY <1>1, <1>9 DEF RejectRequest
<1>10. CASE UNCHANGED vars
  BY <1>1, <1>10 DEF vars
<1> QED
  BY <1>2, <1>3, <1>4, <1>5, <1>6, <1>7, <1>8, <1>9, <1>10
     DEF Next, SenderStep, PageStep, SocketStep, handleRequest

(***************************************************************************)
(* The server, used by the clients of this repository, implements the      *)
(* abstract session broker.                                                *)
(***************************************************************************)
THEOREM Refinement == Spec => ImplementsBroker
BY BrokerInit, BrokerStep, Invariance, PTL DEF Spec, ImplementsBroker, Broker!Spec

-----------------------------------------------------------------------------
\* What the server keeps true whatever its clients are: AnyNext.
AnyInv == TypeOK /\ NoDanglingKeys /\ IndexSound

LEMMA AnyInit == Init => AnyInv
  BY InitInv, Sentinels DEF AnyInv, IInv, Init, IndexSound

\* A step that leaves the two tables of sessions alone.
LEMMA AnyUnchanged ==
    ASSUME AnyInv, TypeOK',
           UNCHANGED <<sessions, socket_to_session>>,
           \A s \in ready_senders' : s \notin ready_senders => Connected(s)',
           \A s \in Sockets : Connected(s) => Connected(s)'
    PROVE  AnyInv'
<1>1. NoDanglingKeys'
  BY DEF AnyInv, NoDanglingKeys, TypeOK
<1>2. IndexSound'
  BY DEF AnyInv, IndexSound, Endpoints
<1> QED
  BY <1>1, <1>2 DEF AnyInv

\* A request may move the index entry of its page, never that of others, and
\* never to a session that is there already.
LEMMA AnyAccept ==
    ASSUME AnyInv, NEW s \in Sockets, NEW id \in Ids, NEW selected \in Sockets, AcceptRequest(s, id, selected)
    PROVE  AnyInv'
<1>1. /\ Connected(s) /\ sessions[id] = Unbound
      /\ selected \in ready_senders /\ selected # s
      /\ sessions' = [sessions EXCEPT ![id] = [sender |-> selected, receiver |-> s]]
      /\ out' = {[to |-> selected, from |-> s, id |-> id, type |-> "request"]}
      /\ UNCHANGED <<conn, ready_senders>>
  BY DEF AcceptRequest, Eligible, HasSession
<1>2. socket_to_session' = [x \in Sockets |-> IF x \in {selected, s} THEN id ELSE socket_to_session[x]]
  BY DEF AcceptRequest, AnyInv, TypeOK
<1>3. TypeOK'
  BY <1>1, <1>2 DEF AnyInv, TypeOK, Binding, Message
<1>4. NoDanglingKeys'
  BY <1>1, <1>2 DEF AnyInv, NoDanglingKeys, Connected
<1>5. Endpoints(id) = {} /\ Endpoints(id)' = {selected, s}
  BY <1>1, Sentinels DEF Endpoints, Unbound, AnyInv, TypeOK
<1>6. \A i \in Ids : i # id => Endpoints(i)' = Endpoints(i)
  BY <1>1 DEF Endpoints, AnyInv, TypeOK
<1>7. ASSUME NEW x \in Sockets, NEW i \in Ids, socket_to_session'[x] = i PROVE x \in Endpoints(i)'
  <2>1. CASE x \in {selected, s}
    BY <1>2, <1>5, <1>7, <2>1
  <2>2. CASE x \notin {selected, s}
    <3>1. socket_to_session[x] = i
      BY <1>2, <1>7, <2>2
    <3>2. x \in Endpoints(i)
      BY <3>1, Sentinels DEF AnyInv, IndexSound
    <3>3. i # id
      BY <1>5, <3>2
    <3> QED
      BY <1>6, <3>2, <3>3
  <2> QED
    BY <2>1, <2>2
<1> QED
  BY <1>3, <1>4, <1>7 DEF AnyInv, IndexSound, Endpoints, TypeOK

\* The session onDisconnected takes is one of the socket's, and nobody who
\* is still connected keeps an index entry for it.
LEMMA AnyDisconnected ==
    ASSUME AnyInv, NEW s \in Sockets, onDisconnected(s)
    PROVE  AnyInv'
<1> DEFINE gone == {s} \cup TakenEndpoints(s)
<1>1. \A i \in Ids : Endpoints(i)' = IF i = socket_to_session[s] THEN {} ELSE Endpoints(i)
  BY DEF onDisconnected, Endpoints, Unbound
<1>2. \A x \in Sockets : socket_to_session'[x] = IF x \in gone THEN NoId ELSE socket_to_session[x]
  BY DEF onDisconnected
<1>3. TakenEndpoints(s) \subseteq Sockets
  BY Sentinels DEF TakenEndpoints, HasSession, Endpoints, Deref, AnyInv, TypeOK, Binding
<1>4. TypeOK'
  <2>1. conn' \in [Sockets -> ConnState] /\ ready_senders' \subseteq Sockets
    BY DEF onDisconnected, AnyInv, TypeOK, ConnState
  <2>2. sessions' \in [Ids -> Binding] /\ socket_to_session' \in [Sockets -> Ids \cup {NoId}]
    BY DEF onDisconnected, AnyInv, TypeOK, Binding, Unbound
  <2>3. out' \subseteq Message
    BY <1>3 DEF onDisconnected, AnyInv, TypeOK, Message
  <2> QED
    BY <2>1, <2>2, <2>3 DEF TypeOK
<1>5. \A x \in Sockets : x # s => Connected(x)' = Connected(x)
  BY DEF onDisconnected, Connected, AnyInv, TypeOK
<1>6. NoDanglingKeys'
  BY <1>2, <1>4, <1>5 DEF onDisconnected, AnyInv, NoDanglingKeys, TypeOK
<1>7. ASSUME NEW x \in Sockets, NEW i \in Ids, socket_to_session'[x] = i PROVE x \in Endpoints(i)'
  <2>1. x \notin gone /\ socket_to_session[x] = i
    BY <1>2, <1>7, Sentinels
  <2>2. x \in Endpoints(i) /\ Connected(x)
    BY <2>1, Sentinels DEF AnyInv, IndexSound, NoDanglingKeys
  <2>3. Deref(x) # None /\ HasSession(i)
    BY <2>2, Sentinels DEF Deref, Connected, HasSession, Endpoints, Unbound
  <2>4. i # socket_to_session[s]
    BY <2>1, <2>2, <2>3 DEF TakenEndpoints
  <2> QED
    BY <1>1, <2>2, <2>4
<1> QED
  BY <1>4, <1>6, <1>7 DEF AnyInv, IndexSound, Endpoints, TypeOK

LEMMA AnyNextInv == AnyInv /\ [AnyNext]_vars => AnyInv'
<1> SUFFICES ASSUME AnyInv, [AnyNext]_vars PROVE AnyInv'
  OBVIOUS
<1>1. ASSUME NEW s \in Sockets, OnSenderReady(s) PROVE AnyInv'
  <2>1. TypeOK'
    BY <1>1 DEF OnSenderReady, AnyInv, TypeOK
  <2> QED
    BY <1>1, <2>1, AnyUnchanged DEF OnSenderReady, Connected
<1>2. ASSUME NEW s \in Sockets, NEW id \in Ids \cup {NoId}, handleRequest(s, id) PROVE AnyInv'
  <2>1. CASE RejectRequest(s, id)
    <3>1. TypeOK'
      BY <2>1 DEF RejectRequest, ErrorTo, Message, Forwarded, AnyInv, TypeOK
    <3> QED
      BY <2>1, <3>1, AnyUnchanged DEF RejectRequest, Connected
  <2>2. CASE \E selected \in Sockets : AcceptRequest(s, id, selected)
    BY <2>2, AnyAccept DEF AcceptRequest
  <2> QED
    BY <1>2, <2>1, <2>2 DEF handleRequest
<1>3. ASSUME NEW s \in Sockets, onNewConnection(s) \/ PeerCloses(s) \/ DeferredDelete(s) PROVE AnyInv'
  <2>1. TypeOK'
    BY <1>3 DEF onNewConnection, PeerCloses, DeferredDelete, AnyInv, TypeOK, ConnState
  <2>2. \A x \in Sockets : Connected(x) => Connected(x)'
    BY <1>3 DEF onNewConnection, PeerCloses, DeferredDelete, Connected, AnyInv, TypeOK
  <2> QED
    BY <1>3, <2>1, <2>2, AnyUnchanged DEF onNewConnection, PeerCloses, DeferredDelete
<1>4. ASSUME NEW s \in Sockets, onDisconnected(s) PROVE AnyInv'
  BY <1>4, AnyDisconnected
<1>5. ASSUME NEW s \in Sockets, NEW type \in Forwarded, NEW id \in Ids \cup {NoId}, forwardSessionMessage(s, type, id)
      PROVE  AnyInv'
  <2>1. Target(s, id) \in Sockets \cup {None}
    BY DEF Target, Deref, HasSession, AnyInv, TypeOK, Binding
  <2>2. out' \subseteq Message
    BY <1>5, <2>1 DEF forwardSessionMessage, ErrorTo, Message, Forwarded
  <2>3. TypeOK'
    BY <1>5, <2>2 DEF forwardSessionMessage, AnyInv, TypeOK
  <2> QED
    BY <1>5, <2>3, AnyUnchanged DEF forwardSessionMessage, Connected
<1>6. CASE UNCHANGED vars
  BY <1>6 DEF vars, AnyInv, TypeOK, NoDanglingKeys, IndexSound, Connected, Endpoints
<1> QED
  BY <1>1, <1>2, <1>3, <1>4, <1>5, <1>6 DEF AnyNext, AnyClientStep, SocketStep

LEMMA AnyInvariance == AnySpec => []AnyInv
  BY AnyInit, AnyNextInv, PTL DEF AnySpec

(***************************************************************************)
(* With clients of any make no table holds a socket that is gone.          *)
(***************************************************************************)
THEOREM NeverDanglingForAny == AnySpec => []NoDanglingKeys
<1>1. AnyInv => NoDanglingKeys
  BY DEF AnyInv
<1> QED
  BY <1>1, AnyInvariance, PTL

(***************************************************************************)
(* With clients of any make an index entry leads to a session of its own   *)
(* socket.                                                                 *)
(***************************************************************************)
THEOREM IndexSoundForAny == AnySpec => []IndexSound
<1>1. AnyInv => IndexSound
  BY DEF AnyInv
<1> QED
  BY <1>1, AnyInvariance, PTL

\* A session is only taken by the disconnect of one of its endpoints.
LEMMA AnySessionTaken ==
    ASSUME AnyInv, AnyNext, NEW id \in Ids, HasSession(id), sessions'[id] # sessions[id]
    PROVE  \E s \in Sockets : onDisconnected(s) /\ socket_to_session[s] = id /\ s \in Endpoints(id)
<1>1. ASSUME NEW s \in Sockets, NEW i \in Ids \cup {NoId}, handleRequest(s, i) PROVE FALSE
  BY <1>1 DEF handleRequest, RejectRequest, AcceptRequest, AnyInv, TypeOK
<1>2. PICK s \in Sockets : onDisconnected(s)
  BY <1>1 DEF AnyNext, AnyClientStep, SocketStep, OnSenderReady, onNewConnection, PeerCloses, DeferredDelete,
              forwardSessionMessage
<1>3. socket_to_session[s] = id
  BY <1>2 DEF onDisconnected
<1>4. s \in Endpoints(id)
  BY <1>3, Sentinels DEF AnyInv, IndexSound
<1> QED
  BY <1>2, <1>3, <1>4

(***************************************************************************)
(* No request of any client pushes others out of their session.            *)
(***************************************************************************)
THEOREM OwnDisconnectEnds == AnySpec => OnlyOwnDisconnectEnds
<1>1. ASSUME AnyInv, AnyNext, NEW id \in Ids, HasSession(id), sessions'[id] # sessions[id]
      PROVE  \E p \in Endpoints(id) : conn'[p] # conn[p]
  <2>1. PICK s \in Sockets : onDisconnected(s) /\ s \in Endpoints(id)
    BY <1>1, AnySessionTaken
  <2>2. conn[s] = "closing" /\ conn'[s] = "zombie"
    BY <1>1, <2>1 DEF onDisconnected, AnyInv, TypeOK
  <2> QED
    BY <2>1, <2>2
<1>2. AnyInv /\ [AnyNext]_vars =>
        [\A id \in Ids : HasSession(id) /\ sessions'[id] # sessions[id] =>
            \E p \in Endpoints(id) : conn'[p] # conn[p]]_vars
  BY <1>1
<1> QED
  BY <1>2, AnyInvariance, PTL DEF AnySpec, OnlyOwnDisconnectEnds

(***************************************************************************)
(* With clients of any make too, whoever is left of a session is told.     *)
(***************************************************************************)
THEOREM SurvivorsToldForAny == AnySpec => SurvivorTold
<1>1. ASSUME AnyInv, AnyNext, NEW id \in Ids, HasSession(id), sessions'[id] # sessions[id],
             NEW p \in Endpoints(id), conn'[p] \in {"open", "closing"}
      PROVE  [to |-> p, from |-> None, id |-> id, type |-> "peer-disconnected"] \in out'
  <2>1. PICK s \in Sockets : onDisconnected(s) /\ socket_to_session[s] = id /\ s \in Endpoints(id)
    BY <1>1, AnySessionTaken
  <2>2. p \in Sockets /\ p # None
    BY <1>1 DEF AnyInv, TypeOK, Binding, Endpoints
  <2>3. p # s /\ conn'[p] = conn[p]
    BY <1>1, <2>1, <2>2 DEF onDisconnected, AnyInv, TypeOK
  <2>4. p \in TakenEndpoints(s)
    BY <1>1, <2>1, <2>2, <2>3 DEF TakenEndpoints, Deref
  <2> QED
    BY <2>1, <2>3, <2>4 DEF onDisconnected
<1>2. AnyInv /\ [AnyNext]_vars =>
        [\A id \in Ids : HasSession(id) /\ sessions'[id] # sessions[id] =>
            \A p \in Endpoints(id) : conn'[p] \in {"open", "closing"} =>
                [to |-> p, from |-> None, id |-> id, type |-> "peer-disconnected"] \in out']_vars
  BY <1>1
<1> QED
  BY <1>2, AnyInvariance, PTL DEF AnySpec, SurvivorTold
-----------------------------------------------------------------------------
(***************************************************************************)
(* Liveness.  The provers take ENABLED for a symbol without meaning; what  *)
(* the theorem needs to know of it is stated as a hypothesis: the signal   *)
(* disconnected of a closing socket can be handled.  The rest of           *)
(* onDisconnected is assignments.                                          *)
(***************************************************************************)
Deliverable == \A s \in Sockets : conn[s] = "closing" => ENABLED <<onDisconnected(s)>>_vars

Stale(s, id) == s \in Endpoints(id) /\ ~(conn[s] = "open")
Freed(s, id) == s \notin Endpoints(id)

LEMMA StaleIsClosing ==
    ASSUME IInv, NEW s \in Sockets, NEW id \in Ids, Stale(s, id)
    PROVE  conn[s] = "closing"
  BY EndpointsConnected DEF Stale, Connected

\* A socket whose peer has gone stays that way as long as it is bound.
LEMMA StaleUntilFreed ==
    ASSUME IInv, [Next]_vars, NEW s \in Sockets, NEW id \in Ids, Stale(s, id)
    PROVE  Stale(s, id)' \/ Freed(s, id)'
<1>1. conn[s] = "closing"
  BY StaleIsClosing
<1>2. conn'[s] # "open"
  <2>1. ASSUME NEW x \in Sockets, onNewConnection(x) \/ PeerCloses(x) \/ onDisconnected(x) \/ DeferredDelete(x)
        PROVE  conn'[s] # "open"
    BY <1>1, <2>1 DEF onNewConnection, PeerCloses, onDisconnected, DeferredDelete, IInv, TypeOK
  <2>2. ASSUME UNCHANGED conn PROVE conn'[s] # "open"
    BY <1>1, <2>2
  <2>3. \A x \in Sockets, type \in Forwarded, id2 \in Ids \cup {NoId} :
            forwardSessionMessage(x, type, id2) => UNCHANGED conn
    BY DEF forwardSessionMessage
  <2>4. SenderStep \/ PageStep \/ UNCHANGED vars => UNCHANGED conn
    BY DEF SenderStep, PageStep, OnSenderReady, handleRequest, RejectRequest, AcceptRequest, vars
  <2> QED
    BY <2>1, <2>2, <2>3, <2>4 DEF Next, SocketStep
<1> QED
  BY <1>2 DEF Stale, Freed

LEMMA DisconnectFrees ==
    ASSUME IInv, NEW s \in Sockets, NEW id \in Ids, Stale(s, id), onDisconnected(s)
    PROVE  Freed(s, id)'
<1>1. socket_to_session[s] = id
  BY DEF Stale, IInv, IndexAgrees
<1>2. sessions'[id] = Unbound
  BY <1>1 DEF onDisconnected
<1>3. None \notin {s}
  BY Sentinels
<1> QED
  BY <1>2, <1>3 DEF Freed, Endpoints, Unbound

(***************************************************************************)
(* A session with an endpoint whose peer has gone is torn down in the end: *)
(* the one signal that is still to come finds it by the index              *)
(* (onDisconnected).                                                       *)
(***************************************************************************)
THEOREM StaleCleared == FairSpec /\ []Deliverable => StaleSessionCleared
<1> SUFFICES ASSUME NEW id \in Ids, NEW s \in Sockets
             PROVE  FairSpec /\ []Deliverable => (Stale(s, id) ~> Freed(s, id))
  BY Zenon DEF StaleSessionCleared, Stale, Freed
<1>1. EventLoop => Delivered(s)
  BY Zenon DEF EventLoop
<1>2. Deliverable => (conn[s] = "closing" => ENABLED <<onDisconnected(s)>>_vars)
  BY Zenon DEF Deliverable
<1>3. IInv /\ Stale(s, id) => conn[s] = "closing"
  BY StaleIsClosing
<1>4. IInv /\ Stale(s, id) /\ [Next]_vars => Stale(s, id)' \/ Freed(s, id)'
  BY StaleUntilFreed
<1>5. IInv /\ Stale(s, id) /\ onDisconnected(s) => Freed(s, id)'
  BY DisconnectFrees
<1> QED
  BY <1>1, <1>2, <1>3, <1>4, <1>5, Invariance, PTL DEF FairSpec, Spec, Delivered
=============================================================================
