----------------------- MODULE SignalingSystemProofs -----------------------
(***************************************************************************)
(* Proofs about SignalingSystem for any senders, pages and ids.  First     *)
(* that its senders and pages keep to what SignalingServer assumes of      *)
(* them, so that the theorems about the server hold in the composition;    *)
(* with these, that answers travel ahead of candidates and, as long as no  *)
(* two pages share an id, reach the push client they are meant for.        *)
(***************************************************************************)
EXTENDS SignalingSystem, TLAPS

Tables == INSTANCE SignalingServerProofs

ServerInv ==
    Server!TypeOK /\ Server!NoDanglingKeys /\ Server!IndexAgrees /\ Server!WellFormedSession

-----------------------------------------------------------------------------
\* What may be under way, from whom, and under which id.
Traffic ==
    /\ ready_senders \subseteq Senders
    /\ \A r \in Receivers : \A k \in DOMAIN toServer[r] :
          /\ toServer[r][k].type \in {"request", "answer", "candidate"}
          /\ toServer[r][k].id = page[r].id
    /\ \A s \in Senders : \A k \in DOMAIN toServer[s] :
          toServer[s][k].type \in {"sender-ready", "error", "offer", "candidate"}
    /\ \A s \in Senders : \A k \in DOMAIN queued[s] : queued[s][k].type \in {"offer", "candidate"}
    /\ \A s \in Senders : \A k \in DOMAIN toClient[s] :
          toClient[s][k].type \in {"request", "answer", "candidate"} => toClient[s][k].id \in Ids

\* A page whose request the server has not handled yet.
Fresh(r) ==
    /\ socket_to_session[r] = NoId
    /\ page[r].answered = 0
    /\ \A k \in DOMAIN toClient[r] : toClient[r][k].type # "offer"

\* A page asks once, and sends nothing else before the request is handled.
AsksOnce ==
    \A r \in Receivers :
        /\ r \notin said => Fresh(r) /\ toServer[r] = <<>> /\ page[r].id = NoId
        /\ r \in said => page[r].id \in Ids
        /\ \A k \in DOMAIN toServer[r] :
              toServer[r][k].type = "request" => Len(toServer[r]) = 1 /\ Fresh(r)

\* A session joins a sender to the page that asked for its id.
SessionsFit ==
    \A id \in Ids : Server!HasSession(id) =>
        /\ sessions[id].sender \in Senders /\ sessions[id].receiver \in Receivers
        /\ page[sessions[id].receiver].id = id

Parts == Traffic /\ AsksOnce /\ SessionsFit

Base == TypeOK /\ ServerInv /\ Traffic /\ AsksOnce /\ SessionsFit

-----------------------------------------------------------------------------
IsRequest(m, id) == m.type = "request" /\ m.id = id
IsAnswer(m, id) == m.type = "answer" /\ m.id = id
IsCandidate(m, id) == m.type = "candidate" /\ m.id = id

\* The push client filed under id, if there is one, has been given an answer.
Done(s, id) == clients[s][id] = 0 \/ \E a \in applied : a[1] = clients[s][id]

(***************************************************************************)
(* Whatever push client is filed under id when the first n messages of q   *)
(* have been read has been given an answer by then.                        *)
(***************************************************************************)
ReadyAfter(q, n, id, done) ==
    \/ \E j \in 1..n : IsAnswer(q[j], id) /\ \A l \in (j + 1)..n : ~IsRequest(q[l], id)
    \/ done /\ \A l \in 1..n : ~IsRequest(q[l], id)

Ready(s, id) == ReadyAfter(toClient[s], Len(toClient[s]), id, Done(s, id))

\* Every candidate on its way to a sender comes behind the answer it needs.
SenderOrdered(s) ==
    \A id \in Ids : \A k \in DOMAIN toClient[s] :
        IsCandidate(toClient[s][k], id) => ReadyAfter(toClient[s], k - 1, id, Done(s, id))

AnswerFirstAtSender == \A s \in Senders : SenderOrdered(s)

\* A page that has answered has its answer under way, or already behind it.
PageOrdered(r, s, id) ==
    /\ page[r].answered # 0 =>
          Ready(s, id) \/ \E j \in DOMAIN toServer[r] : IsAnswer(toServer[r][j], id)
    /\ \A k \in DOMAIN toServer[r] : IsCandidate(toServer[r][k], id) =>
          Ready(s, id) \/ \E j \in 1..(k - 1) : IsAnswer(toServer[r][j], id)

AnswerFirstAtPage ==
    \A id \in Ids : Server!HasSession(id) /\ conn[sessions[id].sender] = "open" =>
        PageOrdered(sessions[id].receiver, sessions[id].sender, id)

Order == AnswerFirstAtSender /\ AnswerFirstAtPage /\ NoCandidateBeforeAnswer

-----------------------------------------------------------------------------
Carrying == {"offer", "answer", "candidate"}

\* The message is from, or for, the push client filed under its id in cl.
Filed(cl, id, c) == id \in Ids /\ c # 0 /\ \E s \in Senders : cl[s][id] = c

Sound(cl, q) == \A k \in DOMAIN q : q[k].type \in Carrying => Filed(cl, q[k].id, q[k].client)

\* The request for id has been handled by the server.
Asked(id) ==
    \E r \in Receivers : page[r].id = id /\ \A k \in DOMAIN toServer[r] : toServer[r][k].type # "request"

\* All that is said of a push client is said under the id it is filed under.
AllFiled ==
    /\ \A o \in offering : clients[o.by][o.id] = o.client
    /\ \A s \in Senders : Sound(clients, queued[s])
    /\ \A x \in Sockets : Sound(clients, toServer[x]) /\ Sound(clients, toClient[x])
    /\ \A r \in Receivers : page[r].answered # 0 => Filed(clients, page[r].id, page[r].answered)

\* A page is offered the session it asked for.
OfferedOwn ==
    \A r \in Receivers : \A k \in DOMAIN toClient[r] :
        toClient[r][k].type = "offer" => toClient[r][k].id = page[r].id

\* Each id has one push client, of one sender, after the server has handled its request.
OneClientEach ==
    /\ \A id \in Ids : \A s, t \in Senders : clients[s][id] # 0 /\ clients[t][id] # 0 => s = t
    /\ \A id \in Ids, s \in Senders : clients[s][id] # 0 => Asked(id)

\* A request on its way to a sender is the only one for its id there ever was.
RequestedOnce ==
    \A id \in Ids, s \in Senders : \A k \in DOMAIN toClient[s] : IsRequest(toClient[s][k], id) =>
        /\ Asked(id)
        /\ \A t \in Senders : clients[t][id] = 0
        /\ \A t \in Senders : \A l \in DOMAIN toClient[t] :
              IsRequest(toClient[t][l], id) => t = s /\ l = k

OneClientPerId ==
    AllFiled /\ OfferedOwn /\ OneClientEach /\ RequestedOnce /\ AnswerMatchesOffer

DInv == IdsDiffer => OneClientPerId

-----------------------------------------------------------------------------
LEMMA SameInvariant == ServerInv <=> Tables!IInv
BY DEF ServerInv, Tables!IInv, Server!TypeOK, Tables!TypeOK, Server!Sockets, Tables!Sockets,
    Server!ConnState, Tables!ConnState, Server!Binding, Tables!Binding, Server!Message, Tables!Message,
    Server!Forwarded, Tables!Forwarded, Server!NoDanglingKeys, Tables!NoDanglingKeys,
    Server!Connected, Tables!Connected, Server!IndexAgrees, Tables!IndexAgrees, Server!Endpoints, Tables!Endpoints,
    Server!WellFormedSession, Tables!WellFormedSession, Server!HasSession, Tables!HasSession,
    Server!Unbound, Tables!Unbound

LEMMA SameNext == [Server!Next]_(Server!vars) => [Tables!Next]_(Tables!vars)
BY DEF Server!vars, Tables!vars, Server!Next, Tables!Next, Server!SenderStep, Tables!SenderStep,
    Server!PageStep, Tables!PageStep, Server!SocketStep, Tables!SocketStep, Server!Sockets, Tables!Sockets,
    Server!OnSenderReady, Tables!OnSenderReady, Server!handleRequest, Tables!handleRequest,
    Server!RejectRequest, Tables!RejectRequest, Server!AcceptRequest, Tables!AcceptRequest,
    Server!onNewConnection, Tables!onNewConnection, Server!PeerCloses, Tables!PeerCloses,
    Server!onDisconnected, Tables!onDisconnected, Server!DeferredDelete, Tables!DeferredDelete,
    Server!forwardSessionMessage, Tables!forwardSessionMessage, Server!Forwarded, Tables!Forwarded,
    Server!Connected, Tables!Connected, Server!HasSession, Tables!HasSession, Server!Unbound, Tables!Unbound,
    Server!Eligible, Tables!Eligible, Server!ErrorTo, Tables!ErrorTo, Server!Target, Tables!Target,
    Server!Deref, Tables!Deref, Server!TakenEndpoints, Tables!TakenEndpoints, Server!Endpoints, Tables!Endpoints

\* The invariant of SignalingServer, as proved in its own module.
LEMMA ServerInit == Server!Init => ServerInv
<1>1. Server!Init => Tables!Init
  BY DEF Server!Init, Tables!Init, Server!Sockets, Tables!Sockets, Server!Unbound, Tables!Unbound
<1>2. Tables!Init => Tables!IInv
  BY Tables!InitInv, DisjointRoles, Sentinels DEF Tables!Sockets
<1> QED
  BY <1>1, <1>2, SameInvariant

LEMMA ServerNext == ServerInv /\ [Server!Next]_(Server!vars) => ServerInv'
<1>1. ServerInv' <=> Tables!IInv'
  BY SameInvariant, PTL
<1>2. Tables!IInv /\ [Tables!Next]_(Tables!vars) => Tables!IInv'
  BY Tables!NextInv, DisjointRoles, Sentinels DEF Tables!Sockets
<1> QED
  BY <1>1, <1>2, SameInvariant, SameNext

-----------------------------------------------------------------------------
LEMMA TailFacts ==
    ASSUME NEW S, NEW q \in Seq(S), q # <<>>
    PROVE  /\ Head(q) = q[1] /\ 1 \in DOMAIN q
           /\ Tail(q) \in Seq(S) /\ Len(Tail(q)) = Len(q) - 1
           /\ DOMAIN Tail(q) = 1..(Len(q) - 1)
           /\ \A k \in DOMAIN Tail(q) : k + 1 \in DOMAIN q /\ Tail(q)[k] = q[k + 1]
OBVIOUS

LEMMA AppendFacts ==
    ASSUME NEW S, NEW q \in Seq(S), NEW m \in S
    PROVE  /\ Append(q, m) \in Seq(S) /\ Len(Append(q, m)) = Len(q) + 1
           /\ \A k \in DOMAIN Append(q, m) :
                 (k \in DOMAIN q /\ Append(q, m)[k] = q[k]) \/ (k = Len(q) + 1 /\ Append(q, m)[k] = m)
OBVIOUS

\* The two sockets of a session, and no others, are indexed under its id.
LEMMA SessionEnds ==
    ASSUME Base, NEW id \in Ids, Server!HasSession(id)
    PROVE  /\ sessions[id].sender \in Senders /\ sessions[id].receiver \in Receivers
           /\ page[sessions[id].receiver].id = id
           /\ Server!Endpoints(id) = {sessions[id].sender, sessions[id].receiver}
           /\ socket_to_session[sessions[id].sender] = id
           /\ socket_to_session[sessions[id].receiver] = id
<1>1. /\ sessions[id].sender \in Senders /\ sessions[id].receiver \in Receivers
      /\ page[sessions[id].receiver].id = id
  BY DEF Base, SessionsFit
<1>2. Server!Endpoints(id) = {sessions[id].sender, sessions[id].receiver}
  BY <1>1, Sentinels DEF Server!Endpoints
<1> QED
  BY <1>1, <1>2 DEF Base, ServerInv, Server!IndexAgrees, Server!Sockets

\* The server is used as SignalingServer assumes.
LEMMA StepIsServerStep ==
    ASSUME Base, [Next]_vars
    PROVE  [Server!Next]_(Server!vars)
<1>0. server' = server => UNCHANGED Server!vars
  BY DEF server, Server!vars
<1>1. ASSUME NEW s \in Sockets, ServerReceives(s) PROVE Server!Next
  <2> DEFINE m == Head(toServer[s])
  <2>1. m = toServer[s][1] /\ 1 \in DOMAIN toServer[s] /\ m \in Message
    BY <1>1, TailFacts DEF ServerReceives, Base, TypeOK
  <2>2. s \in Server!Sockets /\ m.id \in Ids \cup {NoId}
    BY <2>1 DEF Message, Sockets, Server!Sockets
  <2>3. CASE m.type = "sender-ready" /\ Server!OnSenderReady(s)
    <3>1. s \in Senders
      BY <2>1, <2>3 DEF Base, Traffic, Sockets
    <3> QED
      BY <2>3, <3>1 DEF Server!Next, Server!SenderStep
  <2>4. CASE m.type = "request" /\ Server!handleRequest(s, m.id)
    <3>1. s \in Receivers
      BY <2>1, <2>4 DEF Base, Traffic, Sockets
    <3>2. socket_to_session[s] = NoId
      BY <2>1, <2>4, <3>1 DEF Base, AsksOnce, Fresh
    <3> QED
      BY <2>2, <2>4, <3>1, <3>2 DEF Server!Next, Server!PageStep
  <2>5. CASE m.type \in Server!Forwarded /\ Server!forwardSessionMessage(s, m.type, m.id)
    BY <2>2, <2>5 DEF Server!Next, Server!SocketStep
  <2> QED
    BY <1>1, <2>3, <2>4, <2>5 DEF ServerReceives
<1>2. ASSUME NEW s \in Sockets, ServerAccepts(s) \/ ClientGoes(s) \/ ServerDisconnects(s)
      PROVE  Server!Next
  BY <1>2 DEF ServerAccepts, ClientGoes, ServerDisconnects, Server!Next, Server!SocketStep, Sockets, Server!Sockets
<1>3. ASSUME NEW s \in Senders, SenderConnected(s) \/ SenderReceives(s) \/ RunQueued(s)
      PROVE  server' = server
  BY <1>3 DEF SenderConnected, SenderReceives, RequestFails, RequestServed, SenderAnswer, SenderCandidate,
              SenderIgnores, RunQueued
<1>4. ASSUME NEW s \in Senders, NEW id \in Ids, SenderIce(s, id) PROVE server' = server
  BY <1>4 DEF SenderIce
<1>5. ASSUME OfferDone PROVE server' = server
  BY <1>5 DEF OfferDone, OfferCreated, OfferFails
<1>6. ASSUME NEW r \in Receivers, PageRequests(r) \/ PageReceives(r) \/ PageIce(r)
      PROVE  server' = server
  BY <1>6 DEF PageRequests, PageReceives, PageOffer, PageCandidate, PageTold, PageIce
<1>7. CASE UNCHANGED vars
  BY <1>0, <1>7 DEF vars
<1> QED
  BY <1>0, <1>1, <1>2, <1>3, <1>4, <1>5, <1>6, <1>7 DEF Next, ServerStep

-----------------------------------------------------------------------------
\* What is put on the wire to x, if its connection is still open.
Sent(x, m) == toClient' = [toClient EXCEPT ![x] = IF Open(x) THEN Append(@, m) ELSE @]

\* What the server may make of the first message of s.
Registered(s) ==
    /\ s \in Senders /\ ready_senders' = ready_senders \cup {s}
    /\ UNCHANGED <<conn, sessions, socket_to_session, toClient>>

Refused(s) ==
    /\ UNCHANGED <<conn, ready_senders, sessions, socket_to_session>>
    /\ Sent(s, Msg("error", NoId, 0))

Joined(s, t, id, c) ==
    /\ s \in Receivers /\ t \in Senders /\ id \in Ids
    /\ socket_to_session[t] = NoId /\ ~Server!HasSession(id) /\ page[s].id = id
    /\ sessions' = [sessions EXCEPT ![id] = [sender |-> t, receiver |-> s]]
    /\ socket_to_session' = [socket_to_session EXCEPT ![t] = id, ![s] = id]
    /\ Sent(t, Msg("request", id, c))
    /\ UNCHANGED <<conn, ready_senders>>

PassedOn(s, t, m) ==
    /\ m.id \in Ids /\ Server!HasSession(m.id) /\ m.type \in Server!Forwarded
    /\ \/ s = sessions[m.id].sender /\ t = sessions[m.id].receiver
       \/ s = sessions[m.id].receiver /\ t = sessions[m.id].sender
    /\ Sent(t, m)
    /\ UNCHANGED <<conn, ready_senders, sessions, socket_to_session>>

LEMMA PostNothing ==
    ASSUME TypeOK, NEW c, out' = {}, Post(c)
    PROVE  toClient' = toClient
BY DEF Post, TypeOK

LEMMA PostOne ==
    ASSUME TypeOK, NEW c, NEW x \in Sockets, NEW from, NEW id, NEW type,
           out' = {[to |-> x, from |-> from, id |-> id, type |-> type]}, conn' = conn, Post(c)
    PROVE  Sent(x, Msg(type, id, IF from = None THEN 0 ELSE c))
<1>1. \A y \in Sockets, m \in out' : m.to = y => y = x
  OBVIOUS
<1>2. (CHOOSE m \in out' : m.to = x) = [to |-> x, from |-> from, id |-> id, type |-> type]
  OBVIOUS
<1>3. toClient' = [y \in Sockets |->
          IF y = x /\ Open(x) THEN Append(toClient[y], Msg(type, id, IF from = None THEN 0 ELSE c))
          ELSE toClient[y]]
  BY <1>1, <1>2 DEF Post, Open
<1> QED
  BY <1>3 DEF Sent, TypeOK

LEMMA Receives ==
    ASSUME Base, NEW s \in Sockets, ServerReceives(s)
    PROVE  LET m == Head(toServer[s]) IN
           \/ m.type = "sender-ready" /\ Registered(s)
           \/ /\ m.type # "sender-ready" /\ Refused(s)
              /\ m.type \in Server!Forwarded /\ m.id \in Ids /\ Server!HasSession(m.id) =>
                    s \notin {sessions[m.id].sender, sessions[m.id].receiver}
           \/ m.type = "request" /\ \E t \in Senders : Joined(s, t, m.id, m.client)
           \/ \E t \in Sockets : PassedOn(s, t, m)
<1> DEFINE m == Head(toServer[s])
<1>1. m = toServer[s][1] /\ 1 \in DOMAIN toServer[s] /\ m \in Message /\ toServer[s] # <<>>
  BY TailFacts DEF ServerReceives, Base, TypeOK
<1>2. m = Msg(m.type, m.id, m.client)
  BY <1>1 DEF Message, Msg
<1>3. TypeOK /\ s # None
  BY Sentinels DEF Base, Sockets
<1>4. CASE m.type = "sender-ready" /\ Server!OnSenderReady(s)
  <2>1. s \in Senders
    BY <1>1, <1>4 DEF Base, Traffic, Sockets
  <2> QED
    BY <1>3, <1>4, <2>1, PostNothing DEF ServerReceives, Server!OnSenderReady, Registered
<1>5. ASSUME m.type # "sender-ready", out' = Server!ErrorTo(s),
             UNCHANGED <<conn, ready_senders, sessions, socket_to_session>>
      PROVE  Refused(s)
  BY <1>3, <1>5, PostOne DEF ServerReceives, Server!ErrorTo, Refused
<1>6. CASE m.type = "request" /\ Server!handleRequest(s, m.id)
  <2>1. CASE Server!RejectRequest(s, m.id)
    BY <1>5, <1>6, <2>1 DEF Server!RejectRequest, Server!Forwarded
  <2>2. ASSUME NEW t \in Server!Sockets, Server!AcceptRequest(s, m.id, t)
        PROVE  \E u \in Senders : Joined(s, u, m.id, m.client)
    <3>1. s \in Receivers /\ page[s].id = m.id
      BY <1>1, <1>6 DEF Base, Traffic, Sockets
    <3>2. t \in Senders /\ socket_to_session[t] = NoId
      BY <2>2 DEF Server!AcceptRequest, Server!Eligible, Base, Traffic
    <3>3. Sent(t, Msg("request", m.id, m.client))
      BY <1>3, <2>2, <3>2, PostOne DEF ServerReceives, Server!AcceptRequest, Sockets
    <3> QED
      BY <2>2, <3>1, <3>2, <3>3 DEF Server!AcceptRequest, Joined
  <2> QED
    BY <1>6, <2>1, <2>2 DEF Server!handleRequest
<1>7. CASE m.type \in Server!Forwarded /\ Server!forwardSessionMessage(s, m.type, m.id)
  <2>1. CASE Server!Target(s, m.id) = None
    <3>1. m.type # "sender-ready"
      BY <1>7 DEF Server!Forwarded
    <3>2. ASSUME m.id \in Ids, Server!HasSession(m.id),
                 s \in {sessions[m.id].sender, sessions[m.id].receiver}
          PROVE  FALSE
      <4>1. /\ socket_to_session[sessions[m.id].sender] = m.id
            /\ socket_to_session[sessions[m.id].receiver] = m.id
            /\ sessions[m.id].sender \in Sockets /\ sessions[m.id].receiver \in Sockets
        BY <3>2, SessionEnds DEF Sockets
      <4>2. /\ conn[sessions[m.id].sender] # "deleted" /\ sessions[m.id].sender # None
            /\ conn[sessions[m.id].receiver] # "deleted" /\ sessions[m.id].receiver # None
        BY <3>2, <4>1, Sentinels DEF Base, ServerInv, Server!NoDanglingKeys, Server!Connected, Sockets, Server!Sockets
      <4> QED
        BY <2>1, <3>2, <4>2 DEF Server!Target, Server!Deref
    <3> QED
      BY <1>5, <1>7, <2>1, <3>1, <3>2 DEF Server!forwardSessionMessage
  <2>2. CASE Server!Target(s, m.id) # None
    <3> DEFINE t == Server!Target(s, m.id)
    <3>1. m.id \in Ids /\ Server!HasSession(m.id)
      BY <2>2 DEF Server!Target, Server!HasSession
    <3>2. /\ sessions[m.id].sender \in Sockets /\ sessions[m.id].receiver \in Sockets
      BY <3>1, SessionEnds DEF Sockets
    <3>3. \/ s = sessions[m.id].sender /\ t = sessions[m.id].receiver
          \/ s = sessions[m.id].receiver /\ t = sessions[m.id].sender
      BY <2>2, <3>1, <1>3 DEF Server!Target, Server!Deref
    <3>4. Sent(t, m)
      BY <1>2, <1>3, <1>7, <2>2, <3>2, <3>3, PostOne DEF ServerReceives, Server!forwardSessionMessage
    <3> QED
      BY <1>7, <3>1, <3>2, <3>3, <3>4 DEF Server!forwardSessionMessage, PassedOn
  <2> QED
    BY <2>1, <2>2
<1> QED
  BY <1>4, <1>6, <1>7 DEF ServerReceives

\* What onDisconnected sends says peer-disconnected and nothing else.
Notified ==
    \A x \in Sockets :
        \/ toClient'[x] = toClient[x]
        \/ \E id \in Ids : toClient'[x] = Append(toClient[x], Msg("peer-disconnected", id, 0))

LEMMA Disconnects ==
    ASSUME Base, NEW s \in Sockets, ServerDisconnects(s)
    PROVE  toClient' \in [Sockets -> Seq(Message)] /\ Notified
<1>1. \A m \in out' : /\ m.from = None /\ m.type = "peer-disconnected"
                      /\ m.id = socket_to_session[s] /\ m.id \in Ids
  BY DEF ServerDisconnects, Server!onDisconnected, Server!TakenEndpoints, Server!HasSession
<1>2. ASSUME NEW x \in Sockets, \E m \in out' : m.to = x
      PROVE  LET m == CHOOSE m \in out' : m.to = x
             IN  Msg(m.type, m.id, IF m.from = None THEN 0 ELSE 0) = Msg("peer-disconnected", socket_to_session[s], 0)
                 /\ socket_to_session[s] \in Ids
  BY <1>1, <1>2
<1>3. \A x \in Sockets :
        \/ toClient'[x] = toClient[x]
        \/ /\ socket_to_session[s] \in Ids
           /\ toClient'[x] = Append(toClient[x], Msg("peer-disconnected", socket_to_session[s], 0))
  BY <1>2 DEF ServerDisconnects, Post
<1>4. \A id \in Ids : Msg("peer-disconnected", id, 0) \in Message
  BY BoundsAreNat DEF Message, Msg
<1>5. \A x \in Sockets : toClient'[x] \in Seq(Message)
  <2>1. \A x \in Sockets : toClient[x] \in Seq(Message)
    BY DEF Base, TypeOK
  <2> SUFFICES ASSUME NEW x \in Sockets PROVE toClient'[x] \in Seq(Message)
    OBVIOUS
  <2>2. CASE toClient'[x] = toClient[x]
    BY <2>1, <2>2
  <2>3. CASE /\ socket_to_session[s] \in Ids
             /\ toClient'[x] = Append(toClient[x], Msg("peer-disconnected", socket_to_session[s], 0))
    <3>1. Msg("peer-disconnected", socket_to_session[s], 0) \in Message
      BY <1>4, <2>3
    <3> QED
      BY <2>1, <2>3, <3>1, AppendFacts
  <2> QED
    BY <1>3, <2>2, <2>3
<1>6. toClient' = [x \in Sockets |-> toClient'[x]]
  BY DEF ServerDisconnects, Post
<1> QED
  BY <1>3, <1>5, <1>6 DEF Notified

-----------------------------------------------------------------------------
\* How each step changes the queues; the rest of TypeOK is read off the action.
LEMMA QueueTypes ==
    ASSUME TypeOK
    PROVE  /\ \A x \in Sockets, m \in Message : Append(toServer[x], m) \in Seq(Message)
           /\ \A x \in Sockets : toServer[x] # <<>> => Tail(toServer[x]) \in Seq(Message)
           /\ \A x \in Sockets : toClient[x] # <<>> =>
                 Tail(toClient[x]) \in Seq(Message) /\ Head(toClient[x]) \in Message
           /\ \A x \in Senders, m \in Message : Append(queued[x], m) \in Seq(Message)
           /\ \A x \in Senders : queued[x] # <<>> =>
                 Tail(queued[x]) \in Seq(Message) /\ Head(queued[x]) \in Message
<1>1. /\ \A x \in Sockets : toServer[x] \in Seq(Message) /\ toClient[x] \in Seq(Message)
      /\ \A x \in Senders : queued[x] \in Seq(Message)
  BY DEF TypeOK
<1> HIDE DEF TypeOK
<1> QED
  BY <1>1

LEMMA TypesKept ==
    ASSUME Base, ServerInv', [Next]_vars
    PROVE  TypeOK'
<1> USE DEF Base
<1>0. Server!TypeOK'
  BY DEF ServerInv
<1>1. \A s \in Senders : s \in Sockets
  BY DEF Sockets
<1>2. \A r \in Receivers : r \in Sockets
  BY DEF Sockets
<1>3. ASSUME NEW s \in Sockets, ServerReceives(s) PROVE TypeOK'
  <2>1. toServer' \in [Sockets -> Seq(Message)]
    BY <1>3, QueueTypes DEF ServerReceives, TypeOK
  <2>2. Head(toServer[s]) \in Message
    BY <1>3, TailFacts DEF ServerReceives, TypeOK
  <2>3. ASSUME NEW x \in Sockets, NEW m \in Message, Sent(x, m) PROVE toClient' \in [Sockets -> Seq(Message)]
    <3>1. Append(toClient[x], m) \in Seq(Message)
      BY AppendFacts DEF TypeOK
    <3> QED
      BY <2>3, <3>1 DEF Sent, TypeOK
  <2>4. Msg("error", NoId, 0) \in Message
    BY BoundsAreNat DEF Msg, Message, Server!Forwarded
  <2>5. \A id \in Ids, c \in 0..MaxClients : Msg("request", id, c) \in Message
    BY DEF Msg, Message
  <2>6. toClient' \in [Sockets -> Seq(Message)]
    <3>1. CASE Registered(s)
      BY <3>1 DEF Registered, TypeOK
    <3>2. CASE Refused(s)
      BY <3>2, <2>3, <2>4 DEF Refused
    <3>3. ASSUME NEW t \in Senders, Joined(s, t, Head(toServer[s]).id, Head(toServer[s]).client)
          PROVE  toClient' \in [Sockets -> Seq(Message)]
      <4>1. Head(toServer[s]).client \in 0..MaxClients /\ Head(toServer[s]).id \in Ids
        BY <3>3, <2>2 DEF Message, Joined
      <4> QED
        BY <3>3, <4>1, <1>1, <2>3, <2>5 DEF Joined
    <3>4. ASSUME NEW t \in Sockets, PassedOn(s, t, Head(toServer[s])) PROVE toClient' \in [Sockets -> Seq(Message)]
      BY <3>4, <2>2, <2>3 DEF PassedOn
    <3> QED
      BY <1>3, <3>1, <3>2, <3>3, <3>4, Receives
  <2> QED
    BY <1>0, <1>3, <2>1, <2>6 DEF ServerReceives, TypeOK, sender, receiver
<1>4. ASSUME NEW s \in Sockets, ServerAccepts(s) PROVE TypeOK'
  BY <1>0, <1>4 DEF ServerAccepts, TypeOK, sender, receiver
<1>5. ASSUME NEW s \in Sockets, ClientGoes(s) PROVE TypeOK'
  BY <1>0, <1>5 DEF ClientGoes, TypeOK, sender, receiver
<1>6. ASSUME NEW s \in Sockets, ServerDisconnects(s) PROVE TypeOK'
  <2>1. toServer' \in [Sockets -> Seq(Message)]
    BY <1>6 DEF ServerDisconnects, TypeOK
  <2> QED
    BY <1>0, <1>6, <2>1, Disconnects DEF ServerDisconnects, TypeOK, sender, receiver
<1>7. ASSUME NEW s \in Senders, SenderConnected(s) PROVE TypeOK'
  <2>1. Msg("sender-ready", NoId, 0) \in Message
    BY BoundsAreNat DEF Msg, Message
  <2> QED
    BY <1>0, <1>1, <1>7, <2>1, QueueTypes DEF SenderConnected, Send, TypeOK, sender, receiver, server
<1>8. ASSUME NEW s \in Senders, RequestFails(s) PROVE TypeOK'
  <2>1. Head(toClient[s]) \in Message /\ toClient[s] # <<>>
    BY <1>1, <1>8, QueueTypes DEF RequestFails, Received
  <2>2. Msg("error", Head(toClient[s]).id, 0) \in Message
    BY <2>1, BoundsAreNat DEF Msg, Message, Server!Forwarded
  <2>3. toServer' \in [Sockets -> Seq(Message)]
    <3>1. CASE UNCHANGED toServer
      BY <3>1 DEF TypeOK
    <3>2. CASE Send(s, Msg("error", Head(toClient[s]).id, 0))
      BY <1>0, <1>1, <2>2, <3>2, QueueTypes DEF Send, TypeOK
    <3> QED
      BY <1>8, <3>1, <3>2 DEF RequestFails
  <2>4. hung' \subseteq Senders
    BY <1>8 DEF RequestFails, MayHang, TypeOK
  <2> QED
    BY <1>0, <1>1, <1>8, <2>1, <2>3, <2>4, QueueTypes DEF RequestFails, Take, TypeOK, receiver, server
<1>9. ASSUME NEW s \in Senders, RequestServed(s) PROVE TypeOK'
  <2>1. Head(toClient[s]) \in Message /\ toClient[s] # <<>> /\ Head(toClient[s]).type = "request"
    BY <1>1, <1>9, QueueTypes DEF RequestServed, Received
  <2>2. Head(toClient[s]).id \in Ids /\ made + 1 \in PushClients /\ made + 1 \in 0..MaxClients
    <3>1. Head(toClient[s]) = toClient[s][1] /\ 1 \in DOMAIN toClient[s]
      BY <1>1, <2>1, TailFacts DEF TypeOK
    <3> QED
      BY <1>9, <2>1, <3>1, BoundsAreNat DEF RequestServed, Traffic, TypeOK, PushClients
  <2>3. clients' \in [Senders -> [Ids -> 0..MaxClients]]
    BY <1>9, <2>2 DEF RequestServed, TypeOK
  <2>4. offering' \subseteq Offers
    BY <1>9, <2>2 DEF RequestServed, TypeOK, Offers
  <2>5. hung' \subseteq Senders
    BY <1>9 DEF RequestServed, MayHang, TypeOK
  <2> QED
    BY <1>0, <1>1, <1>9, <2>1, <2>2, <2>3, <2>4, <2>5, QueueTypes DEF RequestServed, Take, TypeOK, receiver, server
<1>10. ASSUME NEW s \in Senders, SenderAnswer(s) PROVE TypeOK'
  <2>1. Head(toClient[s]) \in Message /\ toClient[s] # <<>> /\ Head(toClient[s]).type = "answer"
    BY <1>1, <1>10, QueueTypes DEF SenderAnswer, Received
  <2>2. Head(toClient[s]).client \in 0..MaxClients /\ Head(toClient[s]).id \in Ids
    <3>1. Head(toClient[s]) = toClient[s][1] /\ 1 \in DOMAIN toClient[s]
      BY <1>1, <2>1, TailFacts DEF TypeOK
    <3> QED
      BY <2>1, <3>1 DEF Traffic, Message
  <2>3. applied' \subseteq PushClients \X (0..MaxClients)
    BY <1>10, <2>2 DEF SenderAnswer, TypeOK, PushClients
  <2>4. toClient' \in [Sockets -> Seq(Message)]
    BY <1>1, <1>10, <2>1, QueueTypes DEF SenderAnswer, Take, TypeOK
  <2> QED
    BY <1>0, <1>10, <2>3, <2>4 DEF SenderAnswer, TypeOK, receiver, server
<1>11. ASSUME NEW s \in Senders, SenderCandidate(s) PROVE TypeOK'
  BY <1>0, <1>1, <1>11, QueueTypes DEF SenderCandidate, Received, Take, TypeOK, receiver, server
<1>12. ASSUME NEW s \in Senders, SenderIgnores(s) PROVE TypeOK'
  BY <1>0, <1>1, <1>12, QueueTypes DEF SenderIgnores, Received, Take, TypeOK, sender, receiver, server
<1>13. ASSUME NEW s \in Senders, RunQueued(s) PROVE TypeOK'
  <2>1. toServer' \in [Sockets -> Seq(Message)]
    <3>1. Append(toServer[s], Head(queued[s])) \in Seq(Message)
      BY <1>1, <1>13, QueueTypes DEF RunQueued
    <3>2. CASE Open(s)
      BY <1>13, <3>1, <3>2 DEF RunQueued, Send, TypeOK
    <3>3. CASE ~Open(s)
      BY <1>13, <3>3 DEF RunQueued, TypeOK
    <3> QED
      BY <3>2, <3>3
  <2>2. queued' \in [Senders -> Seq(Message)]
    BY <1>13, QueueTypes DEF RunQueued, TypeOK
  <2> QED
    BY <1>0, <1>13, <2>1, <2>2 DEF RunQueued, TypeOK, receiver, server
<1>14. ASSUME NEW s \in Senders, NEW id \in Ids, SenderIce(s, id) PROVE TypeOK'
  <2>1. clients[s][id] \in PushClients
    BY <1>14 DEF SenderIce, HasOffered, TypeOK, PushClients
  <2>2. Msg("candidate", id, clients[s][id]) \in Message
    BY <2>1 DEF Msg, Message, Server!Forwarded, PushClients
  <2>3. iceSent' \in [Receivers \cup PushClients -> 0..MaxIce]
    BY <1>14, <2>1, BoundsAreNat DEF SenderIce, TypeOK
  <2> QED
    BY <1>0, <1>1, <1>14, <2>2, <2>3, QueueTypes DEF SenderIce, TypeOK, receiver, server
<1>15. ASSUME NEW o \in Offers, OfferCreated(o) PROVE TypeOK'
  <2>1. OfferMessage(o) \in Message /\ o.by \in Senders
    BY DEF OfferMessage, Msg, Message, Server!Forwarded, Offers, PushClients
  <2> QED
    BY <1>0, <1>15, <2>1, QueueTypes DEF OfferCreated, TypeOK, receiver, server
<1>16. ASSUME NEW o \in Offers, OfferFails(o) PROVE TypeOK'
  BY <1>0, <1>16 DEF OfferFails, TypeOK, receiver, server, Offers
<1>17. ASSUME NEW r \in Receivers, PageRequests(r) PROVE TypeOK'
  <2>1. \A id \in Ids : Msg("request", id, 0) \in Message
    BY BoundsAreNat DEF Msg, Message
  <2> QED
    <3>1. toServer' \in [Sockets -> Seq(Message)]
      BY <1>2, <1>17, <2>1, QueueTypes DEF PageRequests, Send, TypeOK
    <3>2. page' \in [Receivers -> [id : Ids \cup {NoId}, answered : 0..MaxClients, told : BOOLEAN]]
      <4>1. PICK id \in Ids : page' = [page EXCEPT ![r].id = id]
        BY <1>17 DEF PageRequests
      <4>2. page \in [Receivers -> [id : Ids \cup {NoId}, answered : 0..MaxClients, told : BOOLEAN]]
        BY DEF TypeOK
      <4> QED
        BY <4>1, <4>2
    <3> QED
      BY <1>0, <1>2, <1>17, <3>1, <3>2 DEF PageRequests, TypeOK, sender, server
<1>18. ASSUME NEW r \in Receivers, PageOffer(r) PROVE TypeOK'
  <2> DEFINE c == Head(toClient[r]).client
  <2>1. Head(toClient[r]) \in Message /\ toClient[r] # <<>>
    BY <1>2, <1>18, QueueTypes DEF PageOffer, Received
  <2>2. c \in 0..MaxClients /\ page[r].id \in Ids \cup {NoId}
    BY <2>1 DEF Message, TypeOK
  <2>3. Msg("answer", page[r].id, c) \in Message
    BY <2>2 DEF Msg, Message, Server!Forwarded
  <2>4. PageAnswer(r, c) \in Seq(Message)
    BY <2>3 DEF PageAnswer
  <2>5. toServer[r] \o PageAnswer(r, c) \in Seq(Message)
    BY <1>2, <2>4 DEF TypeOK
  <2> QED
    BY <1>0, <1>2, <1>18, <2>1, <2>2, <2>5, QueueTypes DEF PageOffer, Take, TypeOK, sender, server
<1>19. ASSUME NEW r \in Receivers, PageCandidate(r) PROVE TypeOK'
  BY <1>0, <1>2, <1>19, QueueTypes DEF PageCandidate, Received, Take, TypeOK, sender, receiver, server
<1>20. ASSUME NEW r \in Receivers, PageTold(r) PROVE TypeOK'
  BY <1>0, <1>2, <1>20, QueueTypes DEF PageTold, Received, Take, TypeOK, sender, server
<1>21. ASSUME NEW r \in Receivers, PageIce(r) PROVE TypeOK'
  <2>1. Msg("candidate", page[r].id, page[r].answered) \in Message
    BY DEF Msg, Message, Server!Forwarded, TypeOK
  <2>2. iceSent' \in [Receivers \cup PushClients -> 0..MaxIce]
    BY <1>21, BoundsAreNat DEF PageIce, TypeOK
  <2> QED
    BY <1>0, <1>2, <1>21, <2>1, <2>2, QueueTypes DEF PageIce, Send, TypeOK, sender, receiver, server
<1>22. CASE UNCHANGED vars
  BY <1>0, <1>22 DEF vars, TypeOK, sender, receiver
<1> QED
  BY <1>3, <1>4, <1>5, <1>6, <1>7, <1>8, <1>9, <1>10, <1>11, <1>12, <1>13, <1>14, <1>15, <1>16, <1>17,
     <1>18, <1>19, <1>20, <1>21, <1>22 DEF Next, ServerStep, SenderReceives, OfferDone, PageReceives

-----------------------------------------------------------------------------
\* Only the server's answer to a forwarded offer ends the freshness of a page.
LEMMA FreshKept ==
    ASSUME NEW r \in Receivers, Fresh(r),
           socket_to_session'[r] = NoId, page'[r].answered = 0,
           \/ UNCHANGED toClient \/ toClient'[r] = toClient[r]
           \/ \A k \in DOMAIN toClient'[r] : toClient'[r][k].type # "offer"
    PROVE  Fresh(r)'
BY DEF Fresh

LEMMA PartsServerReceives ==
    ASSUME Base, TypeOK', NEW s \in Sockets, ServerReceives(s)
    PROVE  Parts'
<1> USE DEF Base
<1> DEFINE m == Head(toServer[s])
<1>1. /\ toServer[s] # <<>> /\ toServer' = [toServer EXCEPT ![s] = Tail(toServer[s])]
      /\ UNCHANGED <<said, page, queued, clients, applied>>
  BY DEF ServerReceives, sender, receiver
<1>2. /\ \A x \in Sockets : toServer[x] \in Seq(Message) /\ toClient[x] \in Seq(Message)
      /\ toServer \in [Sockets -> Seq(Message)] /\ toClient \in [Sockets -> Seq(Message)]
      /\ Senders \subseteq Sockets /\ Receivers \subseteq Sockets
  BY DEF TypeOK, Sockets
<1>3. m = toServer[s][1] /\ 1 \in DOMAIN toServer[s] /\ m \in Message
  BY <1>1, <1>2, TailFacts
<1>4. /\ \A k \in DOMAIN toServer'[s] : k + 1 \in DOMAIN toServer[s] /\ toServer'[s][k] = toServer[s][k + 1]
      /\ \A x \in Sockets : x # s => toServer'[x] = toServer[x]
      /\ Len(toServer'[s]) = Len(toServer[s]) - 1
  BY <1>1, <1>2, TailFacts
<1>5. ASSUME NEW x \in Sockets, NEW n \in Message, Sent(x, n)
      PROVE  /\ \A y \in Sockets : y # x => toClient'[y] = toClient[y]
             /\ \A y \in Sockets : \A k \in DOMAIN toClient'[y] :
                   (k \in DOMAIN toClient[y] /\ toClient'[y][k] = toClient[y][k]) \/ toClient'[y][k] = n
  <2>1. CASE Open(x)
    BY <1>2, <1>5, <2>1, AppendFacts DEF Sent
  <2>2. CASE ~Open(x)
    BY <1>2, <1>5, <2>2 DEF Sent
  <2> QED
    BY <2>1, <2>2
\* The queues to the senders, when a message is added that names an id or is an error.
<1>20. ASSUME NEW x \in Sockets, NEW n \in Message, Sent(x, n), n.id \in Ids \/ n.type = "error"
       PROVE  \A y \in Senders : \A k \in DOMAIN toClient'[y] :
                 toClient'[y][k].type \in {"request", "answer", "candidate"} => toClient'[y][k].id \in Ids
  <2> SUFFICES ASSUME NEW y \in Senders, NEW k \in DOMAIN toClient'[y],
                      toClient'[y][k].type \in {"request", "answer", "candidate"}
               PROVE  toClient'[y][k].id \in Ids
    OBVIOUS
  <2>1. (k \in DOMAIN toClient[y] /\ toClient'[y][k] = toClient[y][k]) \/ toClient'[y][k] = n
    BY <1>2, <1>5, <1>20
  <2> QED
    BY <1>20, <2>1 DEF Traffic
\* Nobody's freshness is lost by a message that is no offer.
<1>21. ASSUME NEW x \in Sockets, NEW n \in Message, Sent(x, n), n.type # "offer", NEW r \in Receivers, Fresh(r)
       PROVE  \A k \in DOMAIN toClient'[r] : toClient'[r][k].type # "offer"
  <2> SUFFICES ASSUME NEW k \in DOMAIN toClient'[r] PROVE toClient'[r][k].type # "offer"
    OBVIOUS
  <2>1. (k \in DOMAIN toClient[r] /\ toClient'[r][k] = toClient[r][k]) \/ toClient'[r][k] = n
    BY <1>2, <1>5, <1>21
  <2> QED
    BY <1>21, <2>1 DEF Fresh
<1>6. \* the parts of Traffic about the queues to the server
      /\ \A r \in Receivers : \A k \in DOMAIN toServer'[r] :
            /\ toServer'[r][k].type \in {"request", "answer", "candidate"}
            /\ toServer'[r][k].id = page'[r].id
      /\ \A x \in Senders : \A k \in DOMAIN toServer'[x] :
            toServer'[x][k].type \in {"sender-ready", "error", "offer", "candidate"}
      /\ \A x \in Senders : \A k \in DOMAIN queued'[x] : queued'[x][k].type \in {"offer", "candidate"}
  <2>1. ASSUME NEW x \in Sockets, NEW k \in DOMAIN toServer'[x]
        PROVE  \E j \in DOMAIN toServer[x] : toServer'[x][k] = toServer[x][j]
    BY <1>4, <2>1
  <2>2. ASSUME NEW r \in Receivers, NEW k \in DOMAIN toServer'[r]
        PROVE  /\ toServer'[r][k].type \in {"request", "answer", "candidate"}
               /\ toServer'[r][k].id = page'[r].id
    <3>1. PICK j \in DOMAIN toServer[r] : toServer'[r][k] = toServer[r][j]
      BY <1>2, <2>1, <2>2
    <3> QED
      BY <1>1, <3>1 DEF Traffic
  <2>3. ASSUME NEW x \in Senders, NEW k \in DOMAIN toServer'[x]
        PROVE  toServer'[x][k].type \in {"sender-ready", "error", "offer", "candidate"}
    <3>1. PICK j \in DOMAIN toServer[x] : toServer'[x][k] = toServer[x][j]
      BY <1>2, <2>1, <2>3
    <3> QED
      BY <3>1 DEF Traffic
  <2> QED
    BY <1>1, <2>2, <2>3 DEF Traffic
<1>7. \A r \in Receivers : r \in said' => page'[r].id \in Ids
  BY <1>1 DEF AsksOnce
<1>8. \A r \in Receivers : \A k \in DOMAIN toServer'[r] :
          toServer'[r][k].type = "request" => r # s /\ Len(toServer'[r]) = 1 /\ Fresh(r)
  <2> SUFFICES ASSUME NEW r \in Receivers, NEW k \in DOMAIN toServer'[r], toServer'[r][k].type = "request"
               PROVE  r # s /\ Len(toServer'[r]) = 1 /\ Fresh(r)
    OBVIOUS
  <2>1. r # s
    <3> SUFFICES ASSUME r = s PROVE FALSE
      OBVIOUS
    <3>1. k + 1 \in DOMAIN toServer[r] /\ toServer[r][k + 1].type = "request"
      BY <1>4
    <3>2. Len(toServer[r]) = 1
      BY <3>1 DEF AsksOnce
    <3> QED
      BY <1>2, <1>4, <3>1, <3>2
  <2> QED
    BY <1>2, <1>4, <2>1 DEF AsksOnce
<1>9. \A r \in Receivers : r \notin said' =>
          r # s /\ Fresh(r) /\ toServer'[r] = <<>> /\ page'[r].id = NoId
  BY <1>1, <1>2, <1>4 DEF AsksOnce
<1>10. CASE Registered(s)
  <2>1. \A r \in Receivers : Fresh(r) => Fresh(r)'
    BY <1>1, <1>10, FreshKept DEF Registered, Fresh
  <2>2. Traffic'
    BY <1>6, <1>10 DEF Registered, Traffic
  <2>3. AsksOnce'
    BY <1>7, <1>8, <1>9, <2>1 DEF AsksOnce
  <2>4. SessionsFit'
    BY <1>1, <1>10 DEF Registered, SessionsFit, Server!HasSession
  <2> QED
    BY <2>2, <2>3, <2>4 DEF Parts
<1>11. CASE m.type # "sender-ready" /\ Refused(s)
  <2>1. Msg("error", NoId, 0) \in Message
    BY BoundsAreNat DEF Msg, Message, Server!Forwarded
  <2>2. Sent(s, Msg("error", NoId, 0))
    BY <1>11 DEF Refused
  <2>3. \A r \in Receivers : Fresh(r) => Fresh(r)'
    <3>1. Msg("error", NoId, 0).type # "offer"
      BY DEF Msg
    <3> QED
      BY <1>1, <1>11, <1>21, <2>1, <2>2, <3>1 DEF Refused, Fresh
  <2>4. Traffic'
    <3>1. Msg("error", NoId, 0).type = "error"
      BY DEF Msg
    <3> QED
      BY <1>6, <1>11, <1>20, <2>1, <2>2, <3>1 DEF Refused, Traffic
  <2>5. AsksOnce'
    BY <1>7, <1>8, <1>9, <2>3 DEF AsksOnce
  <2>6. SessionsFit'
    BY <1>1, <1>11 DEF Refused, SessionsFit, Server!HasSession
  <2> QED
    BY <2>4, <2>5, <2>6 DEF Parts
<1>12. ASSUME NEW t \in Senders, m.type = "request", Joined(s, t, m.id, m.client) PROVE Parts'
  <2>1. Msg("request", m.id, m.client) \in Message /\ t \in Sockets
    BY <1>2, <1>3 DEF Msg, Message
  <2>2. Sent(t, Msg("request", m.id, m.client)) /\ s \in Receivers /\ m.id \in Ids /\ page[s].id = m.id
    BY <1>12 DEF Joined
  <2>3. \A r \in Receivers : toClient'[r] = toClient[r]
    BY <1>2, <1>5, <2>1, <2>2, DisjointRoles
  <2>4. \A r \in Receivers : r # s => socket_to_session'[r] = socket_to_session[r]
    BY <1>2, <1>12, DisjointRoles DEF Joined, TypeOK, Server!TypeOK, Server!Sockets, Sockets
  <2>5. \A r \in Receivers : r # s /\ Fresh(r) => Fresh(r)'
    BY <1>1, <2>3, <2>4 DEF Fresh
  <2>6. Traffic'
    <3>1. Msg("request", m.id, m.client).id \in Ids
      BY <2>2 DEF Msg
    <3> QED
      BY <1>6, <1>12, <1>20, <2>1, <2>2, <3>1 DEF Joined, Traffic
  <2>7. AsksOnce'
    BY <1>7, <1>8, <1>9, <2>5 DEF AsksOnce
  <2>8. SessionsFit'
    <3> SUFFICES ASSUME NEW id \in Ids, Server!HasSession(id)'
                 PROVE  /\ sessions'[id].sender \in Senders /\ sessions'[id].receiver \in Receivers
                        /\ page'[sessions'[id].receiver].id = id
      BY DEF SessionsFit
    <3>1. CASE id = m.id
      BY <1>1, <1>12, <2>2, <3>1 DEF Joined, TypeOK, Server!TypeOK
    <3>2. CASE id # m.id
      <4>1. sessions'[id] = sessions[id] /\ Server!HasSession(id)
        BY <1>12, <3>2 DEF Joined, TypeOK, Server!TypeOK, Server!HasSession
      <4> QED
        BY <1>1, <4>1 DEF SessionsFit
    <3> QED
      BY <3>1, <3>2
  <2> QED
    BY <2>6, <2>7, <2>8 DEF Parts
<1>13. ASSUME NEW t \in Sockets, PassedOn(s, t, m) PROVE Parts'
  <2>1. Sent(t, m) /\ m.id \in Ids /\ socket_to_session[t] = m.id /\ m.id # NoId
    BY <1>13, SessionEnds, Sentinels DEF PassedOn
  <2>2. \A r \in Receivers : Fresh(r) => Fresh(r)'
    <3> SUFFICES ASSUME NEW r \in Receivers, Fresh(r) PROVE Fresh(r)'
      OBVIOUS
    <3>1. r # t
      BY <2>1 DEF Fresh
    <3>2. toClient'[r] = toClient[r]
      BY <1>2, <1>3, <1>5, <2>1, <3>1
    <3> QED
      BY <1>1, <1>13, <3>2 DEF PassedOn, Fresh
  <2>3. Traffic'
    BY <1>3, <1>6, <1>13, <1>20, <2>1 DEF PassedOn, Traffic
  <2>4. AsksOnce'
    BY <1>7, <1>8, <1>9, <2>2 DEF AsksOnce
  <2>5. SessionsFit'
    BY <1>1, <1>13 DEF PassedOn, SessionsFit, Server!HasSession
  <2> QED
    BY <2>3, <2>4, <2>5 DEF Parts
<1> QED
  BY <1>10, <1>11, <1>12, <1>13, Receives

LEMMA PartsServerOther ==
    ASSUME Base, TypeOK', NEW s \in Sockets, ServerAccepts(s) \/ ClientGoes(s) \/ ServerDisconnects(s)
    PROVE  Parts'
<1> USE DEF Base
<1>1. Senders \subseteq Sockets /\ Receivers \subseteq Sockets
  BY DEF Sockets
<1>2. CASE ServerAccepts(s)
  <2>1. UNCHANGED <<ready_senders, sessions, socket_to_session, toServer, toClient, said, page, queued>>
    BY <1>2 DEF ServerAccepts, Server!onNewConnection, sender, receiver
  <2> QED
    BY <2>1 DEF Parts, Traffic, AsksOnce, Fresh, SessionsFit, Server!HasSession
<1>3. CASE ClientGoes(s)
  <2>1. UNCHANGED <<ready_senders, sessions, socket_to_session, toServer, said, page, queued>>
    BY <1>3 DEF ClientGoes, Server!PeerCloses, sender, receiver
  <2>2. \A x \in Sockets : toClient'[x] = toClient[x] \/ toClient'[x] = <<>>
    BY <1>3 DEF ClientGoes, TypeOK
  <2>3. Traffic'
    BY <1>1, <2>1, <2>2 DEF Traffic
  <2>4. \A r \in Receivers : Fresh(r) => Fresh(r)'
    BY <1>1, <2>1, <2>2 DEF Fresh
  <2>5. AsksOnce'
    BY <2>1, <2>4 DEF AsksOnce
  <2>6. SessionsFit'
    BY <2>1 DEF SessionsFit, Server!HasSession
  <2> QED
    BY <2>3, <2>5, <2>6 DEF Parts
<1>4. CASE ServerDisconnects(s)
  <2>1. UNCHANGED <<said, page, queued>>
    BY <1>4 DEF ServerDisconnects, sender, receiver
  <2>2. \A x \in Sockets : toServer'[x] = toServer[x] \/ toServer'[x] = <<>>
    BY <1>4 DEF ServerDisconnects, TypeOK
  <2>3. \A x \in Sockets : \A k \in DOMAIN toClient'[x] :
            (k \in DOMAIN toClient[x] /\ toClient'[x][k] = toClient[x][k])
            \/ toClient'[x][k].type = "peer-disconnected"
    <3> SUFFICES ASSUME NEW x \in Sockets
                 PROVE  \A k \in DOMAIN toClient'[x] :
                            (k \in DOMAIN toClient[x] /\ toClient'[x][k] = toClient[x][k])
                            \/ toClient'[x][k].type = "peer-disconnected"
      OBVIOUS
    <3>1. toClient[x] \in Seq(Message)
      BY DEF TypeOK
    <3>2. ASSUME NEW id \in Ids, toClient'[x] = Append(toClient[x], Msg("peer-disconnected", id, 0))
          PROVE  \A k \in DOMAIN toClient'[x] :
                    (k \in DOMAIN toClient[x] /\ toClient'[x][k] = toClient[x][k])
                    \/ toClient'[x][k].type = "peer-disconnected"
      <4>1. Msg("peer-disconnected", id, 0) \in Message
        BY BoundsAreNat DEF Msg, Message
      <4> QED
        BY <3>1, <3>2, <4>1, AppendFacts DEF Msg
    <3> QED
      BY <1>4, <3>2, Disconnects DEF Notified
  <2>4. ready_senders' \subseteq Senders
    BY <1>4 DEF ServerDisconnects, Server!onDisconnected, Traffic
  <2>5. Traffic'
    BY <1>1, <2>1, <2>2, <2>3, <2>4 DEF Traffic
  <2>6. \A x \in Sockets : socket_to_session'[x] \in {NoId, socket_to_session[x]}
    BY <1>4 DEF ServerDisconnects, Server!onDisconnected, Server!Sockets, Sockets
  <2>7. \A r \in Receivers : Fresh(r) => Fresh(r)'
    BY <1>1, <2>1, <2>3, <2>6 DEF Fresh
  <2>8. AsksOnce'
    BY <1>1, <2>1, <2>2, <2>7 DEF AsksOnce
  <2>9. \A id \in Ids : Server!HasSession(id)' => sessions'[id] = sessions[id] /\ Server!HasSession(id)
    BY <1>4 DEF ServerDisconnects, Server!onDisconnected, Server!HasSession
  <2>10. SessionsFit'
    BY <2>1, <2>9 DEF SessionsFit
  <2> QED
    BY <2>5, <2>8, <2>10 DEF Parts
<1> QED
  BY <1>2, <1>3, <1>4

\* A sender takes messages and adds to its own queues.
LEMMA PartsSenderSide ==
    ASSUME Base, TypeOK', server' = server, page' = page,
           \A r \in Receivers : r \in said' <=> r \in said,
           \A r \in Receivers : toClient'[r] = toClient[r] /\ toServer'[r] = toServer[r],
           \A s \in Senders : \A k \in DOMAIN toClient'[s] :
              \E j \in DOMAIN toClient[s] : toClient'[s][k] = toClient[s][j],
           \A s \in Senders : \A k \in DOMAIN toServer'[s] :
              \/ \E j \in DOMAIN toServer[s] : toServer'[s][k] = toServer[s][j]
              \/ toServer'[s][k].type \in {"sender-ready", "error", "offer", "candidate"},
           \A s \in Senders : \A k \in DOMAIN queued'[s] :
              \/ \E j \in DOMAIN queued[s] : queued'[s][k] = queued[s][j]
              \/ queued'[s][k].type \in {"offer", "candidate"}
    PROVE  Parts'
<1> USE DEF Base
<1>1. UNCHANGED <<ready_senders, sessions, socket_to_session>>
  BY DEF server
<1>2. \A s \in Senders : \A k \in DOMAIN toClient'[s] :
         toClient'[s][k].type \in {"request", "answer", "candidate"} => toClient'[s][k].id \in Ids
  BY DEF Traffic
<1>3. \A s \in Senders : \A k \in DOMAIN toServer'[s] :
         toServer'[s][k].type \in {"sender-ready", "error", "offer", "candidate"}
  BY DEF Traffic
<1>4. \A s \in Senders : \A k \in DOMAIN queued'[s] : queued'[s][k].type \in {"offer", "candidate"}
  BY DEF Traffic
<1>5. Traffic'
  BY <1>1, <1>2, <1>3, <1>4 DEF Traffic
<1>6. \A r \in Receivers : Fresh(r) => Fresh(r)'
  BY <1>1 DEF Fresh
<1>7. AsksOnce'
  BY <1>6 DEF AsksOnce
<1>8. SessionsFit'
  BY <1>1 DEF SessionsFit, Server!HasSession
<1> QED
  BY <1>5, <1>7, <1>8 DEF Parts

\* A page takes messages, answers under its id, and keeps its id once it has asked.
LEMMA PartsPageSide ==
    ASSUME Base, TypeOK', server' = server, NEW r \in Receivers, r \in said, UNCHANGED <<said, queued>>,
           \A q \in Receivers : page'[q].id = page[q].id,
           \A x \in Sockets \ {r} : toClient'[x] = toClient[x] /\ toServer'[x] = toServer[x],
           \A q \in Receivers \ {r} : page'[q] = page[q],
           \A k \in DOMAIN toClient'[r] : \E j \in DOMAIN toClient[r] : toClient'[r][k] = toClient[r][j],
           \/ toServer'[r] = toServer[r] /\ (Fresh(r) => page'[r].answered = 0)
           \/ ~Fresh(r) /\ \A k \in DOMAIN toServer'[r] :
              \/ \E j \in DOMAIN toServer[r] : toServer'[r][k] = toServer[r][j]
              \/ toServer'[r][k].type \in {"answer", "candidate"} /\ toServer'[r][k].id = page[r].id
    PROVE  Parts'
<1> USE DEF Base
<1>1. UNCHANGED <<ready_senders, sessions, socket_to_session>>
  BY DEF server
<1>2. /\ \A s \in Senders : toClient'[s] = toClient[s] /\ toServer'[s] = toServer[s]
      /\ \A q \in Receivers : q # r => toClient'[q] = toClient[q] /\ toServer'[q] = toServer[q]
  BY DisjointRoles DEF Sockets
<1>3. \A q \in Receivers : \A k \in DOMAIN toServer'[q] :
          /\ toServer'[q][k].type \in {"request", "answer", "candidate"}
          /\ toServer'[q][k].id = page'[q].id
  BY <1>2 DEF Traffic
<1>4. Traffic'
  BY <1>1, <1>2, <1>3 DEF Traffic
<1>5. \A q \in Receivers : q # r /\ Fresh(q) => Fresh(q)'
  BY <1>1, <1>2 DEF Fresh
<1>6. Fresh(r) => Fresh(r)' /\ toServer'[r] = toServer[r]
  BY <1>1 DEF Fresh
<1>7. ~Fresh(r) => \A k \in DOMAIN toServer'[r] : toServer'[r][k].type # "request"
  BY DEF AsksOnce
<1>8. AsksOnce'
  BY <1>2, <1>5, <1>6, <1>7 DEF AsksOnce
<1>9. SessionsFit'
  BY <1>1 DEF SessionsFit, Server!HasSession
<1> QED
  BY <1>4, <1>8, <1>9 DEF Parts

LEMMA PartsKept ==
    ASSUME Base, TypeOK', [Next]_vars
    PROVE  Parts'
<1>0. /\ \A x \in Sockets : toServer[x] \in Seq(Message) /\ toClient[x] \in Seq(Message)
      /\ \A x \in Senders : queued[x] \in Seq(Message) /\ x \in Sockets /\ x \notin Receivers
      /\ \A x \in Receivers : x \in Sockets
      /\ toServer \in [Sockets -> Seq(Message)] /\ toClient \in [Sockets -> Seq(Message)]
      /\ queued \in [Senders -> Seq(Message)]
      /\ \A x \in Sockets : x \in said <=> x \in said
  BY DisjointRoles DEF Base, TypeOK, Sockets
\* Taking the first message of a queue leaves what was there.
<1>1. ASSUME NEW s \in Sockets, toClient[s] # <<>>, Take(s)
      PROVE  /\ \A x \in Sockets : x # s => toClient'[x] = toClient[x]
             /\ \A x \in Sockets : \A k \in DOMAIN toClient'[x] :
                   \E j \in DOMAIN toClient[x] : toClient'[x][k] = toClient[x][j]
  <2>1. toClient'[s] = Tail(toClient[s]) /\ \A x \in Sockets : x # s => toClient'[x] = toClient[x]
    BY <1>0, <1>1 DEF Take
  <2>2. \A k \in DOMAIN toClient'[s] : \E j \in DOMAIN toClient[s] : toClient'[s][k] = toClient[s][j]
    BY <1>0, <1>1, <2>1, TailFacts
  <2> QED
    BY <2>1, <2>2
<1>2. ASSUME NEW s \in Sockets, NEW m \in Message, Send(s, m)
      PROVE  /\ \A x \in Sockets : x # s => toServer'[x] = toServer[x]
             /\ \A k \in DOMAIN toServer'[s] :
                   (\E j \in DOMAIN toServer[s] : toServer'[s][k] = toServer[s][j]) \/ toServer'[s][k] = m
  BY <1>0, <1>2, AppendFacts DEF Send
<1>3. ASSUME NEW s \in Senders, NEW m \in Message, queued' = [queued EXCEPT ![s] = Append(@, m)],
             m.type \in {"offer", "candidate"}
      PROVE  \A x \in Senders : \A k \in DOMAIN queued'[x] :
                (\E j \in DOMAIN queued[x] : queued'[x][k] = queued[x][j])
                \/ queued'[x][k].type \in {"offer", "candidate"}
  <2>1. \A k \in DOMAIN queued'[s] :
            (\E j \in DOMAIN queued[s] : queued'[s][k] = queued[s][j]) \/ queued'[s][k] = m
    BY <1>0, <1>3, AppendFacts
  <2>2. \A x \in Senders : x # s => queued'[x] = queued[x]
    BY <1>0, <1>3
  <2> QED
    BY <1>3, <2>1, <2>2
<1>4. ASSUME NEW s \in Senders, SenderConnected(s) PROVE Parts'
  <2>1. Msg("sender-ready", NoId, 0) \in Message
    BY BoundsAreNat DEF Msg, Message
  <2>2. /\ \A x \in Sockets : x # s => toServer'[x] = toServer[x]
        /\ \A k \in DOMAIN toServer'[s] :
              (\E j \in DOMAIN toServer[s] : toServer'[s][k] = toServer[s][j])
              \/ toServer'[s][k].type = "sender-ready"
    <3>1. Msg("sender-ready", NoId, 0).type = "sender-ready" /\ Send(s, Msg("sender-ready", NoId, 0))
      BY <1>4 DEF SenderConnected, Msg
    <3> QED
      BY <1>0, <1>2, <2>1, <3>1
  <2>3. /\ server' = server /\ page' = page /\ UNCHANGED <<toClient, queued>>
        /\ said' = said \cup {s}
    BY <1>4 DEF SenderConnected, sender, receiver
  <2> QED
    BY <1>0, <2>2, <2>3, PartsSenderSide
<1>5. ASSUME NEW s \in Senders, RequestFails(s) PROVE Parts'
  <2>1. Head(toClient[s]) \in Message /\ toClient[s] # <<>>
    BY <1>0, <1>5, TailFacts DEF RequestFails, Received
  <2>2. Msg("error", Head(toClient[s]).id, 0) \in Message
    BY <2>1, BoundsAreNat DEF Msg, Message, Server!Forwarded
  <2>3. /\ \A x \in Sockets : x # s => toServer'[x] = toServer[x]
        /\ \A k \in DOMAIN toServer'[s] :
              (\E j \in DOMAIN toServer[s] : toServer'[s][k] = toServer[s][j])
              \/ toServer'[s][k].type = "error"
    <3>1. Msg("error", Head(toClient[s]).id, 0).type = "error"
      BY DEF Msg
    <3>2. CASE UNCHANGED toServer
      BY <3>2
    <3>3. CASE Send(s, Msg("error", Head(toClient[s]).id, 0))
      BY <1>0, <1>2, <2>2, <3>1, <3>3
    <3> QED
      BY <1>5, <3>2, <3>3 DEF RequestFails
  <2>4. /\ server' = server /\ page' = page /\ UNCHANGED <<said, queued>> /\ Take(s)
    BY <1>5 DEF RequestFails, sender, receiver
  <2> QED
    BY <1>0, <1>1, <2>1, <2>3, <2>4, PartsSenderSide
<1>6. ASSUME NEW s \in Senders,
             RequestServed(s) \/ SenderAnswer(s) \/ SenderCandidate(s) \/ SenderIgnores(s)
      PROVE  Parts'
  <2>1. toClient[s] # <<>> /\ Take(s)
    BY <1>6 DEF RequestServed, SenderAnswer, SenderCandidate, SenderIgnores, Received
  <2>2. server' = server /\ page' = page /\ UNCHANGED <<toServer, said, queued>>
    BY <1>6 DEF RequestServed, SenderAnswer, SenderCandidate, SenderIgnores, sender, receiver
  <2> QED
    BY <1>0, <1>1, <2>1, <2>2, PartsSenderSide
<1>7. ASSUME NEW s \in Senders, RunQueued(s) PROVE Parts'
  <2>1. queued[s] # <<>> /\ queued' = [queued EXCEPT ![s] = Tail(@)]
        /\ server' = server /\ page' = page /\ UNCHANGED <<toClient, said>>
    BY <1>7 DEF RunQueued, receiver
  <2>2. Head(queued[s]) \in Message /\ Head(queued[s]).type \in {"offer", "candidate"}
    BY <1>0, <2>1, TailFacts DEF Base, Traffic
  <2>3. /\ \A x \in Sockets : x # s => toServer'[x] = toServer[x]
        /\ \A k \in DOMAIN toServer'[s] :
              (\E j \in DOMAIN toServer[s] : toServer'[s][k] = toServer[s][j])
              \/ toServer'[s][k].type \in {"offer", "candidate"}
    <3>1. CASE Open(s)
      <4>1. Send(s, Head(queued[s])) /\ s \in Sockets
        BY <1>0, <1>7, <3>1 DEF RunQueued
      <4> QED
        BY <1>2, <2>2, <4>1
    <3>2. CASE ~Open(s)
      BY <1>7, <3>2 DEF RunQueued
    <3> QED
      BY <3>1, <3>2
  <2>4. \A k \in DOMAIN queued'[s] : \E j \in DOMAIN queued[s] : queued'[s][k] = queued[s][j]
    BY <1>0, <2>1, TailFacts
  <2>5. \A x \in Senders : \A k \in DOMAIN queued'[x] :
            \E j \in DOMAIN queued[x] : queued'[x][k] = queued[x][j]
    <3>1. \A x \in Senders : x # s => queued'[x] = queued[x]
      BY <1>0, <2>1
    <3> QED
      BY <2>4, <3>1
  <2>6. \A x \in Senders : \A k \in DOMAIN toServer'[x] :
            \/ \E j \in DOMAIN toServer[x] : toServer'[x][k] = toServer[x][j]
            \/ toServer'[x][k].type \in {"sender-ready", "error", "offer", "candidate"}
    BY <1>0, <2>3
  <2>7. \A r \in Receivers : toClient'[r] = toClient[r] /\ toServer'[r] = toServer[r]
    BY <1>0, <2>1, <2>3
  <2>8. \A x \in Senders : \A k \in DOMAIN toClient'[x] :
            \E j \in DOMAIN toClient[x] : toClient'[x][k] = toClient[x][j]
    BY <2>1
  <2> QED
    BY <2>1, <2>5, <2>6, <2>7, <2>8, PartsSenderSide
<1>8. ASSUME NEW s \in Senders, NEW id \in Ids, SenderIce(s, id) PROVE Parts'
  <2>1. clients[s][id] \in 0..MaxClients
    BY DEF Base, TypeOK
  <2>2. Msg("candidate", id, clients[s][id]) \in Message /\ Msg("candidate", id, clients[s][id]).type = "candidate"
    BY <2>1 DEF Msg, Message, Server!Forwarded
  <2>3. server' = server /\ page' = page /\ UNCHANGED <<toServer, toClient, said>>
        /\ queued' = [queued EXCEPT ![s] = Append(@, Msg("candidate", id, clients[s][id]))]
    BY <1>8 DEF SenderIce, receiver
  <2> QED
    BY <1>0, <1>3, <2>2, <2>3, PartsSenderSide
<1>9. ASSUME NEW o \in Offers, OfferCreated(o) PROVE Parts'
  <2>1. OfferMessage(o) \in Message /\ OfferMessage(o).type = "offer" /\ o.by \in Senders
    BY DEF OfferMessage, Msg, Message, Server!Forwarded, Offers, PushClients
  <2>2. server' = server /\ page' = page /\ UNCHANGED <<toServer, toClient, said>>
        /\ queued' = [queued EXCEPT ![o.by] = Append(@, OfferMessage(o))]
    BY <1>9 DEF OfferCreated, receiver
  <2> QED
    BY <1>0, <1>3, <2>1, <2>2, PartsSenderSide
<1>10. ASSUME NEW o \in Offers, OfferFails(o) PROVE Parts'
  BY <1>0, <1>10, PartsSenderSide DEF OfferFails, receiver
<1>11. ASSUME NEW r \in Receivers, PageRequests(r) PROVE Parts'
  <2>1. PICK id \in Ids : page' = [page EXCEPT ![r].id = id] /\ Send(r, Msg("request", id, 0))
    BY <1>11 DEF PageRequests
  <2>2. Msg("request", id, 0) \in Message /\ Msg("request", id, 0).type = "request" /\ Msg("request", id, 0).id = id
    BY BoundsAreNat DEF Msg, Message
  <2>3. r \notin said /\ said' = said \cup {r} /\ UNCHANGED <<toClient, queued>>
        /\ UNCHANGED <<ready_senders, sessions, socket_to_session>>
    BY <1>11 DEF PageRequests, server, sender
  <2>4. Fresh(r) /\ toServer[r] = <<>>
    BY <2>3 DEF Base, AsksOnce
  <2>5. page'[r].id = id /\ page'[r].answered = page[r].answered
        /\ \A q \in Receivers : q # r => page'[q] = page[q]
    BY <2>1 DEF Base, TypeOK
  <2>6. /\ \A x \in Sockets : x # r => toServer'[x] = toServer[x]
        /\ toServer'[r] = <<Msg("request", id, 0)>>
    BY <1>0, <2>1, <2>4 DEF Send
  <2>7. \A q \in Receivers : Fresh(q) => Fresh(q)'
    BY <2>3, <2>5 DEF Fresh
  <2>8. \A q \in Receivers : \A k \in DOMAIN toServer'[q] :
            /\ toServer'[q][k].type \in {"request", "answer", "candidate"}
            /\ toServer'[q][k].id = page'[q].id
    <3> SUFFICES ASSUME NEW q \in Receivers, NEW k \in DOMAIN toServer'[q]
                 PROVE  /\ toServer'[q][k].type \in {"request", "answer", "candidate"}
                        /\ toServer'[q][k].id = page'[q].id
      OBVIOUS
    <3>1. CASE q = r
      <4>1. toServer'[q][k] = Msg("request", id, 0)
        BY <2>6, <3>1
      <4> QED
        BY <2>2, <2>5, <3>1, <4>1
    <3>2. CASE q # r
      <4>1. toServer'[q] = toServer[q] /\ page'[q] = page[q]
        BY <1>0, <2>5, <2>6, <3>2
      <4> QED
        BY <4>1 DEF Base, Traffic
    <3> QED
      BY <3>1, <3>2
  <2>9. Traffic'
    BY <1>0, <2>3, <2>6, <2>8 DEF Base, Traffic
  <2>10. Len(toServer'[r]) = 1
    BY <2>6
  <2>11. AsksOnce'
    BY <1>0, <2>3, <2>4, <2>5, <2>6, <2>7, <2>10 DEF Base, AsksOnce
  <2>12. SessionsFit'
    <3> SUFFICES ASSUME NEW i \in Ids, Server!HasSession(i)
                 PROVE  /\ sessions[i].sender \in Senders /\ sessions[i].receiver \in Receivers
                        /\ page'[sessions[i].receiver].id = i
      BY <2>3 DEF SessionsFit, Server!HasSession
    <3>1. sessions[i].receiver # r
      BY <2>4, SessionEnds, Sentinels DEF Fresh
    <3> QED
      BY <2>5, <3>1, SessionEnds
  <2> QED
    BY <2>9, <2>11, <2>12 DEF Parts
<1>12. ASSUME NEW r \in Receivers, Received(r, "offer") \/ page[r].answered # 0
       PROVE  r \in said /\ ~Fresh(r)
  <2>1. ~Fresh(r)
    <3>1. CASE page[r].answered # 0
      BY <3>1 DEF Fresh
    <3>2. CASE Received(r, "offer")
      BY <1>0, <3>2, TailFacts DEF Received, Fresh
    <3> QED
      BY <1>12, <3>1, <3>2
  <2> QED
    BY <2>1 DEF Base, AsksOnce
<1>13. ASSUME NEW r \in Receivers, PageOffer(r) PROVE Parts'
  <2> DEFINE c == Head(toClient[r]).client
  <2>1. toClient[r] # <<>> /\ Received(r, "offer") /\ Take(r)
    BY <1>13 DEF PageOffer, Received
  <2>2. r \in said /\ ~Fresh(r)
    BY <1>12, <2>1
  <2>3. server' = server /\ UNCHANGED <<said, queued>>
        /\ page' = [page EXCEPT ![r].answered = c]
        /\ toServer' = [toServer EXCEPT ![r] = @ \o <<Msg("answer", page[r].id, c)>>]
    BY <1>13 DEF PageOffer, PageAnswer, sender
  <2>4. Msg("answer", page[r].id, c) \in Message
    <3>1. Head(toClient[r]) \in Message
      BY <1>0, <2>1, TailFacts
    <3>2. page[r].id \in Ids \cup {NoId}
      BY DEF Base, TypeOK
    <3> QED
      BY <3>1, <3>2 DEF Msg, Message, Server!Forwarded
  <2>5. \A k \in DOMAIN toServer'[r] :
            \/ \E j \in DOMAIN toServer[r] : toServer'[r][k] = toServer[r][j]
            \/ toServer'[r][k] = Msg("answer", page[r].id, c)
    BY <1>0, <2>3, <2>4
  <2>6. \A k \in DOMAIN toServer'[r] :
            \/ \E j \in DOMAIN toServer[r] : toServer'[r][k] = toServer[r][j]
            \/ toServer'[r][k].type \in {"answer", "candidate"} /\ toServer'[r][k].id = page[r].id
    BY <2>5 DEF Msg
  <2>7. /\ \A q \in Receivers : page'[q].id = page[q].id
        /\ \A q \in Receivers \ {r} : page'[q] = page[q]
    BY <2>3 DEF Base, TypeOK
  <2>8. \A x \in Sockets \ {r} : toClient'[x] = toClient[x] /\ toServer'[x] = toServer[x]
    BY <1>0, <1>1, <2>1, <2>3
  <2>9. \A k \in DOMAIN toClient'[r] : \E j \in DOMAIN toClient[r] : toClient'[r][k] = toClient[r][j]
    BY <1>0, <1>1, <2>1
  <2> QED
    BY <2>2, <2>3, <2>6, <2>7, <2>8, <2>9, PartsPageSide
<1>14. ASSUME NEW r \in Receivers, PageIce(r) PROVE Parts'
  <2>1. page[r].answered # 0 /\ server' = server /\ UNCHANGED <<toClient, said, queued, page>>
        /\ Send(r, Msg("candidate", page[r].id, page[r].answered))
    BY <1>14 DEF PageIce, sender, receiver
  <2>2. r \in said /\ ~Fresh(r)
    BY <1>12, <2>1
  <2>3. Msg("candidate", page[r].id, page[r].answered) \in Message
    BY DEF Msg, Message, Server!Forwarded, Base, TypeOK
  <2>4. \A k \in DOMAIN toServer'[r] :
            \/ \E j \in DOMAIN toServer[r] : toServer'[r][k] = toServer[r][j]
            \/ toServer'[r][k].type \in {"answer", "candidate"} /\ toServer'[r][k].id = page[r].id
    BY <1>0, <1>2, <2>1, <2>3 DEF Msg
  <2> QED
    BY <1>0, <1>2, <2>1, <2>2, <2>3, <2>4, PartsPageSide
<1>15. ASSUME NEW r \in Receivers, PageCandidate(r) \/ PageTold(r) PROVE Parts'
  <2>1. toClient[r] # <<>> /\ Take(r) /\ server' = server /\ UNCHANGED <<toServer, said, queued>>
        /\ (page' = page \/ page' = [page EXCEPT ![r].told = TRUE])
    BY <1>15 DEF PageCandidate, PageTold, Received, sender, receiver
  <2>2. UNCHANGED <<ready_senders, sessions, socket_to_session>>
    BY <2>1 DEF server
  <2>3. \A q \in Receivers : page'[q].id = page[q].id /\ page'[q].answered = page[q].answered
    BY <2>1 DEF Base, TypeOK
  <2>4. \A x \in Sockets : \A k \in DOMAIN toClient'[x] :
            \E j \in DOMAIN toClient[x] : toClient'[x][k] = toClient[x][j]
    BY <1>0, <1>1, <2>1
  <2>5. \A q \in Receivers : Fresh(q) => Fresh(q)'
    BY <1>0, <2>2, <2>3, <2>4 DEF Fresh
  <2>6. Traffic'
    BY <1>0, <2>1, <2>2, <2>3, <2>4 DEF Base, Traffic
  <2>7. AsksOnce'
    BY <2>1, <2>3, <2>5 DEF Base, AsksOnce
  <2>8. SessionsFit'
    BY <2>2, <2>3 DEF Base, SessionsFit, Server!HasSession
  <2> QED
    BY <2>6, <2>7, <2>8 DEF Parts
<1>16. CASE UNCHANGED vars
  BY <1>16, PartsSenderSide DEF vars, sender, receiver
<1> QED
  BY <1>4, <1>5, <1>6, <1>7, <1>8, <1>9, <1>10, <1>11, <1>13, <1>14, <1>15, <1>16,
     PartsServerReceives, PartsServerOther
     DEF Next, ServerStep, SenderReceives, OfferDone, PageReceives

LEMMA BaseInit == Init => Base
<1> SUFFICES ASSUME Init PROVE Base
  OBVIOUS
<1>1. ServerInv
  BY ServerInit DEF Init
<1>2. TypeOK
  <2>1. /\ toServer \in [Sockets -> Seq(Message)] /\ toClient \in [Sockets -> Seq(Message)]
        /\ queued \in [Senders -> Seq(Message)]
    BY DEF Init
  <2>2. /\ clients \in [Senders -> [Ids -> 0..MaxClients]] /\ made \in 0..MaxClients
        /\ iceSent \in [Receivers \cup PushClients -> 0..MaxIce]
    BY BoundsAreNat DEF Init
  <2>3. page \in [Receivers -> [id : Ids \cup {NoId}, answered : 0..MaxClients, told : BOOLEAN]]
    BY BoundsAreNat DEF Init
  <2> QED
    BY <1>1, <2>1, <2>2, <2>3 DEF Init, ServerInv, TypeOK
<1>3. Traffic
  BY DEF Init, Server!Init, Traffic, Sockets
<1>4. AsksOnce
  BY DEF Init, Server!Init, AsksOnce, Fresh, Sockets, Server!Sockets
<1>5. SessionsFit
  BY DEF Init, Server!Init, SessionsFit, Server!HasSession
<1> QED
  BY <1>1, <1>2, <1>3, <1>4, <1>5 DEF Base

LEMMA BaseKept == Base /\ [Next]_vars => Base'
<1> SUFFICES ASSUME Base, [Next]_vars PROVE Base'
  OBVIOUS
<1>1. ServerInv'
  BY StepIsServerStep, ServerNext DEF Base
<1>2. TypeOK'
  BY <1>1, TypesKept
<1> QED
  BY <1>1, <1>2, PartsKept DEF Base, Parts

LEMMA BaseHolds == Spec => []Base
BY BaseInit, BaseKept, PTL DEF Spec

(***************************************************************************)
(* Queues, tables, push clients and pages keep their types.                *)
(***************************************************************************)
THEOREM TypeCorrect == Spec => []TypeOK
<1>1. Base => TypeOK
  BY DEF Base
<1> QED
  BY <1>1, BaseHolds, PTL

(***************************************************************************)
(* Senders and pages use the server as SignalingServer assumes, so that    *)
(* what is proved of the server there holds in this composition.           *)
(***************************************************************************)
THEOREM UsedAsAssumed == Spec => ServerUsedAsAssumed
<1>1. Init => Server!Init
  BY DEF Init
<1> QED
  BY <1>1, StepIsServerStep, BaseHolds, PTL DEF Spec, ServerUsedAsAssumed, Server!Spec

-----------------------------------------------------------------------------
LEMMA ReadyAfterTail ==
    ASSUME NEW q \in Seq(Message), q # <<>>, NEW n \in 1..Len(q), NEW id, NEW d, NEW e,
           IsAnswer(Head(q), id) => e, d /\ ~IsRequest(Head(q), id) => e,
           ReadyAfter(q, n, id, d)
    PROVE  ReadyAfter(Tail(q), n - 1, id, e)
<1>1. /\ Head(q) = q[1] /\ Len(Tail(q)) = Len(q) - 1 /\ Len(q) \in Nat
      /\ \A l \in 1..(Len(q) - 1) : Tail(q)[l] = q[l + 1]
  OBVIOUS
<1>2. CASE d /\ \A l \in 1..n : ~IsRequest(q[l], id)
  <2>1. e
    BY <1>1, <1>2
  <2>2. \A l \in 1..(n - 1) : ~IsRequest(Tail(q)[l], id)
    BY <1>1, <1>2
  <2> QED
    BY <2>1, <2>2 DEF ReadyAfter
<1>3. ASSUME NEW j \in 1..n, IsAnswer(q[j], id), \A l \in (j + 1)..n : ~IsRequest(q[l], id)
      PROVE  ReadyAfter(Tail(q), n - 1, id, e)
  <2>1. \A l \in j..(n - 1) : ~IsRequest(Tail(q)[l], id)
    BY <1>1, <1>3
  <2>2. CASE j = 1
    BY <1>1, <1>3, <2>1, <2>2 DEF ReadyAfter
  <2>3. CASE j # 1
    <3>1. j - 1 \in 1..(n - 1) /\ IsAnswer(Tail(q)[j - 1], id)
      BY <1>1, <1>3, <2>3
    <3>2. \A l \in ((j - 1) + 1)..(n - 1) : ~IsRequest(Tail(q)[l], id)
      BY <2>1
    <3> QED
      BY <3>1, <3>2 DEF ReadyAfter
  <2> QED
    BY <2>2, <2>3
<1> QED
  BY <1>2, <1>3 DEF ReadyAfter

LEMMA ReadyAfterAppend ==
    ASSUME NEW q \in Seq(Message), NEW m \in Message, NEW id, NEW d
    PROVE  /\ \A n \in 0..Len(q) : ReadyAfter(q, n, id, d) => ReadyAfter(Append(q, m), n, id, d)
           /\ ReadyAfter(q, Len(q), id, d) /\ ~IsRequest(m, id)
                 => ReadyAfter(Append(q, m), Len(q) + 1, id, d)
           /\ IsAnswer(m, id) => ReadyAfter(Append(q, m), Len(q) + 1, id, d)
<1>1. /\ Len(q) \in Nat /\ Append(q, m)[Len(q) + 1] = m
      /\ \A l \in 1..Len(q) : Append(q, m)[l] = q[l]
  OBVIOUS
<1>2. ASSUME NEW n \in 0..Len(q), ReadyAfter(q, n, id, d) PROVE ReadyAfter(Append(q, m), n, id, d)
  BY <1>1, <1>2 DEF ReadyAfter
<1>3. ASSUME ReadyAfter(q, Len(q), id, d), ~IsRequest(m, id)
      PROVE  ReadyAfter(Append(q, m), Len(q) + 1, id, d)
  <2>1. CASE d /\ \A l \in 1..Len(q) : ~IsRequest(q[l], id)
    <3>1. \A l \in 1..(Len(q) + 1) : ~IsRequest(Append(q, m)[l], id)
      BY <1>1, <1>3, <2>1
    <3> QED
      BY <2>1, <3>1 DEF ReadyAfter
  <2>2. ASSUME NEW j \in 1..Len(q), IsAnswer(q[j], id), \A l \in (j + 1)..Len(q) : ~IsRequest(q[l], id)
        PROVE  ReadyAfter(Append(q, m), Len(q) + 1, id, d)
    <3>1. j \in 1..(Len(q) + 1) /\ IsAnswer(Append(q, m)[j], id)
      BY <1>1, <2>2
    <3>2. \A l \in (j + 1)..(Len(q) + 1) : ~IsRequest(Append(q, m)[l], id)
      BY <1>1, <1>3, <2>2
    <3> QED
      BY <3>1, <3>2 DEF ReadyAfter
  <2> QED
    BY <1>3, <2>1, <2>2 DEF ReadyAfter
<1>4. ASSUME IsAnswer(m, id) PROVE ReadyAfter(Append(q, m), Len(q) + 1, id, d)
  <2>1. Len(q) + 1 \in 1..(Len(q) + 1) /\ IsAnswer(Append(q, m)[Len(q) + 1], id)
    BY <1>1, <1>4
  <2>2. \A l \in ((Len(q) + 1) + 1)..(Len(q) + 1) : ~IsRequest(Append(q, m)[l], id)
    BY <1>1
  <2> QED
    BY <2>1, <2>2 DEF ReadyAfter
<1> QED
  BY <1>2, <1>3, <1>4

\* What the three ways a sender's queue changes do to the order in it.
LEMMA QueueSame ==
    ASSUME NEW s, toClient'[s] = toClient[s], \A id \in Ids : Done(s, id) => Done(s, id)'
    PROVE  /\ SenderOrdered(s) => SenderOrdered(s)'
           /\ \A id \in Ids : Ready(s, id) => Ready(s, id)'
BY DEF SenderOrdered, Ready, ReadyAfter

LEMMA QueueTaken ==
    ASSUME NEW s, toClient[s] \in Seq(Message), toClient[s] # <<>>, toClient'[s] = Tail(toClient[s]),
           \A id \in Ids : IsAnswer(Head(toClient[s]), id) => Done(s, id)',
           \A id \in Ids : Done(s, id) /\ ~IsRequest(Head(toClient[s]), id) => Done(s, id)'
    PROVE  /\ SenderOrdered(s) => SenderOrdered(s)'
           /\ \A id \in Ids : Ready(s, id) => Ready(s, id)'
<1> DEFINE q == toClient[s]
<1>1. /\ Len(q) \in Nat /\ Len(q) \in 1..Len(q) /\ Len(Tail(q)) = Len(q) - 1
      /\ \A k \in DOMAIN Tail(q) : k \in Nat /\ k + 1 \in DOMAIN q /\ k + 1 \in 1..Len(q) /\ Tail(q)[k] = q[k + 1]
  OBVIOUS
<1>2. ASSUME SenderOrdered(s), NEW id \in Ids, NEW k \in DOMAIN toClient'[s], IsCandidate(toClient'[s][k], id)
      PROVE  ReadyAfter(toClient'[s], k - 1, id, Done(s, id)')
  <2>1. k \in DOMAIN Tail(q) /\ IsCandidate(q[k + 1], id)
    BY <1>1, <1>2
  <2>2. k \in Nat /\ k + 1 \in DOMAIN q /\ k + 1 \in 1..Len(q)
    BY <1>1, <2>1
  <2>3. ReadyAfter(q, (k + 1) - 1, id, Done(s, id))
    BY <1>2, <2>1, <2>2 DEF SenderOrdered
  <2>4. (k + 1) - 1 = k /\ k \in 1..Len(q)
    <3>1. k \in 1..Len(Tail(q))
      BY <2>1
    <3> QED
      BY <1>1, <2>2, <3>1
  <2>5. ReadyAfter(Tail(q), k - 1, id, Done(s, id)')
    BY <2>3, <2>4, ReadyAfterTail
  <2> QED
    BY <2>5
<1>3. ASSUME NEW id \in Ids, Ready(s, id) PROVE Ready(s, id)'
  <2>1. ReadyAfter(Tail(q), Len(q) - 1, id, Done(s, id)')
    BY <1>1, <1>3, ReadyAfterTail DEF Ready
  <2> QED
    BY <1>1, <2>1 DEF Ready
<1> QED
  BY <1>2, <1>3 DEF SenderOrdered

LEMMA QueueAdded ==
    ASSUME NEW s, toClient[s] \in Seq(Message), NEW m \in Message, toClient'[s] = Append(toClient[s], m),
           \A id \in Ids : Done(s, id)' = Done(s, id)
    PROVE  /\ SenderOrdered(s) /\ (\A id \in Ids : IsCandidate(m, id) => Ready(s, id)) => SenderOrdered(s)'
           /\ \A id \in Ids : Ready(s, id) /\ ~IsRequest(m, id) => Ready(s, id)'
           /\ \A id \in Ids : IsAnswer(m, id) => Ready(s, id)'
<1> DEFINE q == toClient[s]
<1>1. Len(Append(q, m)) = Len(q) + 1 /\ Len(q) \in Nat
  OBVIOUS
<1>2. ASSUME SenderOrdered(s), \A id \in Ids : IsCandidate(m, id) => Ready(s, id),
             NEW id \in Ids, NEW k \in DOMAIN toClient'[s], IsCandidate(toClient'[s][k], id)
      PROVE  ReadyAfter(toClient'[s], k - 1, id, Done(s, id)')
  <2>1. CASE k \in DOMAIN q /\ Append(q, m)[k] = q[k]
    <3>1. ReadyAfter(q, k - 1, id, Done(s, id)) /\ k - 1 \in 0..Len(q)
      BY <1>2, <2>1 DEF SenderOrdered
    <3> QED
      BY <3>1, ReadyAfterAppend
  <2>2. CASE k = Len(q) + 1 /\ Append(q, m)[k] = m
    <3>1. ReadyAfter(q, Len(q), id, Done(s, id)) /\ k - 1 = Len(q) /\ Len(q) \in 0..Len(q)
      BY <1>1, <1>2, <2>2 DEF Ready
    <3> QED
      BY <3>1, ReadyAfterAppend
  <2> QED
    BY <1>2, <2>1, <2>2, AppendFacts
<1>3. ASSUME NEW id \in Ids, Ready(s, id), ~IsRequest(m, id) PROVE Ready(s, id)'
  BY <1>1, <1>3, ReadyAfterAppend DEF Ready
<1>4. ASSUME NEW id \in Ids, IsAnswer(m, id) PROVE Ready(s, id)'
  BY <1>1, <1>4, ReadyAfterAppend DEF Ready
<1> QED
  BY <1>2, <1>3, <1>4 DEF SenderOrdered

-----------------------------------------------------------------------------
LEMMA PageSame ==
    ASSUME NEW r, NEW s, NEW id, toServer'[r] = toServer[r], page'[r].answered = page[r].answered,
           Ready(s, id) => Ready(s, id)', PageOrdered(r, s, id)
    PROVE  PageOrdered(r, s, id)'
BY DEF PageOrdered

LEMMA PageTaken ==
    ASSUME NEW r, NEW s, NEW id, toServer[r] \in Seq(Message), toServer[r] # <<>>,
           toServer'[r] = Tail(toServer[r]), page'[r].answered = page[r].answered,
           Ready(s, id) \/ IsAnswer(Head(toServer[r]), id) => Ready(s, id)', PageOrdered(r, s, id)
    PROVE  PageOrdered(r, s, id)'
<1> DEFINE q == toServer[r]
<1>1. /\ Head(q) = q[1] /\ Len(q) \in Nat
      /\ \A k \in DOMAIN Tail(q) : k \in Nat /\ k + 1 \in DOMAIN q /\ Tail(q)[k] = q[k + 1]
      /\ \A k \in DOMAIN q : k = 1 \/ (k \in Nat /\ k - 1 \in DOMAIN Tail(q) /\ Tail(q)[k - 1] = q[k])
  OBVIOUS
<1>2. CASE Ready(s, id)'
  BY <1>2 DEF PageOrdered
<1>3. CASE ~Ready(s, id)'
  <2>1. ~Ready(s, id) /\ ~IsAnswer(q[1], id)
    BY <1>1, <1>3
  <2>2. page'[r].answered # 0 => \E j \in DOMAIN toServer'[r] : IsAnswer(toServer'[r][j], id)
    <3>1. SUFFICES ASSUME page[r].answered # 0
                   PROVE  \E j \in DOMAIN toServer'[r] : IsAnswer(toServer'[r][j], id)
      OBVIOUS
    <3>2. PICK j \in DOMAIN q : IsAnswer(q[j], id)
      BY <2>1, <3>1 DEF PageOrdered
    <3>3. j - 1 \in DOMAIN Tail(q) /\ Tail(q)[j - 1] = q[j]
      BY <1>1, <2>1, <3>2
    <3> QED
      BY <3>2, <3>3
  <2>3. ASSUME NEW k \in DOMAIN toServer'[r], IsCandidate(toServer'[r][k], id)
        PROVE  \E j \in 1..(k - 1) : IsAnswer(toServer'[r][j], id)
    <3>1. k \in Nat /\ k + 1 \in DOMAIN q /\ IsCandidate(q[k + 1], id)
      BY <1>1, <2>3
    <3>2. PICK j \in 1..((k + 1) - 1) : IsAnswer(q[j], id)
      BY <2>1, <3>1 DEF PageOrdered
    <3>3. j # 1 /\ j \in DOMAIN q
      BY <2>1, <3>1, <3>2
    <3>4. j - 1 \in 1..(k - 1) /\ toServer'[r][j - 1] = q[j]
      BY <1>1, <3>1, <3>2, <3>3
    <3> QED
      BY <3>2, <3>4
  <2> QED
    BY <2>2, <2>3 DEF PageOrdered
<1> QED
  BY <1>2, <1>3

\* A sender's steps, as seen by the pages.
LEMMA OrderSenderSide ==
    ASSUME Base, Order, server' = server, \A r \in Receivers : page'[r].answered = page[r].answered,
           \A r \in Receivers : toServer'[r] = toServer[r],
           \A s \in Senders : SenderOrdered(s)',
           \A s \in Senders, id \in Ids : Ready(s, id) => Ready(s, id)'
    PROVE  AnswerFirstAtSender' /\ AnswerFirstAtPage'
<1>1. UNCHANGED <<conn, sessions>>
  BY DEF server
<1>2. ASSUME NEW id \in Ids, Server!HasSession(id)', conn'[sessions'[id].sender] = "open"
      PROVE  PageOrdered(sessions[id].receiver, sessions[id].sender, id)'
  <2>1. /\ Server!HasSession(id) /\ PageOrdered(sessions[id].receiver, sessions[id].sender, id)
        /\ sessions[id].sender \in Senders /\ sessions[id].receiver \in Receivers
        /\ sessions'[id] = sessions[id]
    BY <1>1, <1>2, SessionEnds DEF Order, AnswerFirstAtPage, Server!HasSession
  <2> DEFINE r == sessions[id].receiver
             s == sessions[id].sender
  <2>2. /\ toServer'[r] = toServer[r] /\ page'[r].answered = page[r].answered
        /\ Ready(s, id) => Ready(s, id)'
    BY <2>1
  <2>3. page'[r].answered # 0 =>
            Ready(s, id)' \/ \E j \in DOMAIN toServer'[r] : IsAnswer(toServer'[r][j], id)
    BY <2>1, <2>2 DEF PageOrdered
  <2>4. \A k \in DOMAIN toServer'[r] : IsCandidate(toServer'[r][k], id) =>
            Ready(s, id)' \/ \E j \in 1..(k - 1) : IsAnswer(toServer'[r][j], id)
    BY <2>1, <2>2 DEF PageOrdered
  <2> QED
    BY <2>1, <2>3, <2>4 DEF PageOrdered
<1> QED
  BY <1>2 DEF AnswerFirstAtSender, AnswerFirstAtPage

LEMMA OrderSenderSteps ==
    ASSUME Base, Order, NEW s \in Senders,
           \/ SenderConnected(s) \/ SenderReceives(s) \/ RunQueued(s) \/ \E id \in Ids : SenderIce(s, id)
    PROVE  Order'
<1> USE DEF Base
<1>0. /\ \A x \in Sockets : toServer[x] \in Seq(Message) /\ toClient[x] \in Seq(Message)
      /\ toServer \in [Sockets -> Seq(Message)] /\ toClient \in [Sockets -> Seq(Message)]
      /\ \A x \in Senders : x \in Sockets /\ x \notin Receivers
      /\ \A x \in Receivers : x \in Sockets /\ x # s
      /\ \A x \in Senders : SenderOrdered(x)
      /\ ~lostIce
  BY DisjointRoles DEF TypeOK, Sockets, Order, AnswerFirstAtSender, NoCandidateBeforeAnswer
<1>1. ASSUME UNCHANGED <<toClient, clients, applied>>
      PROVE  /\ \A x \in Senders : SenderOrdered(x)'
             /\ \A x \in Senders, id \in Ids : Ready(x, id) => Ready(x, id)'
  <2>1. \A x \in Senders, id \in Ids : Done(x, id) => Done(x, id)'
    BY <1>1 DEF Done
  <2> QED
    BY <1>0, <1>1, <2>1, QueueSame
<1>2. ASSUME toClient[s] # <<>>, Take(s),
             \A x \in Senders, id \in Ids : x # s /\ Done(x, id) => Done(x, id)',
             \A id \in Ids : IsAnswer(Head(toClient[s]), id) => Done(s, id)',
             \A id \in Ids : Done(s, id) /\ ~IsRequest(Head(toClient[s]), id) => Done(s, id)'
      PROVE  /\ \A x \in Senders : SenderOrdered(x)'
             /\ \A x \in Senders, id \in Ids : Ready(x, id) => Ready(x, id)'
  <2>1. toClient'[s] = Tail(toClient[s]) /\ \A x \in Senders : x # s => toClient'[x] = toClient[x]
    BY <1>0, <1>2 DEF Take
  <2>2. SenderOrdered(s)' /\ \A id \in Ids : Ready(s, id) => Ready(s, id)'
    BY <1>0, <1>2, <2>1, QueueTaken
  <2>3. ASSUME NEW x \in Senders, x # s
        PROVE  SenderOrdered(x)' /\ \A id \in Ids : Ready(x, id) => Ready(x, id)'
    BY <1>0, <1>2, <2>1, <2>3, QueueSame
  <2> QED
    BY <2>2, <2>3
<1>3. CASE SenderConnected(s) \/ RunQueued(s) \/ \E id \in Ids : SenderIce(s, id)
  <2>1. /\ server' = server /\ UNCHANGED <<toClient, clients, applied, page, lostIce>>
        /\ \A r \in Receivers : toServer'[r] = toServer[r]
    BY <1>0, <1>3 DEF SenderConnected, RunQueued, SenderIce, Send, sender, receiver
  <2> QED
    BY <1>0, <1>1, <2>1, OrderSenderSide DEF Order, NoCandidateBeforeAnswer
<1>4. CASE RequestFails(s) \/ SenderCandidate(s) \/ SenderIgnores(s)
  <2>1. /\ toClient[s] # <<>> /\ Take(s) /\ Head(toClient[s]).type # "answer"
        /\ server' = server /\ UNCHANGED <<clients, applied, page>>
    BY <1>4 DEF RequestFails, SenderCandidate, SenderIgnores, Received, sender, receiver
  <2>2. \A r \in Receivers : toServer'[r] = toServer[r]
    BY <1>0, <1>4 DEF RequestFails, SenderCandidate, SenderIgnores, Send
  <2>3. \A x \in Senders, id \in Ids : Done(x, id)' = Done(x, id)
    BY <2>1 DEF Done
  <2>4. /\ \A x \in Senders : SenderOrdered(x)'
        /\ \A x \in Senders, id \in Ids : Ready(x, id) => Ready(x, id)'
    BY <1>2, <2>1, <2>3 DEF IsAnswer
  <2>5. ~lostIce'
    <3>1. CASE RequestFails(s) \/ SenderIgnores(s)
      BY <1>0, <3>1 DEF RequestFails, SenderIgnores, sender
    <3>2. CASE SenderCandidate(s)
      <4> DEFINE m == Head(toClient[s])
      <4>1. m = toClient[s][1] /\ 1 \in DOMAIN toClient[s] /\ m.type = "candidate"
        BY <1>0, <2>1, <3>2, TailFacts DEF SenderCandidate, Received
      <4>2. m.id \in Ids
        BY <4>1 DEF Traffic
      <4>3. ReadyAfter(toClient[s], 0, m.id, Done(s, m.id))
        BY <1>0, <4>1, <4>2 DEF SenderOrdered, IsCandidate
      <4>4. Done(s, m.id)
        BY <4>3 DEF ReadyAfter
      <4> QED
        BY <1>0, <3>2, <4>4 DEF SenderCandidate, Done
    <3> QED
      BY <1>4, <3>1, <3>2
  <2> QED
    BY <2>1, <2>2, <2>4, <2>5, OrderSenderSide DEF Order, NoCandidateBeforeAnswer
<1>5. CASE RequestServed(s)
  <2> DEFINE i == Head(toClient[s]).id
  <2>1. /\ toClient[s] # <<>> /\ Take(s) /\ Head(toClient[s]).type = "request"
        /\ server' = server /\ UNCHANGED <<toServer, applied, page, lostIce>>
        /\ clients' = [clients EXCEPT ![s][i] = made + 1]
    BY <1>5 DEF RequestServed, Received, receiver
  <2>2. \A x \in Senders, id \in Ids : x # s \/ id # i => clients'[x][id] = clients[x][id]
    BY <2>1 DEF TypeOK
  <2>3. \A x \in Senders, id \in Ids : x # s \/ id # i => Done(x, id)' = Done(x, id)
    BY <2>1, <2>2 DEF Done
  <2>4. /\ \A x \in Senders : SenderOrdered(x)'
        /\ \A x \in Senders, id \in Ids : Ready(x, id) => Ready(x, id)'
    BY <1>2, <2>1, <2>3 DEF IsAnswer, IsRequest
  <2> QED
    BY <1>0, <2>1, <2>4, OrderSenderSide DEF Order, NoCandidateBeforeAnswer
<1>6. CASE SenderAnswer(s)
  <2> DEFINE m == Head(toClient[s])
  <2>1. /\ toClient[s] # <<>> /\ Take(s)
        /\ server' = server /\ UNCHANGED <<toServer, clients, page, lostIce>>
        /\ applied' = IF clients[s][m.id] = 0 THEN applied ELSE applied \cup {<<clients[s][m.id], m.client>>}
    BY <1>6 DEF SenderAnswer, Received, receiver
  <2>2. \A x \in Senders, id \in Ids : Done(x, id) => Done(x, id)'
    BY <2>1 DEF Done
  <2>3. ASSUME NEW id \in Ids, IsAnswer(m, id) PROVE Done(s, id)'
    <3>1. m.id = id
      BY <2>3 DEF IsAnswer
    <3>2. clients[s][id] = 0 \/ <<clients[s][id], m.client>> \in applied'
      BY <2>1, <3>1
    <3> QED
      BY <2>1, <3>2 DEF Done
  <2>4. /\ \A x \in Senders : SenderOrdered(x)'
        /\ \A x \in Senders, id \in Ids : Ready(x, id) => Ready(x, id)'
    BY <1>2, <2>1, <2>2, <2>3
  <2> QED
    BY <1>0, <2>1, <2>4, OrderSenderSide DEF Order, NoCandidateBeforeAnswer
<1> QED
  BY <1>3, <1>4, <1>5, <1>6 DEF SenderReceives

\* The pages leave the senders' queues alone.
LEMMA OrderPageSide ==
    ASSUME Base, Order, NEW r \in Receivers, server' = server,
           UNCHANGED <<clients, applied, lostIce>>,
           \A s \in Senders : toClient'[s] = toClient[s],
           \A q \in Receivers : q # r => toServer'[q] = toServer[q] /\ page'[q] = page[q],
           \A s \in Senders, id \in Ids : page[r].id = id /\ socket_to_session[r] = id
              /\ (Ready(s, id) => Ready(s, id)') /\ PageOrdered(r, s, id) => PageOrdered(r, s, id)'
    PROVE  Order'
<1>1. UNCHANGED <<conn, sessions>> /\ ~lostIce'
  BY DEF server, Order, NoCandidateBeforeAnswer
<1>2. \A s \in Senders, id \in Ids : Done(s, id)' = Done(s, id)
  BY DEF Done
<1>3. \A s \in Senders : SenderOrdered(s)' /\ \A id \in Ids : Ready(s, id) => Ready(s, id)'
  BY <1>2, QueueSame DEF Order, AnswerFirstAtSender
<1>4. ASSUME NEW id \in Ids, Server!HasSession(id), conn[sessions[id].sender] = "open"
      PROVE  PageOrdered(sessions[id].receiver, sessions[id].sender, id)'
  <2>1. PICK q \in Receivers, s \in Senders :
            /\ q = sessions[id].receiver /\ s = sessions[id].sender
            /\ page[q].id = id /\ socket_to_session[q] = id
    BY <1>4, SessionEnds
  <2>2. PageOrdered(q, s, id)
    BY <1>4, <2>1 DEF Order, AnswerFirstAtPage
  <2>3. PageOrdered(q, s, id)'
    <3>1. CASE q = r
      BY <1>3, <2>1, <2>2, <3>1
    <3>2. CASE q # r
      BY <1>3, <2>2, <3>2, PageSame
    <3> QED
      BY <3>1, <3>2
  <2> QED
    BY <1>1, <2>1, <2>3 DEF PageOrdered
<1>5. AnswerFirstAtPage'
  BY <1>1, <1>4 DEF AnswerFirstAtPage, Server!HasSession
<1> QED
  BY <1>1, <1>3, <1>5 DEF Order, AnswerFirstAtSender, NoCandidateBeforeAnswer

LEMMA OrderPageSteps ==
    ASSUME Base, Order, NEW r \in Receivers, PageRequests(r) \/ PageReceives(r) \/ PageIce(r)
    PROVE  Order'
<1> USE DEF Base
<1>0. /\ toServer[r] \in Seq(Message) /\ r \in Sockets /\ Len(toServer[r]) \in Nat
      /\ toServer \in [Sockets -> Seq(Message)] /\ toClient \in [Sockets -> Seq(Message)]
      /\ \A s \in Senders : s # r /\ s \in Sockets
      /\ \A q \in Receivers : q \in Sockets
  BY DisjointRoles DEF TypeOK, Sockets
<1>1. CASE PageRequests(r)
  <2>1. /\ server' = server /\ UNCHANGED <<clients, applied, lostIce, toClient>>
        /\ \E id \in Ids : page' = [page EXCEPT ![r].id = id] /\ Send(r, Msg("request", id, 0))
        /\ r \notin said
    BY <1>1 DEF PageRequests, sender
  <2>2. \A q \in Receivers : q # r => toServer'[q] = toServer[q] /\ page'[q] = page[q]
    BY <1>0, <2>1 DEF Send
  <2>3. \A id \in Ids : socket_to_session[r] # id
    BY <2>1, Sentinels DEF AsksOnce, Fresh
  <2> QED
    BY <2>1, <2>2, <2>3, OrderPageSide
<1>2. CASE PageOffer(r)
  <2> DEFINE c == Head(toClient[r]).client
             a == Msg("answer", page[r].id, c)
  <2>1. /\ server' = server /\ UNCHANGED <<clients, applied, lostIce>> /\ Take(r)
        /\ page' = [page EXCEPT ![r].answered = c]
        /\ toServer' = [toServer EXCEPT ![r] = @ \o <<a>>]
    BY <1>2 DEF PageOffer, PageAnswer, sender
  <2>2. \A q \in Receivers : q # r => toServer'[q] = toServer[q] /\ page'[q] = page[q]
    BY <1>0, <2>1
  <2>3. \A s \in Senders : toClient'[s] = toClient[s]
    BY <1>0, <2>1 DEF Take
  <2>4. /\ Len(toServer'[r]) = Len(toServer[r]) + 1 /\ toServer'[r][Len(toServer[r]) + 1] = a
        /\ \A k \in DOMAIN toServer[r] : toServer'[r][k] = toServer[r][k]
        /\ \A k \in DOMAIN toServer'[r] : k \in DOMAIN toServer[r] \/ k = Len(toServer[r]) + 1
        /\ Len(toServer[r]) + 1 \in DOMAIN toServer'[r]
    <3>1. a \in Message
      <4>1. Head(toClient[r]) \in Message
        BY <1>0, <1>2, TailFacts DEF PageOffer, Received
      <4> QED
        BY <4>1 DEF TypeOK, Msg, Message, Server!Forwarded
    <3> HIDE DEF a
    <3> QED
      BY <1>0, <2>1, <3>1
  <2>5. ASSUME NEW s \in Senders, NEW id \in Ids, page[r].id = id, Ready(s, id) => Ready(s, id)',
               PageOrdered(r, s, id)
        PROVE  PageOrdered(r, s, id)'
    <3>1. IsAnswer(a, id) /\ ~IsCandidate(a, id)
      BY <2>5 DEF IsAnswer, IsCandidate, Msg
    <3>2. \E j \in DOMAIN toServer'[r] : IsAnswer(toServer'[r][j], id)
      BY <2>4, <3>1
    <3>3. ASSUME NEW k \in DOMAIN toServer'[r], IsCandidate(toServer'[r][k], id), ~Ready(s, id)'
          PROVE  \E j \in 1..(k - 1) : IsAnswer(toServer'[r][j], id)
      <4>1. k \in DOMAIN toServer[r] /\ toServer'[r][k] = toServer[r][k]
        BY <2>4, <3>1, <3>3
      <4>2. PICK j \in 1..(k - 1) : IsAnswer(toServer[r][j], id)
        BY <2>5, <3>3, <4>1 DEF PageOrdered
      <4>3. j \in DOMAIN toServer[r]
        BY <1>0, <4>1
      <4> QED
        BY <2>4, <4>2, <4>3
    <3> QED
      BY <3>2, <3>3 DEF PageOrdered
  <2> QED
    BY <2>1, <2>2, <2>3, <2>5, OrderPageSide
<1>3. CASE PageIce(r)
  <2> DEFINE a == Msg("candidate", page[r].id, page[r].answered)
  <2>1. /\ server' = server /\ UNCHANGED <<clients, applied, lostIce, toClient, page>>
        /\ toServer' = [toServer EXCEPT ![r] = Append(@, a)] /\ page[r].answered # 0
    BY <1>3 DEF PageIce, Send, sender, receiver
  <2>2. \A q \in Receivers : q # r => toServer'[q] = toServer[q] /\ page'[q] = page[q]
    BY <1>0, <2>1
  <2>3. /\ \A k \in DOMAIN toServer[r] : toServer'[r][k] = toServer[r][k] /\ k \in DOMAIN toServer'[r]
        /\ \A k \in DOMAIN toServer'[r] : k \in DOMAIN toServer[r] \/ k = Len(toServer[r]) + 1
    <3>1. a \in Message
      BY DEF TypeOK, Msg, Message, Server!Forwarded
    <3> HIDE DEF a
    <3> QED
      BY <1>0, <2>1, <3>1
  <2>4. ASSUME NEW s \in Senders, NEW id \in Ids, page[r].id = id, Ready(s, id) => Ready(s, id)',
               PageOrdered(r, s, id)
        PROVE  PageOrdered(r, s, id)'
    <3>1. CASE Ready(s, id)'
      BY <3>1 DEF PageOrdered
    <3>2. CASE ~Ready(s, id)'
      <4>1. PICK i \in DOMAIN toServer[r] : IsAnswer(toServer[r][i], id)
        BY <2>1, <2>4, <3>2 DEF PageOrdered
      <4>2. \E j \in DOMAIN toServer'[r] : IsAnswer(toServer'[r][j], id)
        BY <2>3, <4>1
      <4>3. ASSUME NEW k \in DOMAIN toServer'[r], IsCandidate(toServer'[r][k], id)
            PROVE  \E j \in 1..(k - 1) : IsAnswer(toServer'[r][j], id)
        <5>1. CASE k = Len(toServer[r]) + 1
          <6>1. i \in 1..(k - 1)
            BY <1>0, <5>1
          <6> QED
            BY <2>3, <4>1, <6>1
        <5>2. CASE k \in DOMAIN toServer[r]
          <6>1. PICK j \in 1..(k - 1) : IsAnswer(toServer[r][j], id)
            BY <2>3, <2>4, <3>2, <4>3, <5>2 DEF PageOrdered
          <6>2. j \in DOMAIN toServer[r]
            BY <1>0, <5>2
          <6> QED
            BY <2>3, <6>1, <6>2
        <5> QED
          BY <2>3, <5>1, <5>2
      <4> QED
        BY <4>2, <4>3 DEF PageOrdered
    <3> QED
      BY <3>1, <3>2
  <2> QED
    BY <2>1, <2>2, <2>4, OrderPageSide
<1>4. CASE PageCandidate(r) \/ PageTold(r)
  <2>1. /\ server' = server /\ UNCHANGED <<clients, applied, lostIce, toServer>> /\ Take(r)
        /\ page' = page \/ page' = [page EXCEPT ![r].told = TRUE]
    BY <1>4 DEF PageCandidate, PageTold, sender, receiver
  <2>2. \A q \in Receivers : page'[q].answered = page[q].answered /\ (q # r => page'[q] = page[q])
    BY <2>1 DEF TypeOK
  <2>3. \A s \in Senders : toClient'[s] = toClient[s]
    BY <1>0, <2>1 DEF Take
  <2>4. ASSUME NEW s \in Senders, NEW id \in Ids, Ready(s, id) => Ready(s, id)', PageOrdered(r, s, id)
        PROVE  PageOrdered(r, s, id)'
    BY <2>1, <2>2, <2>4, PageSame
  <2> QED
    BY <2>1, <2>2, <2>3, <2>4, OrderPageSide
<1> QED
  BY <1>1, <1>2, <1>3, <1>4 DEF PageReceives

LEMMA OrderServerReceives ==
    ASSUME Base, Order, NEW s \in Sockets, ServerReceives(s)
    PROVE  Order'
<1> USE DEF Base
<1> DEFINE m == Head(toServer[s])
<1>0. /\ \A x \in Sockets : toServer[x] \in Seq(Message) /\ toClient[x] \in Seq(Message)
      /\ toServer \in [Sockets -> Seq(Message)] /\ toClient \in [Sockets -> Seq(Message)]
      /\ \A x \in Senders : x \in Sockets /\ x \notin Receivers
      /\ \A x \in Receivers : x \in Sockets
      /\ \A x \in Senders : SenderOrdered(x)
      /\ toServer[s] # <<>>
  BY DisjointRoles DEF TypeOK, Sockets, Order, AnswerFirstAtSender, ServerReceives
<1>1. /\ toServer'[s] = Tail(toServer[s]) /\ \A x \in Sockets : x # s => toServer'[x] = toServer[x]
      /\ UNCHANGED <<clients, applied, page, lostIce>>
  BY <1>0 DEF ServerReceives, sender, receiver
<1>2. m = toServer[s][1] /\ 1 \in DOMAIN toServer[s] /\ m \in Message
  BY <1>0, TailFacts
<1>3. \A x \in Senders, id \in Ids : Done(x, id)' = Done(x, id)
  BY <1>1 DEF Done
<1>4. conn' = conn
  BY Receives DEF Registered, Refused, Joined, PassedOn
\* What a message n to x does to the queues of the senders.
<1>5. ASSUME NEW x \in Sockets, NEW n \in Message, Sent(x, n)
      PROVE  /\ (\A id \in Ids : x \in Senders /\ Open(x) /\ IsCandidate(n, id) => Ready(x, id))
                   => \A y \in Senders : SenderOrdered(y)'
             /\ \A y \in Senders, id \in Ids : Ready(y, id) /\ ~(y = x /\ IsRequest(n, id)) => Ready(y, id)'
             /\ \A id \in Ids : x \in Senders /\ Open(x) /\ IsAnswer(n, id) => Ready(x, id)'
  <2>1. \A y \in Senders : y # x \/ ~Open(x) => toClient'[y] = toClient[y]
    BY <1>0, <1>5 DEF Sent
  <2>2. Open(x) => toClient'[x] = Append(toClient[x], n)
    BY <1>0, <1>5 DEF Sent
  <2>3. ASSUME NEW y \in Senders, y # x \/ ~Open(x)
        PROVE  SenderOrdered(y)' /\ \A id \in Ids : Ready(y, id) => Ready(y, id)'
    BY <1>0, <1>3, <2>1, <2>3, QueueSame
  <2>4. ASSUME x \in Senders, Open(x)
        PROVE  /\ (\A id \in Ids : IsCandidate(n, id) => Ready(x, id)) => SenderOrdered(x)'
               /\ \A id \in Ids : Ready(x, id) /\ ~IsRequest(n, id) => Ready(x, id)'
               /\ \A id \in Ids : IsAnswer(n, id) => Ready(x, id)'
    BY <1>0, <1>3, <2>2, <2>4, QueueAdded
  <2> QED
    BY <2>3, <2>4
\* Sessions that stay keep their page in order.
<1>6. ASSUME NEW id \in Ids, Server!HasSession(id), conn[sessions[id].sender] = "open",
             Ready(sessions[id].sender, id) \/ (s = sessions[id].receiver /\ IsAnswer(m, id))
                => Ready(sessions[id].sender, id)',
             sessions'[id] = sessions[id]
      PROVE  PageOrdered(sessions[id].receiver, sessions[id].sender, id)'
  <2>1. PICK q \in Receivers, y \in Senders : q = sessions[id].receiver /\ y = sessions[id].sender
    BY <1>6, SessionEnds
  <2>2. PageOrdered(q, y, id)
    BY <1>6, <2>1 DEF Order, AnswerFirstAtPage
  <2>3. Ready(y, id) \/ (s = q /\ IsAnswer(m, id)) => Ready(y, id)'
    BY <1>6, <2>1
  <2>4. PageOrdered(q, y, id)'
    <3>1. CASE q = s
      BY <1>0, <1>1, <2>2, <2>3, <3>1, PageTaken
    <3>2. CASE q # s
      BY <1>0, <1>1, <2>2, <2>3, <3>2, PageSame
    <3> QED
      BY <3>1, <3>2
  <2> QED
    BY <1>6, <2>1, <2>4
<1>7. CASE m.type = "sender-ready" /\ Registered(s)
  <2>1. toClient' = toClient /\ sessions' = sessions
    BY <1>7 DEF Registered
  <2>2. \A y \in Senders : SenderOrdered(y)' /\ \A id \in Ids : Ready(y, id) => Ready(y, id)'
    BY <1>0, <1>3, <2>1, QueueSame
  <2>3. AnswerFirstAtPage'
    BY <1>4, <1>6, <1>7, <2>1, <2>2, SessionEnds DEF AnswerFirstAtPage, IsAnswer, Server!HasSession
  <2> QED
    BY <1>1, <2>2, <2>3 DEF Order, AnswerFirstAtSender, NoCandidateBeforeAnswer
<1>8. CASE /\ m.type # "sender-ready" /\ Refused(s)
           /\ m.type \in Server!Forwarded /\ m.id \in Ids /\ Server!HasSession(m.id) =>
                 s \notin {sessions[m.id].sender, sessions[m.id].receiver}
  <2> DEFINE n == Msg("error", NoId, 0)
  <2>1. n \in Message /\ \A id \in Ids : ~IsCandidate(n, id) /\ ~IsRequest(n, id)
    BY BoundsAreNat DEF Msg, Message, Server!Forwarded, IsCandidate, IsRequest
  <2>2. Sent(s, n) /\ sessions' = sessions
    BY <1>8 DEF Refused
  <2> HIDE DEF n
  <2>3. \A y \in Senders : SenderOrdered(y)' /\ \A id \in Ids : Ready(y, id) => Ready(y, id)'
    BY <1>5, <2>1, <2>2
  <2>4. \A id \in Ids : Server!HasSession(id) /\ s = sessions[id].receiver => ~IsAnswer(m, id)
    BY <1>8 DEF IsAnswer, Server!Forwarded
  <2>5. AnswerFirstAtPage'
    BY <1>4, <1>6, <2>2, <2>3, <2>4, SessionEnds DEF AnswerFirstAtPage, Server!HasSession
  <2> QED
    BY <1>1, <2>3, <2>5 DEF Order, AnswerFirstAtSender, NoCandidateBeforeAnswer
<1>9. ASSUME NEW t \in Senders, m.type = "request", Joined(s, t, m.id, m.client) PROVE Order'
  <2>0. PICK i \in Ids : i = m.id
    BY <1>9 DEF Joined
  <2> DEFINE n == Msg("request", i, m.client)
  <2>1. n \in Message /\ \A id \in Ids : ~IsCandidate(n, id) /\ (IsRequest(n, id) => id = i)
    BY <1>2, <2>0 DEF Msg, Message, IsCandidate, IsRequest
  <2>2. /\ Sent(t, n) /\ s \in Receivers /\ t \in Sockets /\ ~Server!HasSession(i)
        /\ sessions' = [sessions EXCEPT ![i] = [sender |-> t, receiver |-> s]]
    BY <1>0, <1>9, <2>0 DEF Joined
  <2> HIDE DEF n
  <2>3. /\ \A y \in Senders : SenderOrdered(y)'
        /\ \A y \in Senders, id \in Ids : id # i /\ Ready(y, id) => Ready(y, id)'
    BY <1>5, <2>1, <2>2
  <2>4. \A id \in Ids : id # i => sessions'[id] = sessions[id]
    BY <2>2 DEF TypeOK, Server!TypeOK
  <2>5. PageOrdered(s, t, i)'
    <3>1. Len(toServer[s]) = 1 /\ page[s].answered = 0
      BY <1>2, <1>9, <2>2 DEF AsksOnce, Fresh
    <3>2. DOMAIN toServer'[s] = {}
      <4>1. DOMAIN Tail(toServer[s]) = 1..(1 - 1)
        BY <1>0, <3>1, TailFacts
      <4> QED
        BY <1>1, <4>1
    <3> QED
      BY <1>1, <3>1, <3>2 DEF PageOrdered
  <2>6. ASSUME NEW id \in Ids, Server!HasSession(id)', conn'[sessions'[id].sender] = "open"
        PROVE  PageOrdered(sessions[id].receiver, sessions[id].sender, id)'
    <3>1. CASE id = i
      <4>1. sessions'[id].sender = t /\ sessions'[id].receiver = s
        BY <2>2, <3>1 DEF TypeOK, Server!TypeOK
      <4> QED
        BY <2>5, <3>1, <4>1 DEF PageOrdered
    <3>2. CASE id # i
      <4>1. Server!HasSession(id) /\ sessions'[id] = sessions[id] /\ conn[sessions[id].sender] = "open"
        BY <1>4, <2>4, <2>6, <3>2 DEF Server!HasSession
      <4>2. ~IsAnswer(m, id)
        BY <1>9 DEF IsAnswer
      <4> QED
        BY <1>6, <2>3, <3>2, <4>1, <4>2, SessionEnds
    <3> QED
      BY <3>1, <3>2
  <2>7. AnswerFirstAtPage'
    BY <2>6 DEF AnswerFirstAtPage
  <2> QED
    BY <1>1, <2>3, <2>7 DEF Order, AnswerFirstAtSender, NoCandidateBeforeAnswer
<1>10. ASSUME NEW t \in Sockets, PassedOn(s, t, m) PROVE Order'
  <2>1. /\ Sent(t, m) /\ sessions' = sessions /\ m.id \in Ids /\ Server!HasSession(m.id)
        /\ \/ s = sessions[m.id].sender /\ t = sessions[m.id].receiver
           \/ s = sessions[m.id].receiver /\ t = sessions[m.id].sender
        /\ \A id \in Ids : ~IsRequest(m, id)
    BY <1>10 DEF PassedOn, IsRequest, Server!Forwarded
  <2>2. sessions[m.id].sender \in Senders /\ sessions[m.id].receiver \in Receivers
    BY <2>1, SessionEnds
  <2>3. ASSUME NEW id \in Ids, t \in Senders, Open(t), IsCandidate(m, id) PROVE Ready(t, id)
    <3>1. id = m.id /\ s = sessions[m.id].receiver /\ t = sessions[m.id].sender
      BY <1>0, <2>1, <2>2, <2>3 DEF IsCandidate
    <3>2. PageOrdered(s, t, id)
      BY <2>1, <2>3, <3>1 DEF Order, AnswerFirstAtPage, Open
    <3>3. Ready(t, id) \/ \E j \in 1..(1 - 1) : IsAnswer(toServer[s][j], id)
      BY <1>2, <2>3, <3>2 DEF PageOrdered
    <3> QED
      BY <3>3
  <2>4. \A y \in Senders : SenderOrdered(y)' /\ \A id \in Ids : Ready(y, id) => Ready(y, id)'
    BY <1>2, <1>5, <2>1, <2>3
  <2>5. ASSUME NEW id \in Ids, Server!HasSession(id), conn[sessions[id].sender] = "open",
               s = sessions[id].receiver, IsAnswer(m, id)
        PROVE  Ready(sessions[id].sender, id)'
    <3>1. id = m.id /\ t = sessions[id].sender /\ t \in Senders
      BY <1>0, <2>1, <2>2, <2>5 DEF IsAnswer
    <3> QED
      BY <1>2, <1>5, <2>1, <2>5, <3>1 DEF Open
  <2>6. AnswerFirstAtPage'
    BY <1>4, <1>6, <2>1, <2>4, <2>5, SessionEnds DEF AnswerFirstAtPage, Server!HasSession
  <2> QED
    BY <1>1, <2>4, <2>6 DEF Order, AnswerFirstAtSender, NoCandidateBeforeAnswer
<1> QED
  BY <1>7, <1>8, <1>9, <1>10, Receives

LEMMA OrderServerOther ==
    ASSUME Base, Order, NEW s \in Sockets, ServerAccepts(s) \/ ClientGoes(s) \/ ServerDisconnects(s)
    PROVE  Order'
<1> USE DEF Base
<1>0. /\ \A x \in Sockets : toServer[x] \in Seq(Message) /\ toClient[x] \in Seq(Message)
      /\ \A x \in Senders : x \in Sockets /\ SenderOrdered(x)
      /\ \A x \in Receivers : x \in Sockets
      /\ conn \in [Sockets -> Server!ConnState] /\ toClient \in [Sockets -> Seq(Message)]
  BY DEF TypeOK, Server!TypeOK, Server!Sockets, Sockets, Order, AnswerFirstAtSender
<1>1. UNCHANGED <<clients, applied, page, lostIce>>
  BY DEF ServerAccepts, ClientGoes, ServerDisconnects, sender, receiver
<1>2. \A x \in Senders, id \in Ids : Done(x, id)' = Done(x, id)
  BY <1>1 DEF Done
<1>3. ASSUME \A x \in Senders : conn'[x] = "open" =>
                SenderOrdered(x)' /\ \A id \in Ids : Ready(x, id) => Ready(x, id)',
             \A x \in Senders : SenderOrdered(x)',
             \A id \in Ids : Server!HasSession(id)' /\ conn'[sessions'[id].sender] = "open" =>
                /\ Server!HasSession(id) /\ sessions'[id] = sessions[id]
                /\ conn[sessions[id].sender] = "open"
                /\ toServer'[sessions[id].receiver] = toServer[sessions[id].receiver]
      PROVE  Order'
  <2>1. ASSUME NEW id \in Ids, Server!HasSession(id)', conn'[sessions'[id].sender] = "open"
        PROVE  PageOrdered(sessions[id].receiver, sessions[id].sender, id)'
    <3>1. PICK q \in Receivers, y \in Senders : q = sessions[id].receiver /\ y = sessions[id].sender
      BY <1>3, <2>1, SessionEnds
    <3>2. PageOrdered(q, y, id)
      BY <1>3, <2>1, <3>1 DEF Order, AnswerFirstAtPage
    <3>3. Ready(y, id) => Ready(y, id)'
      BY <1>3, <2>1, <3>1
    <3>4. PageOrdered(q, y, id)'
      BY <1>1, <1>3, <2>1, <3>1, <3>2, <3>3, PageSame
    <3> QED
      BY <1>3, <2>1, <3>1, <3>4
  <2> QED
    BY <1>1, <1>3, <2>1 DEF Order, AnswerFirstAtSender, AnswerFirstAtPage, NoCandidateBeforeAnswer
<1>4. CASE ServerAccepts(s)
  <2>1. /\ UNCHANGED <<sessions, toServer, toClient>> /\ conn[s] = "unborn"
        /\ \A x \in Sockets : x # s => conn'[x] = conn[x]
    BY <1>0, <1>4 DEF ServerAccepts, Server!onNewConnection
  <2>2. \A x \in Senders : SenderOrdered(x)' /\ \A id \in Ids : Ready(x, id) => Ready(x, id)'
    BY <1>0, <1>2, <2>1, QueueSame
  <2>3. ASSUME NEW id \in Ids, Server!HasSession(id) PROVE sessions[id].sender # s /\ sessions[id].sender \in Sockets
    <3>1. sessions[id].sender \in Sockets /\ socket_to_session[sessions[id].sender] = id
      BY <1>0, <2>3, SessionEnds
    <3> QED
      BY <2>1, <3>1, Sentinels
         DEF ServerInv, Server!NoDanglingKeys, Server!Connected, Server!Sockets, Sockets
  <2> QED
    BY <1>3, <2>1, <2>2, <2>3 DEF Server!HasSession
<1>5. CASE ClientGoes(s)
  <2>1. /\ UNCHANGED <<sessions, toServer>> /\ conn'[s] = "closing"
        /\ \A x \in Sockets : x # s => conn'[x] = conn[x] /\ toClient'[x] = toClient[x]
        /\ toClient'[s] = <<>>
    BY <1>0, <1>5 DEF ClientGoes, Server!PeerCloses
  <2>2. \A x \in Senders : x # s => SenderOrdered(x)' /\ \A id \in Ids : Ready(x, id) => Ready(x, id)'
    BY <1>0, <1>2, <2>1, QueueSame
  <2>3. SenderOrdered(s)'
    BY <2>1 DEF SenderOrdered
  <2>4. \A id \in Ids : Server!HasSession(id) => sessions[id].sender \in Sockets
    BY <1>0, SessionEnds
  <2> QED
    BY <1>3, <2>1, <2>2, <2>3, <2>4 DEF Server!HasSession
<1>6. CASE ServerDisconnects(s)
  <2>1. /\ \A x \in Sockets : x # s => conn'[x] = conn[x] /\ toServer'[x] = toServer[x]
        /\ \A id \in Ids : Server!HasSession(id)' =>
              id # socket_to_session[s] /\ sessions'[id] = sessions[id] /\ Server!HasSession(id)
    BY <1>0, <1>6 DEF ServerDisconnects, Server!onDisconnected, Server!HasSession, TypeOK
  <2>2. ASSUME NEW x \in Senders
        PROVE  SenderOrdered(x)' /\ \A id \in Ids : Ready(x, id) => Ready(x, id)'
    <3>1. CASE toClient'[x] = toClient[x]
      BY <1>0, <1>2, <3>1, QueueSame
    <3>2. ASSUME NEW i \in Ids, toClient'[x] = Append(toClient[x], Msg("peer-disconnected", i, 0))
          PROVE  SenderOrdered(x)' /\ \A id \in Ids : Ready(x, id) => Ready(x, id)'
      <4> DEFINE n == Msg("peer-disconnected", i, 0)
      <4>1. n \in Message /\ \A id \in Ids : ~IsCandidate(n, id) /\ ~IsRequest(n, id)
        BY BoundsAreNat DEF Msg, Message, IsCandidate, IsRequest
      <4> HIDE DEF n
      <4> QED
        BY <1>0, <1>2, <3>2, <4>1, QueueAdded DEF n
    <3> QED
      BY <1>0, <1>6, <3>1, <3>2, Disconnects DEF Notified
  <2>3. ASSUME NEW id \in Ids, Server!HasSession(id), id # socket_to_session[s]
        PROVE  /\ sessions[id].sender # s /\ sessions[id].sender \in Sockets
               /\ sessions[id].receiver # s /\ sessions[id].receiver \in Sockets
    BY <1>0, <2>3, SessionEnds
  <2> QED
    BY <1>3, <2>1, <2>2, <2>3
<1> QED
  BY <1>4, <1>5, <1>6

LEMMA OrderInit == Init => Order
BY DEF Init, Server!Init, Order, AnswerFirstAtSender, SenderOrdered, AnswerFirstAtPage, Server!HasSession,
       NoCandidateBeforeAnswer, Sockets

LEMMA OrderKept == Base /\ Order /\ [Next]_vars => Order'
<1> SUFFICES ASSUME Base, Order, [Next]_vars PROVE Order'
  OBVIOUS
<1>1. ASSUME NEW s \in Senders, SenderConnected(s) \/ SenderReceives(s) \/ RunQueued(s) PROVE Order'
  BY <1>1, OrderSenderSteps
<1>2. ASSUME NEW s \in Senders, NEW id \in Ids, SenderIce(s, id) PROVE Order'
  BY <1>2, OrderSenderSteps
<1>3. ASSUME UNCHANGED <<server, toServer, toClient, clients, applied, page, lostIce>> PROVE Order'
  <2>1. \A s \in Senders, id \in Ids : Done(s, id)' = Done(s, id)
    BY <1>3 DEF Done
  <2>2. \A s \in Senders : SenderOrdered(s)' /\ \A id \in Ids : Ready(s, id) => Ready(s, id)'
    BY <1>3, <2>1, QueueSame DEF Order, AnswerFirstAtSender
  <2> QED
    BY <1>3, <2>2, OrderSenderSide DEF Order, NoCandidateBeforeAnswer
<1>4. CASE OfferDone
  BY <1>3, <1>4 DEF OfferDone, OfferCreated, OfferFails, receiver
<1>5. CASE UNCHANGED vars
  BY <1>3, <1>5 DEF vars, sender, receiver
<1> QED
  BY <1>1, <1>2, <1>4, <1>5, OrderPageSteps, OrderServerReceives, OrderServerOther DEF Next, ServerStep

(***************************************************************************)
(* No candidate reaches a push client before the answer, whatever is under *)
(* way, in whatever order the sockets are read, with any ids.              *)
(***************************************************************************)
THEOREM CandidatesFollowAnswer == Spec => []NoCandidateBeforeAnswer
<1>1. Order => NoCandidateBeforeAnswer
  BY DEF Order
<1> QED
  BY <1>1, BaseHolds, OrderInit, OrderKept, PTL DEF Spec

-----------------------------------------------------------------------------
LEMMA SoundFrom ==
    ASSUME NEW cl, NEW cm, NEW q, NEW p, Sound(cl, q),
           \A id, c : Filed(cl, id, c) => Filed(cm, id, c),
           \A k \in DOMAIN p : \/ \E j \in DOMAIN q : p[k] = q[j]
                               \/ p[k].type \in Carrying => Filed(cm, p[k].id, p[k].client)
    PROVE  Sound(cm, p)
BY DEF Sound

LEMMA AskedKept ==
    ASSUME \A r \in Receivers : page[r].id \in Ids => page'[r].id = page[r].id,
           \A r \in Receivers : page[r].id \in Ids => \A k \in DOMAIN toServer'[r] :
              toServer'[r][k].type = "request" => \E j \in DOMAIN toServer[r] : toServer[r][j].type = "request"
    PROVE  \A id \in Ids : Asked(id) => Asked(id)'
BY DEF Asked

\* No request is added to the queues of the senders, and the others stay in place.
LEMMA RequestedOnceKept ==
    ASSUME RequestedOnce, NEW d \in [Senders -> {0, 1}],
           \A s \in Senders : \A k \in DOMAIN toClient'[s] : toClient'[s][k].type = "request" =>
              k \in Nat /\ k + d[s] \in DOMAIN toClient[s] /\ toClient'[s][k] = toClient[s][k + d[s]],
           \A id \in Ids : Asked(id) => Asked(id)',
           \A id \in Ids : \/ \A s \in Senders : clients'[s][id] = clients[s][id]
                           \/ \A s \in Senders : \A k \in DOMAIN toClient'[s] : ~IsRequest(toClient'[s][k], id)
    PROVE  RequestedOnce'
<1> SUFFICES ASSUME NEW id \in Ids, NEW s \in Senders, NEW k \in DOMAIN toClient'[s],
                    IsRequest(toClient'[s][k], id)
             PROVE  /\ Asked(id)'
                    /\ \A t \in Senders : clients'[t][id] = 0
                    /\ \A t \in Senders : \A l \in DOMAIN toClient'[t] :
                          IsRequest(toClient'[t][l], id) => t = s /\ l = k
  BY DEF RequestedOnce
<1>1. k \in Nat /\ k + d[s] \in DOMAIN toClient[s] /\ IsRequest(toClient[s][k + d[s]], id)
  BY DEF IsRequest
<1>2. /\ Asked(id) /\ \A t \in Senders : clients[t][id] = 0
      /\ \A t \in Senders : \A l \in DOMAIN toClient[t] :
            IsRequest(toClient[t][l], id) => t = s /\ l = k + d[s]
  BY <1>1 DEF RequestedOnce
<1>3. ASSUME NEW t \in Senders, NEW l \in DOMAIN toClient'[t], IsRequest(toClient'[t][l], id)
      PROVE  t = s /\ l = k
  <2>1. l \in Nat /\ l + d[t] \in DOMAIN toClient[t] /\ IsRequest(toClient[t][l + d[t]], id)
    BY <1>3 DEF IsRequest
  <2>2. t = s /\ l + d[t] = k + d[s]
    BY <1>2, <2>1
  <2>3. d[s] \in {0, 1} /\ d[t] = d[s]
    BY <2>2
  <2>4. l = k
    BY <1>1, <2>1, <2>2, <2>3
  <2> QED
    BY <2>2, <2>4
<1> QED
  BY <1>2, <1>3

\* What the parts of AllFiled need of a step.
LEMMA AllFiledKept ==
    ASSUME AllFiled,
           \A id, c : Filed(clients, id, c) => Filed(clients', id, c),
           \A o \in offering' : clients'[o.by][o.id] = o.client,
           \A s \in Senders : \A k \in DOMAIN queued'[s] :
              \/ \E j \in DOMAIN queued[s] : queued'[s][k] = queued[s][j]
              \/ queued'[s][k].type \in Carrying => Filed(clients', queued'[s][k].id, queued'[s][k].client),
           \A x \in Sockets : \A k \in DOMAIN toServer'[x] :
              \/ \E j \in DOMAIN toServer[x] : toServer'[x][k] = toServer[x][j]
              \/ toServer'[x][k].type \in Carrying => Filed(clients', toServer'[x][k].id, toServer'[x][k].client),
           \A x \in Sockets : \A k \in DOMAIN toClient'[x] :
              \/ \E j \in DOMAIN toClient[x] : toClient'[x][k] = toClient[x][j]
              \/ toClient'[x][k].type \in Carrying => Filed(clients', toClient'[x][k].id, toClient'[x][k].client),
           \A r \in Receivers : page'[r].answered # 0 =>
              \/ page'[r].id = page[r].id /\ page'[r].answered = page[r].answered
              \/ Filed(clients', page'[r].id, page'[r].answered)
    PROVE  AllFiled'
<1>1. \A s \in Senders : Sound(clients', queued'[s])
  BY SoundFrom DEF AllFiled
<1>2. \A x \in Sockets : Sound(clients', toServer'[x])
  BY SoundFrom DEF AllFiled
<1>3. \A x \in Sockets : Sound(clients', toClient'[x])
  BY SoundFrom DEF AllFiled
<1>4. \A r \in Receivers : page'[r].answered # 0 => Filed(clients', page'[r].id, page'[r].answered)
  BY DEF AllFiled
<1> QED
  BY <1>1, <1>2, <1>3, <1>4 DEF AllFiled

\* A step that makes no push client and puts no request on the way to a sender.
LEMMA Quiet ==
    ASSUME Base, OneClientPerId, clients' = clients, AnswerMatchesOffer', offering' \subseteq offering,
           \A s \in Senders : \A k \in DOMAIN queued'[s] :
              \/ \E j \in DOMAIN queued[s] : queued'[s][k] = queued[s][j]
              \/ queued'[s][k].type \in Carrying => Filed(clients, queued'[s][k].id, queued'[s][k].client),
           \A x \in Sockets : \A k \in DOMAIN toServer'[x] :
              \/ \E j \in DOMAIN toServer[x] : toServer'[x][k] = toServer[x][j]
              \/ /\ toServer'[x][k].type = "request" => x \in Receivers /\ page[x].id = NoId
                 /\ toServer'[x][k].type \in Carrying =>
                       Filed(clients, toServer'[x][k].id, toServer'[x][k].client),
           NEW d \in [Sockets -> {0, 1}],
           \A x \in Sockets : \A k \in DOMAIN toClient'[x] :
              \/ k \in Nat /\ k + d[x] \in DOMAIN toClient[x] /\ toClient'[x][k] = toClient[x][k + d[x]]
              \/ /\ toClient'[x][k].type # "request"
                 /\ toClient'[x][k].type \in Carrying =>
                       Filed(clients, toClient'[x][k].id, toClient'[x][k].client)
                 /\ x \in Receivers /\ toClient'[x][k].type = "offer" => toClient'[x][k].id = page[x].id,
           \A r \in Receivers :
              \/ /\ page'[r].id = page[r].id
                 /\ page'[r].answered \in {0, page[r].answered} \/ Filed(clients, page[r].id, page'[r].answered)
              \/ /\ page[r].id = NoId /\ page'[r].answered = 0
                 /\ \A k \in DOMAIN toClient'[r] : toClient'[r][k].type # "offer"
    PROVE  OneClientPerId'
<1>1. AllFiled'
  <2>1. \A x \in Sockets : \A k \in DOMAIN toClient'[x] :
              \/ \E j \in DOMAIN toClient[x] : toClient'[x][k] = toClient[x][j]
              \/ toClient'[x][k].type \in Carrying => Filed(clients', toClient'[x][k].id, toClient'[x][k].client)
    OBVIOUS
  <2>2. \A x \in Sockets : \A k \in DOMAIN toServer'[x] :
              \/ \E j \in DOMAIN toServer[x] : toServer'[x][k] = toServer[x][j]
              \/ toServer'[x][k].type \in Carrying => Filed(clients', toServer'[x][k].id, toServer'[x][k].client)
    OBVIOUS
  <2>3. \A r \in Receivers : page'[r].answered # 0 =>
              \/ page'[r].id = page[r].id /\ page'[r].answered = page[r].answered
              \/ Filed(clients', page'[r].id, page'[r].answered)
    OBVIOUS
  <2>4. \A o \in offering' : clients'[o.by][o.id] = o.client
    BY DEF OneClientPerId, AllFiled
  <2> QED
    BY <2>1, <2>2, <2>3, <2>4, AllFiledKept DEF OneClientPerId
<1>2. OfferedOwn'
  BY DEF OneClientPerId, OfferedOwn, Sockets
<1>3. \A id \in Ids : Asked(id) => Asked(id)'
  <2>1. \A r \in Receivers : page[r].id \in Ids => page'[r].id = page[r].id
    BY Sentinels
  <2>2. \A r \in Receivers : page[r].id \in Ids => \A k \in DOMAIN toServer'[r] :
              toServer'[r][k].type = "request" => \E j \in DOMAIN toServer[r] : toServer[r][j].type = "request"
    BY Sentinels DEF Sockets
  <2> QED
    BY <2>1, <2>2, AskedKept
<1>4. OneClientEach'
  BY <1>3 DEF OneClientPerId, OneClientEach
<1>5. RequestedOnce'
  <2> DEFINE e == [s \in Senders |-> d[s]]
  <2>1. e \in [Senders -> {0, 1}]
    BY DEF Sockets
  <2>2. \A s \in Senders : \A k \in DOMAIN toClient'[s] : toClient'[s][k].type = "request" =>
              k \in Nat /\ k + e[s] \in DOMAIN toClient[s] /\ toClient'[s][k] = toClient[s][k + e[s]]
    BY DEF Sockets
  <2> HIDE DEF e
  <2> QED
    BY <1>3, <2>1, <2>2, RequestedOnceKept DEF OneClientPerId
<1> QED
  BY <1>1, <1>2, <1>4, <1>5 DEF OneClientPerId

\* The ids are told apart before a step if they are told apart after it.
LEMMA IdsDifferBefore == Base /\ [Next]_vars /\ IdsDiffer' => IdsDiffer
<1> SUFFICES ASSUME Base, [Next]_vars, IdsDiffer' PROVE IdsDiffer
  OBVIOUS
<1>1. CASE UNCHANGED page
  BY <1>1 DEF IdsDiffer
<1>2. ASSUME NEW r \in Receivers, PageRequests(r) \/ PageOffer(r) \/ PageTold(r)
      PROVE  \A q \in Receivers : page[q].id # NoId => page'[q].id = page[q].id
  <2>1. page \in [Receivers -> [id : Ids \cup {NoId}, answered : 0..MaxClients, told : BOOLEAN]]
    BY DEF Base, TypeOK
  <2>2. CASE PageOffer(r) \/ PageTold(r)
    <3>1. ASSUME NEW v, page' = [page EXCEPT ![r].answered = v] \/ page' = [page EXCEPT ![r].told = v]
          PROVE  \A q \in Receivers : page'[q].id = page[q].id
      BY <2>1, <3>1
    <3> QED
      BY <2>2, <3>1 DEF PageOffer, PageTold
  <2>3. CASE PageRequests(r)
    <3>1. page[r].id = NoId
      BY <2>3 DEF PageRequests, Base, AsksOnce
    <3> QED
      BY <2>1, <2>3, <3>1 DEF PageRequests
  <2> QED
    BY <1>2, <2>2, <2>3
<1>3. ASSUME NEW r \in Receivers, PageRequests(r) \/ PageOffer(r) \/ PageTold(r)
      PROVE  IdsDiffer
  BY <1>2, <1>3 DEF IdsDiffer
<1>4. ASSUME NEW s \in Sockets, ServerAccepts(s) \/ ServerStep(s) \/ ClientGoes(s) PROVE UNCHANGED page
  BY <1>4 DEF ServerAccepts, ServerStep, ServerReceives, ServerDisconnects, ClientGoes, receiver
<1>5. ASSUME NEW s \in Senders, SenderConnected(s) \/ SenderReceives(s) \/ RunQueued(s) PROVE UNCHANGED page
  BY <1>5 DEF SenderConnected, SenderReceives, RequestFails, RequestServed, SenderAnswer, SenderCandidate,
              SenderIgnores, RunQueued, receiver
<1>6. ASSUME NEW s \in Senders, NEW id \in Ids, SenderIce(s, id) PROVE UNCHANGED page
  BY <1>6 DEF SenderIce, receiver
<1>7. ASSUME OfferDone PROVE UNCHANGED page
  BY <1>7 DEF OfferDone, OfferCreated, OfferFails, receiver
<1>8. ASSUME NEW r \in Receivers, PageIce(r) \/ PageCandidate(r) PROVE UNCHANGED page
  BY <1>8 DEF PageIce, PageCandidate, receiver
<1>9. CASE UNCHANGED vars
  BY <1>1, <1>9 DEF vars, receiver
<1> QED
  BY <1>1, <1>3, <1>4, <1>5, <1>6, <1>7, <1>8, <1>9 DEF Next, PageReceives

\* Steps that leave what is on its way to the clients alone, and what was applied.
LEMMA QuietWire ==
    ASSUME Base, OneClientPerId,
           UNCHANGED <<clients, applied, toClient, page>>, offering' \subseteq offering,
           \A s \in Senders : \A k \in DOMAIN queued'[s] :
              \/ \E j \in DOMAIN queued[s] : queued'[s][k] = queued[s][j]
              \/ queued'[s][k].type \in Carrying => Filed(clients, queued'[s][k].id, queued'[s][k].client),
           \A x \in Sockets : \A k \in DOMAIN toServer'[x] :
              \/ \E j \in DOMAIN toServer[x] : toServer'[x][k] = toServer[x][j]
              \/ /\ toServer'[x][k].type # "request"
                 /\ toServer'[x][k].type \in Carrying =>
                       Filed(clients, toServer'[x][k].id, toServer'[x][k].client)
    PROVE  OneClientPerId'
<1> DEFINE d == [x \in Sockets |-> 0]
<1>1. d \in [Sockets -> {0, 1}]
  OBVIOUS
<1>2. \A x \in Sockets : \A k \in DOMAIN toClient'[x] :
         k \in Nat /\ k + d[x] \in DOMAIN toClient[x] /\ toClient'[x][k] = toClient[x][k + d[x]]
  BY DEF Base, TypeOK
<1>3. AnswerMatchesOffer'
  BY DEF OneClientPerId, AnswerMatchesOffer
<1>4. \A r \in Receivers : page'[r].id = page[r].id /\ page'[r].answered = page[r].answered
  OBVIOUS
<1> HIDE DEF d
<1> QED
  BY <1>1, <1>2, <1>3, <1>4, Quiet

\* Steps that take the first message on its way to s.
LEMMA QuietTaken ==
    ASSUME Base, OneClientPerId, NEW s \in Sockets, toClient[s] # <<>>, Take(s), AnswerMatchesOffer',
           UNCHANGED <<clients, queued>>, offering' \subseteq offering,
           \A x \in Sockets : \A k \in DOMAIN toServer'[x] :
              \/ \E j \in DOMAIN toServer[x] : toServer'[x][k] = toServer[x][j]
              \/ /\ toServer'[x][k].type # "request"
                 /\ toServer'[x][k].type \in Carrying =>
                       Filed(clients, toServer'[x][k].id, toServer'[x][k].client),
           \A r \in Receivers :
              /\ page'[r].id = page[r].id
              /\ page'[r].answered \in {0, page[r].answered} \/ Filed(clients, page[r].id, page'[r].answered)
    PROVE  OneClientPerId'
<1> DEFINE d == [x \in Sockets |-> IF x = s THEN 1 ELSE 0]
<1>1. d \in [Sockets -> {0, 1}]
  OBVIOUS
<1>2. ASSUME NEW x \in Sockets, NEW k \in DOMAIN toClient'[x]
      PROVE  k \in Nat /\ k + d[x] \in DOMAIN toClient[x] /\ toClient'[x][k] = toClient[x][k + d[x]]
  <2>1. CASE x = s
    <3>1. toClient'[s] = Tail(toClient[s]) /\ toClient[s] \in Seq(Message)
      BY DEF Take, Base, TypeOK
    <3> QED
      BY <1>2, <2>1, <3>1, TailFacts
  <2>2. CASE x # s
    BY <1>2, <2>2 DEF Take, Base, TypeOK
  <2> QED
    BY <2>1, <2>2
<1>3. \A t \in Senders : \A k \in DOMAIN queued'[t] : \E j \in DOMAIN queued[t] : queued'[t][k] = queued[t][j]
  OBVIOUS
<1> HIDE DEF d
<1> QED
  BY <1>1, <1>2, <1>3, Quiet

LEMMA TailFrom ==
    ASSUME NEW q \in Seq(Message), q # <<>>
    PROVE  \A k \in DOMAIN Tail(q) : /\ k \in Nat /\ k + 1 \in DOMAIN q /\ Tail(q)[k] = q[k + 1]
                                     /\ \E j \in DOMAIN q : Tail(q)[k] = q[j]
<1>1. \A k \in DOMAIN Tail(q) : k + 1 \in DOMAIN q /\ Tail(q)[k] = q[k + 1] /\ k \in Nat
  BY TailFacts
<1> QED
  BY <1>1

\* What the steps of the senders do to the queues they append to.
LEMMA SendFacts ==
    ASSUME Base, NEW s \in Sockets, NEW m \in Message, Send(s, m)
    PROVE  \A x \in Sockets : \A k \in DOMAIN toServer'[x] :
              \/ \E j \in DOMAIN toServer[x] : toServer'[x][k] = toServer[x][j]
              \/ x = s /\ toServer'[x][k] = m
<1>1. toServer'[s] = Append(toServer[s], m) /\ \A x \in Sockets : x # s => toServer'[x] = toServer[x]
  BY DEF Send, Base, TypeOK
<1>2. toServer[s] \in Seq(Message)
  BY DEF Base, TypeOK
<1> QED
  BY <1>1, <1>2, AppendFacts

LEMMA OneClientSenderSteps ==
    ASSUME Base, OneClientPerId, IdsDiffer, NEW s \in Senders,
           SenderConnected(s) \/ SenderReceives(s) \/ RunQueued(s) \/ \E id \in Ids : SenderIce(s, id)
    PROVE  OneClientPerId'
<1>0. s \in Sockets
  BY DEF Sockets
<1>1. \A x \in Sockets : \A k \in DOMAIN toServer'[x] : toServer' = toServer =>
         \E j \in DOMAIN toServer[x] : toServer'[x][k] = toServer[x][j]
  OBVIOUS
<1>2. CASE SenderConnected(s)
  <2> DEFINE m == Msg("sender-ready", NoId, 0)
  <2>1. m \in Message /\ m.type = "sender-ready"
    BY BoundsAreNat DEF Msg, Message
  <2> HIDE DEF m
  <2>2. Send(s, m)
    BY <1>2 DEF SenderConnected, m
  <2>3. \A x \in Sockets : \A k \in DOMAIN toServer'[x] :
              \/ \E j \in DOMAIN toServer[x] : toServer'[x][k] = toServer[x][j]
              \/ /\ toServer'[x][k].type # "request"
                 /\ toServer'[x][k].type \in Carrying =>
                       Filed(clients, toServer'[x][k].id, toServer'[x][k].client)
    BY <1>0, <2>1, <2>2, SendFacts DEF Carrying
  <2> QED
    BY <1>2, <2>3, QuietWire DEF SenderConnected, sender, receiver
<1>3. ASSUME NEW id \in Ids, SenderIce(s, id) PROVE OneClientPerId'
  <2> DEFINE m == Msg("candidate", id, clients[s][id])
  <2>1. m.type = "candidate" /\ Filed(clients, m.id, m.client) /\ m \in Message
    BY <1>3 DEF Filed, Msg, SenderIce, HasOffered, Message, Base, TypeOK, Server!Forwarded
  <2> HIDE DEF m
  <2>2. queued'[s] = Append(queued[s], m) /\ queued[s] \in Seq(Message)
        /\ \A t \in Senders : t # s => queued'[t] = queued[t]
    BY <1>3 DEF SenderIce, Base, TypeOK, m
  <2>3. \A t \in Senders : \A k \in DOMAIN queued'[t] :
              \/ \E j \in DOMAIN queued[t] : queued'[t][k] = queued[t][j]
              \/ queued'[t][k].type \in Carrying => Filed(clients, queued'[t][k].id, queued'[t][k].client)
    BY <2>1, <2>2, AppendFacts
  <2> QED
    BY <1>1, <1>3, <2>3, QuietWire DEF SenderIce, receiver
<1>4. CASE RunQueued(s)
  <2> DEFINE m == Head(queued[s])
  <2>1. /\ queued[s] \in Seq(Message) /\ queued[s] # <<>>
        /\ queued'[s] = Tail(queued[s]) /\ \A t \in Senders : t # s => queued'[t] = queued[t]
    BY <1>4 DEF RunQueued, Base, TypeOK
  <2>2. \A t \in Senders : \A k \in DOMAIN queued'[t] : \E j \in DOMAIN queued[t] : queued'[t][k] = queued[t][j]
    <3>1. \A k \in DOMAIN queued'[s] : \E j \in DOMAIN queued[s] : queued'[s][k] = queued[s][j]
      BY <2>1, TailFrom
    <3> QED
      BY <2>1, <3>1
  <2>3. m = queued[s][1] /\ 1 \in DOMAIN queued[s] /\ m \in Message
    BY <2>1, TailFacts
  <2>4. m.type # "request" /\ (m.type \in Carrying => Filed(clients, m.id, m.client))
    BY <2>3 DEF Base, Traffic, OneClientPerId, AllFiled, Sound
  <2>5. toServer' = toServer \/ Send(s, m)
    BY <1>4 DEF RunQueued
  <2> HIDE DEF m
  <2>6. \A x \in Sockets : \A k \in DOMAIN toServer'[x] :
              \/ \E j \in DOMAIN toServer[x] : toServer'[x][k] = toServer[x][j]
              \/ /\ toServer'[x][k].type # "request"
                 /\ toServer'[x][k].type \in Carrying =>
                       Filed(clients, toServer'[x][k].id, toServer'[x][k].client)
    BY <1>0, <1>1, <2>3, <2>4, <2>5, SendFacts
  <2> QED
    BY <1>4, <2>2, <2>6, QuietWire DEF RunQueued, receiver
<1>5. CASE SenderCandidate(s) \/ SenderIgnores(s)
  <2>1. AnswerMatchesOffer'
    BY <1>5 DEF SenderCandidate, SenderIgnores, sender, OneClientPerId, AnswerMatchesOffer
  <2>2. toClient[s] # <<>>
    BY <1>5 DEF SenderCandidate, SenderIgnores, Received
  <2> QED
    BY <1>0, <1>1, <1>5, <2>1, <2>2, QuietTaken DEF SenderCandidate, SenderIgnores, sender, receiver
<1>6. CASE RequestFails(s)
  <2> DEFINE m == Msg("error", Head(toClient[s]).id, 0)
  <2>1. toClient[s] # <<>> /\ toClient[s] \in Seq(Message)
    BY <1>0, <1>6 DEF RequestFails, Received, Base, TypeOK
  <2>2. Head(toClient[s]) \in Message
    BY <2>1, TailFacts
  <2>3. m \in Message /\ m.type = "error"
    BY <2>2, BoundsAreNat DEF Msg, Message, Server!Forwarded
  <2>4. Send(s, m) \/ UNCHANGED toServer
    BY <1>6 DEF RequestFails
  <2> HIDE DEF m
  <2>5. \A x \in Sockets : \A k \in DOMAIN toServer'[x] :
              \/ \E j \in DOMAIN toServer[x] : toServer'[x][k] = toServer[x][j]
              \/ /\ toServer'[x][k].type # "request"
                 /\ toServer'[x][k].type \in Carrying =>
                       Filed(clients, toServer'[x][k].id, toServer'[x][k].client)
    BY <1>0, <1>1, <2>3, <2>4, SendFacts DEF Carrying
  <2>6. AnswerMatchesOffer'
    BY <1>6 DEF RequestFails, sender, OneClientPerId, AnswerMatchesOffer
  <2> QED
    BY <1>0, <1>6, <2>1, <2>5, <2>6, QuietTaken DEF RequestFails, sender, receiver
<1>7. CASE SenderAnswer(s)
  <2> DEFINE m == Head(toClient[s])
  <2>1. toClient[s] # <<>> /\ toClient[s] \in Seq(Message) /\ m.type = "answer"
    BY <1>0, <1>7 DEF SenderAnswer, Received, Base, TypeOK
  <2>2. m = toClient[s][1] /\ 1 \in DOMAIN toClient[s]
    BY <2>1, TailFacts
  <2>3. Filed(clients, m.id, m.client)
    BY <1>0, <2>1, <2>2 DEF OneClientPerId, AllFiled, Sound, Carrying
  <2>4. PICK t \in Senders : m.id \in Ids /\ m.client # 0 /\ clients[t][m.id] = m.client
    BY <2>3 DEF Filed
  <2>5. clients[s][m.id] # 0 => clients[s][m.id] = m.client
    BY <2>4 DEF OneClientPerId, OneClientEach
  <2>6. applied' = applied \/ applied' = applied \cup {<<m.client, m.client>>}
    BY <1>7, <2>5 DEF SenderAnswer
  <2> HIDE DEF m
  <2>7. AnswerMatchesOffer'
    BY <2>6 DEF OneClientPerId, AnswerMatchesOffer
  <2> QED
    BY <1>0, <1>1, <1>7, <2>1, <2>7, QuietTaken DEF SenderAnswer, receiver
<1>8. CASE RequestServed(s)
  <2> DEFINE i == Head(toClient[s]).id
             c == made + 1
  <2>1. toClient[s] # <<>> /\ toClient[s] \in Seq(Message) /\ Head(toClient[s]).type = "request"
    BY <1>0, <1>8 DEF RequestServed, Received, Base, TypeOK
  <2>2. Head(toClient[s]) = toClient[s][1] /\ 1 \in DOMAIN toClient[s]
    BY <2>1, TailFacts
  <2>3. i \in Ids /\ IsRequest(toClient[s][1], i)
    BY <2>1, <2>2 DEF IsRequest, Base, Traffic
  <2>4. /\ Asked(i) /\ \A t \in Senders : clients[t][i] = 0
        /\ \A t \in Senders : \A l \in DOMAIN toClient[t] : IsRequest(toClient[t][l], i) => t = s /\ l = 1
    BY <2>2, <2>3 DEF OneClientPerId, RequestedOnce
  <2>5. /\ clients' = [clients EXCEPT ![s][i] = c]
        /\ offering' \subseteq offering \cup {[client |-> c, by |-> s, id |-> i]}
        /\ UNCHANGED <<toServer, queued, page, applied>>
        /\ c # 0
    BY <1>8 DEF RequestServed, receiver, Base, TypeOK
  <2>6. toClient'[s] = Tail(toClient[s]) /\ \A x \in Sockets : x # s => toClient'[x] = toClient[x]
    BY <1>0, <1>8 DEF RequestServed, Take, Base, TypeOK
  <2> HIDE DEF i, c
  <2>7. /\ clients'[s][i] = c
        /\ \A t \in Senders, id \in Ids : <<t, id>> # <<s, i>> => clients'[t][id] = clients[t][id]
    BY <2>3, <2>5 DEF Base, TypeOK
  <2>8. \A id, f : Filed(clients, id, f) => Filed(clients', id, f)
    BY <2>4, <2>7 DEF Filed
  <2>9. \A o \in offering' : clients'[o.by][o.id] = o.client
    <3>1. \A o \in offering : o.by \in Senders /\ o.id \in Ids /\ o.client # 0 /\ clients[o.by][o.id] = o.client
      BY DEF OneClientPerId, AllFiled, Base, TypeOK, Offers, PushClients
    <3> QED
      BY <2>4, <2>5, <2>7, <3>1
  <2>10. \A x \in Sockets : \A k \in DOMAIN toClient'[x] : \E j \in DOMAIN toClient[x] : toClient'[x][k] = toClient[x][j]
    <3>1. \A k \in DOMAIN toClient'[s] : \E j \in DOMAIN toClient[s] : toClient'[s][k] = toClient[s][j]
      BY <2>1, <2>6, TailFrom
    <3> QED
      BY <2>6, <3>1
  <2>11. AllFiled'
    <3>1. \A t \in Senders : \A k \in DOMAIN queued'[t] : \E j \in DOMAIN queued[t] : queued'[t][k] = queued[t][j]
      BY <2>5
    <3>2. \A x \in Sockets : \A k \in DOMAIN toServer'[x] : \E j \in DOMAIN toServer[x] : toServer'[x][k] = toServer[x][j]
      BY <2>5
    <3> QED
      BY <2>5, <2>8, <2>9, <2>10, <3>1, <3>2, AllFiledKept DEF OneClientPerId
  <2>12. OfferedOwn'
    BY <2>5, <2>10 DEF OneClientPerId, OfferedOwn, Sockets
  <2>13. \A id \in Ids : Asked(id) => Asked(id)'
    BY <2>5, AskedKept
  <2>14. OneClientEach'
    <3>1. \A id \in Ids : \A t, u \in Senders : clients'[t][id] # 0 /\ clients'[u][id] # 0 => t = u
      BY <2>4, <2>7 DEF OneClientPerId, OneClientEach
    <3>2. \A id \in Ids, t \in Senders : clients'[t][id] # 0 => Asked(id)'
      BY <2>4, <2>7, <2>13 DEF OneClientPerId, OneClientEach
    <3> QED
      BY <3>1, <3>2 DEF OneClientEach
  <2>15. RequestedOnce'
    <3> DEFINE d == [t \in Senders |-> IF t = s THEN 1 ELSE 0]
    <3>1. d \in [Senders -> {0, 1}]
      OBVIOUS
    <3>2. ASSUME NEW t \in Senders, NEW k \in DOMAIN toClient'[t]
          PROVE  k \in Nat /\ k + d[t] \in DOMAIN toClient[t] /\ toClient'[t][k] = toClient[t][k + d[t]]
      <4>1. CASE t = s
        BY <2>1, <2>6, <3>2, <4>1, TailFrom
      <4>2. CASE t # s
        BY <2>6, <3>2, <4>2 DEF Base, TypeOK, Sockets
      <4> QED
        BY <4>1, <4>2
    <3>3. \A t \in Senders : \A k \in DOMAIN toClient'[t] : ~IsRequest(toClient'[t][k], i)
      <4>1. ASSUME NEW t \in Senders, NEW k \in DOMAIN toClient'[t], IsRequest(toClient'[t][k], i) PROVE FALSE
        <5>1. /\ k \in Nat /\ k + d[t] \in DOMAIN toClient[t]
              /\ IsRequest(toClient[t][k + d[t]], i) /\ k # 0
          BY <2>1, <2>6, <3>2, <4>1, TailFrom DEF Base, TypeOK, Sockets
        <5>2. t = s /\ k + d[t] = 1
          BY <2>4, <5>1
        <5> QED
          BY <5>1, <5>2
      <4> QED
        BY <4>1
    <3> HIDE DEF d
    <3>4. \A id \in Ids : \/ \A t \in Senders : clients'[t][id] = clients[t][id]
                          \/ \A t \in Senders : \A k \in DOMAIN toClient'[t] : ~IsRequest(toClient'[t][k], id)
      BY <2>7, <3>3
    <3> QED
      BY <2>13, <3>1, <3>2, <3>4, RequestedOnceKept DEF OneClientPerId
  <2>16. AnswerMatchesOffer'
    BY <2>5 DEF OneClientPerId, AnswerMatchesOffer
  <2> QED
    BY <2>11, <2>12, <2>14, <2>15, <2>16 DEF OneClientPerId
<1> QED
  BY <1>2, <1>3, <1>4, <1>5, <1>6, <1>7, <1>8 DEF SenderReceives

LEMMA OneClientPageSteps ==
    ASSUME Base, OneClientPerId, IdsDiffer, NEW r \in Receivers,
           PageRequests(r) \/ PageReceives(r) \/ PageIce(r)
    PROVE  OneClientPerId'
<1>0. r \in Sockets /\ page \in [Receivers -> [id : Ids \cup {NoId}, answered : 0..MaxClients, told : BOOLEAN]]
  BY DEF Sockets, Base, TypeOK
<1>1. CASE PageRequests(r)
  <2>1. PICK i \in Ids : page' = [page EXCEPT ![r].id = i] /\ Send(r, Msg("request", i, 0))
    BY <1>1 DEF PageRequests
  <2> DEFINE m == Msg("request", i, 0)
             d == [x \in Sockets |-> 0]
  <2>2. m \in Message /\ m.type = "request"
    BY BoundsAreNat DEF Msg, Message
  <2> HIDE DEF m
  <2>3. r \notin said /\ Fresh(r) /\ page[r].id = NoId
    BY <1>1 DEF PageRequests, Base, AsksOnce
  <2>4. \A x \in Sockets : \A k \in DOMAIN toServer'[x] :
              \/ \E j \in DOMAIN toServer[x] : toServer'[x][k] = toServer[x][j]
              \/ /\ toServer'[x][k].type = "request" => x \in Receivers /\ page[x].id = NoId
                 /\ toServer'[x][k].type \in Carrying =>
                       Filed(clients, toServer'[x][k].id, toServer'[x][k].client)
    BY <1>0, <2>1, <2>2, <2>3, SendFacts DEF Carrying, m
  <2>5. toClient' = toClient
    BY <1>1 DEF PageRequests
  <2>6. \A q \in Receivers :
              \/ page'[q].id = page[q].id /\ page'[q].answered \in {0, page[q].answered}
              \/ /\ page[q].id = NoId /\ page'[q].answered = 0
                 /\ \A k \in DOMAIN toClient'[q] : toClient'[q][k].type # "offer"
    BY <1>0, <2>1, <2>3, <2>5 DEF Fresh
  <2>7. d \in [Sockets -> {0, 1}]
    OBVIOUS
  <2>8. \A x \in Sockets : \A k \in DOMAIN toClient'[x] :
           k \in Nat /\ k + d[x] \in DOMAIN toClient[x] /\ toClient'[x][k] = toClient[x][k + d[x]]
    BY <2>5 DEF Base, TypeOK
  <2>9. AnswerMatchesOffer' /\ clients' = clients /\ offering' \subseteq offering /\ queued' = queued
    BY <1>1 DEF PageRequests, sender, OneClientPerId, AnswerMatchesOffer
  <2>10. \A s \in Senders : \A k \in DOMAIN queued'[s] : \E j \in DOMAIN queued[s] : queued'[s][k] = queued[s][j]
    BY <2>9
  <2> HIDE DEF d
  <2> QED
    BY <2>4, <2>6, <2>7, <2>8, <2>9, <2>10, Quiet
<1>2. CASE PageOffer(r)
  <2> DEFINE o == Head(toClient[r])
             m == Msg("answer", page[r].id, o.client)
  <2>1. toClient[r] # <<>> /\ toClient[r] \in Seq(Message) /\ o.type = "offer"
    BY <1>0, <1>2 DEF PageOffer, Received, Base, TypeOK
  <2>2. o = toClient[r][1] /\ 1 \in DOMAIN toClient[r] /\ o \in Message
    BY <2>1, TailFacts
  <2>3. o.id = page[r].id /\ Filed(clients, o.id, o.client)
    BY <1>0, <2>1, <2>2 DEF OneClientPerId, AllFiled, OfferedOwn, Sound, Carrying
  <2>4. m \in Message /\ m.type = "answer" /\ Filed(clients, m.id, m.client)
    BY <1>0, <2>2, <2>3 DEF Msg, Message, Server!Forwarded
  <2>5. toServer' = [toServer EXCEPT ![r] = @ \o <<m>>]
    BY <1>2 DEF PageOffer, PageAnswer
  <2>6. page' = [page EXCEPT ![r].answered = o.client] /\ AnswerMatchesOffer'
    BY <1>2 DEF PageOffer, sender, OneClientPerId, AnswerMatchesOffer
  <2>7. Take(r) /\ UNCHANGED <<clients, queued>> /\ offering' \subseteq offering
    BY <1>2 DEF PageOffer, sender
  <2> HIDE DEF m
  <2>8. Send(r, m)
    <3>1. \A q \in Seq(Message) : q \o <<m>> = Append(q, m)
      BY <2>4
    <3> QED
      BY <1>0, <2>5, <3>1 DEF Send, Base, TypeOK
  <2>9. \A x \in Sockets : \A k \in DOMAIN toServer'[x] :
              \/ \E j \in DOMAIN toServer[x] : toServer'[x][k] = toServer[x][j]
              \/ /\ toServer'[x][k].type # "request"
                 /\ toServer'[x][k].type \in Carrying =>
                       Filed(clients, toServer'[x][k].id, toServer'[x][k].client)
    BY <1>0, <2>4, <2>8, SendFacts
  <2>10. \A q \in Receivers :
              /\ page'[q].id = page[q].id
              /\ page'[q].answered = page[q].answered \/ Filed(clients, page[q].id, page'[q].answered)
    BY <1>0, <2>3, <2>6
  <2> HIDE DEF o
  <2> QED
    BY <1>0, <2>1, <2>6, <2>7, <2>9, <2>10, QuietTaken
<1>3. CASE PageTold(r) \/ PageCandidate(r)
  <2>1. toClient[r] # <<>> /\ Take(r) /\ toServer' = toServer /\ UNCHANGED <<clients, queued, offering, applied>>
    BY <1>3 DEF PageTold, PageCandidate, Received, sender
  <2>2. AnswerMatchesOffer'
    BY <2>1 DEF OneClientPerId, AnswerMatchesOffer
  <2>3. \A q \in Receivers : page'[q].id = page[q].id /\ page'[q].answered = page[q].answered
    <3>1. page' = [page EXCEPT ![r].told = TRUE] \/ page' = page
      BY <1>3 DEF PageTold, PageCandidate, receiver
    <3> QED
      BY <1>0, <3>1
  <2>4. \A x \in Sockets : \A k \in DOMAIN toServer'[x] : \E j \in DOMAIN toServer[x] : toServer'[x][k] = toServer[x][j]
    BY <2>1
  <2> QED
    BY <1>0, <2>1, <2>2, <2>3, <2>4, QuietTaken
<1>4. CASE PageIce(r)
  <2> DEFINE m == Msg("candidate", page[r].id, page[r].answered)
  <2>1. m \in Message /\ m.type = "candidate" /\ Filed(clients, m.id, m.client)
    BY <1>0, <1>4 DEF PageIce, Msg, Message, Server!Forwarded, OneClientPerId, AllFiled
  <2>2. Send(r, m) /\ UNCHANGED <<clients, applied, toClient, page, queued, offering>>
    BY <1>4 DEF PageIce, sender, receiver
  <2> HIDE DEF m
  <2>3. \A x \in Sockets : \A k \in DOMAIN toServer'[x] :
              \/ \E j \in DOMAIN toServer[x] : toServer'[x][k] = toServer[x][j]
              \/ /\ toServer'[x][k].type # "request"
                 /\ toServer'[x][k].type \in Carrying =>
                       Filed(clients, toServer'[x][k].id, toServer'[x][k].client)
    BY <1>0, <2>1, <2>2, SendFacts
  <2>4. \A s \in Senders : \A k \in DOMAIN queued'[s] : \E j \in DOMAIN queued[s] : queued'[s][k] = queued[s][j]
    BY <2>2
  <2> QED
    BY <2>2, <2>3, <2>4, QuietWire
<1> QED
  BY <1>1, <1>2, <1>3, <1>4 DEF PageReceives

\* The server passes on what it was sent, to the peer of the session.
LEMMA OneClientServerReceives ==
    ASSUME Base, OneClientPerId, IdsDiffer, NEW s \in Sockets, ServerReceives(s)
    PROVE  OneClientPerId'
<1> DEFINE m == Head(toServer[s])
<1>1. /\ m = toServer[s][1] /\ 1 \in DOMAIN toServer[s] /\ m \in Message
      /\ toServer[s] \in Seq(Message) /\ toServer[s] # <<>>
  BY TailFacts DEF ServerReceives, Base, TypeOK
<1>2. /\ toServer'[s] = Tail(toServer[s])
      /\ \A x \in Sockets : x # s => toServer'[x] = toServer[x]
      /\ UNCHANGED <<clients, applied, page, queued, offering>>
  BY DEF ServerReceives, sender, receiver, Base, TypeOK
<1>3. m.type \in Carrying => Filed(clients, m.id, m.client)
  BY <1>1 DEF OneClientPerId, AllFiled, Sound
<1>4. \A x \in Sockets : \A k \in DOMAIN toServer'[x] : \E j \in DOMAIN toServer[x] : toServer'[x][k] = toServer[x][j]
  <2>1. \A k \in DOMAIN toServer'[s] : \E j \in DOMAIN toServer[s] : toServer'[s][k] = toServer[s][j]
    BY <1>1, <1>2, TailFrom
  <2> QED
    BY <1>2, <2>1
<1>5. AnswerMatchesOffer'
  BY <1>2 DEF OneClientPerId, AnswerMatchesOffer
<1>6. \A t \in Senders : \A k \in DOMAIN queued'[t] : \E j \in DOMAIN queued[t] : queued'[t][k] = queued[t][j]
  BY <1>2
<1>7. \A r \in Receivers : page'[r].id = page[r].id /\ page'[r].answered = page[r].answered
  BY <1>2
<1> DEFINE d == [x \in Sockets |-> 0]
<1>8. d \in [Sockets -> {0, 1}] /\ \A x \in Sockets : d[x] = 0
  OBVIOUS
<1> HIDE DEF d
<1>9. ASSUME NEW t \in Sockets, NEW n \in Message, Sent(t, n)
      PROVE  \A x \in Sockets : \A k \in DOMAIN toClient'[x] :
                \/ k \in Nat /\ k + d[x] \in DOMAIN toClient[x] /\ toClient'[x][k] = toClient[x][k + d[x]]
                \/ x = t /\ k = Len(toClient[t]) + 1 /\ toClient'[x][k] = n
  <2>1. toClient[t] \in Seq(Message) /\ \A x \in Sockets : DOMAIN toClient[x] \subseteq Nat
    BY DEF Base, TypeOK
  <2>2. /\ toClient'[t] \in {toClient[t], Append(toClient[t], n)}
        /\ \A x \in Sockets : x # t => toClient'[x] = toClient[x]
    BY <1>9 DEF Sent, Base, TypeOK
  <2>3. \A k \in DOMAIN toClient'[t] :
           \/ k \in DOMAIN toClient[t] /\ toClient'[t][k] = toClient[t][k]
           \/ k = Len(toClient[t]) + 1 /\ toClient'[t][k] = n
    BY <2>1, <2>2, AppendFacts
  <2> QED
    BY <1>8, <2>1, <2>2, <2>3
<1>10. ASSUME NEW t \in Sockets, NEW n \in Message, Sent(t, n), n.type # "request",
              n.type \in Carrying => Filed(clients, n.id, n.client),
              t \in Receivers /\ n.type = "offer" => n.id = page[t].id
       PROVE  OneClientPerId'
  <2>1. \A x \in Sockets : \A k \in DOMAIN toClient'[x] :
              \/ k \in Nat /\ k + d[x] \in DOMAIN toClient[x] /\ toClient'[x][k] = toClient[x][k + d[x]]
              \/ /\ toClient'[x][k].type # "request"
                 /\ toClient'[x][k].type \in Carrying =>
                       Filed(clients, toClient'[x][k].id, toClient'[x][k].client)
                 /\ x \in Receivers /\ toClient'[x][k].type = "offer" => toClient'[x][k].id = page[x].id
    BY <1>9, <1>10
  <2> QED
    BY <1>2, <1>4, <1>5, <1>6, <1>7, <1>8, <2>1, Quiet
<1>11. CASE Registered(s)
  BY <1>2, <1>4, <1>6, <1>11, QuietWire DEF Registered
<1>12. CASE Refused(s)
  <2> DEFINE n == Msg("error", NoId, 0)
  <2>1. n \in Message /\ n.type = "error"
    BY BoundsAreNat DEF Msg, Message, Server!Forwarded
  <2>2. Sent(s, n)
    BY <1>12 DEF Refused
  <2> HIDE DEF n
  <2> QED
    BY <1>10, <2>1, <2>2 DEF Carrying
<1>13. ASSUME NEW t \in Sockets, PassedOn(s, t, m) PROVE OneClientPerId'
  <2>1. Sent(t, m) /\ m.type # "request" /\ m.id \in Ids
    BY <1>13 DEF PassedOn, Server!Forwarded
  <2>2. t \in Receivers => m.id = page[t].id
    BY <1>13, SessionEnds, DisjointRoles DEF PassedOn
  <2> QED
    BY <1>1, <1>3, <1>10, <2>1, <2>2
<1>14. ASSUME NEW t \in Senders, m.type = "request", Joined(s, t, m.id, m.client) PROVE OneClientPerId'
  <2>1. s \in Receivers /\ m.id \in Ids /\ page[s].id = m.id
    BY <1>14 DEF Joined
  <2>2. toServer'[s] = <<>>
    <3>1. Len(toServer[s]) = 1
      BY <1>1, <1>14, <2>1 DEF Base, AsksOnce
    <3>2. toServer'[s] \in Seq(Message) /\ Len(toServer'[s]) = 0
      BY <1>1, <1>2, <3>1, TailFacts
    <3> QED
      BY <3>2
  <2>0. PICK i \in Ids : i = m.id
    BY <2>1
  <2> DEFINE n == Msg("request", m.id, m.client)
  <2>3. n \in Message /\ n.type = "request" /\ n.id = i
    BY <1>1, <2>0 DEF Msg, Message
  <2>4. Sent(t, n) /\ t \in Sockets
    BY <1>14 DEF Joined, Sockets
  <2>5. ~Asked(i)
    <3>1. i # NoId
      BY Sentinels
    <3>2. \A r \in Receivers : page[r].id = i => r = s
      BY <2>0, <2>1, <3>1 DEF IdsDiffer
    <3> QED
      BY <1>1, <1>14, <3>2 DEF Asked
  <2>6. Asked(i)'
    <3>1. page'[s].id = i
      BY <1>2, <2>0, <2>1
    <3>2. DOMAIN toServer'[s] = {}
      BY <2>2
    <3> QED
      BY <2>1, <3>1, <3>2 DEF Asked
  <2> HIDE DEF n, m
  <2>7. \A x \in Sockets : \A k \in DOMAIN toClient'[x] :
           \/ k \in Nat /\ k \in DOMAIN toClient[x] /\ toClient'[x][k] = toClient[x][k]
           \/ x = t /\ k = Len(toClient[t]) + 1 /\ toClient'[x][k] = n
    BY <1>8, <1>9, <2>3, <2>4
  <2>8. AllFiled'
    <3>1. \A x \in Sockets : \A k \in DOMAIN toClient'[x] :
             \/ \E j \in DOMAIN toClient[x] : toClient'[x][k] = toClient[x][j]
             \/ toClient'[x][k].type \in Carrying => Filed(clients', toClient'[x][k].id, toClient'[x][k].client)
      BY <2>3, <2>7 DEF Carrying
    <3>2. \A o \in offering' : clients'[o.by][o.id] = o.client
      BY <1>2 DEF OneClientPerId, AllFiled
    <3>3. \A id, c : Filed(clients, id, c) => Filed(clients', id, c)
      BY <1>2
    <3> QED
      BY <1>4, <1>6, <1>7, <3>1, <3>2, <3>3, AllFiledKept DEF OneClientPerId
  <2>9. OfferedOwn'
    BY <1>2, <2>3, <2>7 DEF OneClientPerId, OfferedOwn, Sockets
  <2>10. \A id \in Ids : Asked(id) => Asked(id)'
    <3>1. \A r \in Receivers : page[r].id \in Ids => \A k \in DOMAIN toServer'[r] :
              toServer'[r][k].type = "request" => \E j \in DOMAIN toServer[r] : toServer[r][j].type = "request"
      BY <1>4 DEF Sockets
    <3> QED
      BY <1>7, <3>1, AskedKept
  <2>11. OneClientEach'
    BY <1>2, <2>10 DEF OneClientPerId, OneClientEach
  <2>12. \A x \in Senders : clients[x][i] = 0
    BY <2>5 DEF OneClientPerId, OneClientEach
  <2>13. \A x \in Senders : \A k \in DOMAIN toClient[x] : ~IsRequest(toClient[x][k], i)
    BY <2>5 DEF OneClientPerId, RequestedOnce
  <2>14. RequestedOnce'
    <3>1. ASSUME NEW x \in Senders, NEW k \in DOMAIN toClient'[x], IsRequest(toClient'[x][k], i)
          PROVE  x = t /\ k = Len(toClient[t]) + 1
      <4>1. x \in Sockets
        BY DEF Sockets
      <4>2. k \in DOMAIN toClient[x] => toClient'[x][k] # toClient[x][k]
        BY <2>13, <3>1
      <4> QED
        BY <2>7, <3>1, <4>1, <4>2
    <3>2. ASSUME NEW id \in Ids, id # i, NEW x \in Senders, NEW k \in DOMAIN toClient'[x],
                 IsRequest(toClient'[x][k], id)
          PROVE  k \in DOMAIN toClient[x] /\ IsRequest(toClient[x][k], id)
      BY <2>3, <2>7, <3>2 DEF IsRequest, Sockets
    <3>3. ASSUME NEW id \in Ids, NEW x \in Senders, NEW k \in DOMAIN toClient'[x], IsRequest(toClient'[x][k], id)
          PROVE  /\ Asked(id)'
                 /\ \A y \in Senders : clients'[y][id] = 0
                 /\ \A y \in Senders : \A l \in DOMAIN toClient'[y] : IsRequest(toClient'[y][l], id) => y = x /\ l = k
      <4>1. CASE id = i
        <5>1. \A y \in Senders : \A l \in DOMAIN toClient'[y] : IsRequest(toClient'[y][l], id) => y = x /\ l = k
          BY <3>1, <3>3, <4>1
        <5> QED
          BY <1>2, <2>6, <2>12, <4>1, <5>1
      <4>2. CASE id # i
        BY <1>2, <2>10, <3>2, <3>3, <4>2 DEF OneClientPerId, RequestedOnce
      <4> QED
        BY <4>1, <4>2
    <3> QED
      BY <3>3 DEF RequestedOnce
  <2> QED
    BY <1>5, <2>8, <2>9, <2>11, <2>14 DEF OneClientPerId
<1> QED
  BY <1>11, <1>12, <1>13, <1>14, Receives

LEMMA OneClientServerOther ==
    ASSUME Base, OneClientPerId, NEW s \in Sockets,
           ServerAccepts(s) \/ ClientGoes(s) \/ ServerDisconnects(s)
    PROVE  OneClientPerId'
<1>1. /\ UNCHANGED <<clients, applied, page, queued, offering>>
      /\ \A r \in Receivers : page'[r].id = page[r].id /\ page'[r].answered = page[r].answered
  BY DEF ServerAccepts, ClientGoes, ServerDisconnects, sender, receiver
<1>2. AnswerMatchesOffer'
  BY <1>1 DEF OneClientPerId, AnswerMatchesOffer
<1>3. \A t \in Senders : \A k \in DOMAIN queued'[t] : \E j \in DOMAIN queued[t] : queued'[t][k] = queued[t][j]
  BY <1>1
<1>4. \A x \in Sockets : \A k \in DOMAIN toServer'[x] : \E j \in DOMAIN toServer[x] : toServer'[x][k] = toServer[x][j]
  <2>1. \A x \in Sockets : toServer'[x] = toServer[x] \/ toServer'[x] = <<>>
    BY DEF ServerAccepts, ClientGoes, ServerDisconnects, Base, TypeOK
  <2>2. \A x \in Sockets : DOMAIN toServer'[x] = {} \/ toServer'[x] = toServer[x]
    BY <2>1
  <2> QED
    BY <2>2
<1> DEFINE d == [x \in Sockets |-> 0]
<1>5. d \in [Sockets -> {0, 1}] /\ \A x \in Sockets : d[x] = 0
  OBVIOUS
<1> HIDE DEF d
<1>6. \A x \in Sockets : \A k \in DOMAIN toClient'[x] :
          \/ k \in Nat /\ k + d[x] \in DOMAIN toClient[x] /\ toClient'[x][k] = toClient[x][k + d[x]]
          \/ toClient'[x][k].type = "peer-disconnected"
  <2>0. \A x \in Sockets : toClient[x] \in Seq(Message) /\ DOMAIN toClient[x] \subseteq Nat
    BY DEF Base, TypeOK
  <2>1. CASE ServerAccepts(s) \/ ClientGoes(s)
    <3>1. \A x \in Sockets : toClient'[x] = toClient[x] \/ toClient'[x] = <<>>
      BY <2>1 DEF ServerAccepts, ClientGoes, Base, TypeOK
    <3>2. \A x \in Sockets : DOMAIN toClient'[x] = {} \/ toClient'[x] = toClient[x]
      BY <3>1
    <3> QED
      BY <1>5, <2>0, <3>2
  <2>2. CASE ServerDisconnects(s)
    <3>1. ASSUME NEW x \in Sockets, NEW k \in DOMAIN toClient'[x]
          PROVE  \/ k \in Nat /\ k \in DOMAIN toClient[x] /\ toClient'[x][k] = toClient[x][k]
                 \/ toClient'[x][k].type = "peer-disconnected"
      <4>1. CASE toClient'[x] = toClient[x]
        BY <2>0, <3>1, <4>1
      <4>2. ASSUME NEW i \in Ids, toClient'[x] = Append(toClient[x], Msg("peer-disconnected", i, 0))
            PROVE  \/ k \in Nat /\ k \in DOMAIN toClient[x] /\ toClient'[x][k] = toClient[x][k]
                   \/ toClient'[x][k].type = "peer-disconnected"
        <5> DEFINE n == Msg("peer-disconnected", i, 0)
        <5>1. n \in Message /\ n.type = "peer-disconnected"
          BY BoundsAreNat DEF Msg, Message
        <5> HIDE DEF n
        <5>2. toClient'[x] = Append(toClient[x], n)
          BY <4>2 DEF n
        <5> QED
          BY <2>0, <3>1, <5>1, <5>2, AppendFacts
      <4> QED
        BY <2>2, <4>1, <4>2, Disconnects DEF Notified
    <3> QED
      BY <1>5, <3>1
  <2> QED
    BY <2>1, <2>2
<1> QED
  BY <1>1, <1>2, <1>3, <1>4, <1>5, <1>6, Quiet DEF Carrying

LEMMA OneClientInit == Init => OneClientPerId
<1> SUFFICES ASSUME Init PROVE OneClientPerId
  OBVIOUS
<1>1. /\ \A x \in Sockets : DOMAIN toServer[x] = {} /\ DOMAIN toClient[x] = {}
      /\ \A s \in Senders : DOMAIN queued[s] = {} /\ \A id \in Ids : clients[s][id] = 0
      /\ offering = {} /\ applied = {} /\ \A r \in Receivers : page[r].answered = 0
  BY DEF Init
<1> QED
  BY <1>1 DEF OneClientPerId, AllFiled, Sound, OfferedOwn, OneClientEach, RequestedOnce, AnswerMatchesOffer, Sockets

LEMMA OneClientKept == Base /\ DInv /\ [Next]_vars => DInv'
<1> SUFFICES ASSUME Base, DInv, [Next]_vars, IdsDiffer' PROVE OneClientPerId'
  BY DEF DInv
<1>0. IdsDiffer /\ OneClientPerId
  BY IdsDifferBefore DEF DInv
<1>1. ASSUME NEW s \in Sockets, ServerAccepts(s) \/ ServerStep(s) \/ ClientGoes(s) PROVE OneClientPerId'
  BY <1>0, <1>1, OneClientServerReceives, OneClientServerOther DEF ServerStep
<1>2. ASSUME NEW s \in Senders, SenderConnected(s) \/ SenderReceives(s) \/ RunQueued(s) PROVE OneClientPerId'
  BY <1>0, <1>2, OneClientSenderSteps
<1>3. ASSUME NEW s \in Senders, NEW id \in Ids, SenderIce(s, id) PROVE OneClientPerId'
  BY <1>0, <1>3, OneClientSenderSteps
<1>4. \A x \in Sockets : \A k \in DOMAIN toServer'[x] : toServer' = toServer =>
         \E j \in DOMAIN toServer[x] : toServer'[x][k] = toServer[x][j]
  OBVIOUS
<1>5. \A s \in Senders : \A k \in DOMAIN queued'[s] : queued' = queued =>
         \E j \in DOMAIN queued[s] : queued'[s][k] = queued[s][j]
  OBVIOUS
<1>6. ASSUME NEW o \in Offers, OfferCreated(o) PROVE OneClientPerId'
  <2> DEFINE m == Msg("offer", o.id, o.client)
  <2>1. o.by \in Senders /\ o.id \in Ids /\ o.client # 0 /\ o.client \in 0..MaxClients
    BY DEF Offers, PushClients
  <2>2. m \in Message /\ m.type = "offer" /\ Filed(clients, m.id, m.client)
    BY <1>0, <1>6, <2>1 DEF Msg, Message, Server!Forwarded, Filed, OneClientPerId, AllFiled, OfferCreated
  <2>3. /\ queued[o.by] \in Seq(Message) /\ queued'[o.by] = Append(queued[o.by], m)
        /\ \A s \in Senders : s # o.by => queued'[s] = queued[s]
    BY <1>6, <2>1 DEF OfferCreated, OfferMessage, Base, TypeOK
  <2> HIDE DEF m
  <2>4. \A s \in Senders : \A k \in DOMAIN queued'[s] :
           \/ \E j \in DOMAIN queued[s] : queued'[s][k] = queued[s][j]
           \/ queued'[s][k].type \in Carrying => Filed(clients, queued'[s][k].id, queued'[s][k].client)
    <3>1. \A k \in DOMAIN queued'[o.by] :
             (k \in DOMAIN queued[o.by] /\ queued'[o.by][k] = queued[o.by][k]) \/ queued'[o.by][k] = m
      BY <2>2, <2>3, AppendFacts
    <3> QED
      BY <2>2, <2>3, <3>1
  <2> QED
    BY <1>0, <1>4, <1>6, <2>4, QuietWire DEF OfferCreated, receiver
<1>7. ASSUME NEW o \in Offers, OfferFails(o) PROVE OneClientPerId'
  BY <1>0, <1>4, <1>5, <1>7, QuietWire DEF OfferFails, receiver
<1>8. ASSUME NEW r \in Receivers, PageRequests(r) \/ PageReceives(r) \/ PageIce(r) PROVE OneClientPerId'
  BY <1>0, <1>8, OneClientPageSteps
<1>9. CASE UNCHANGED vars
  BY <1>0, <1>4, <1>5, <1>9, QuietWire DEF vars, sender, receiver
<1> QED
  BY <1>1, <1>2, <1>3, <1>6, <1>7, <1>8, <1>9 DEF Next, OfferDone

(***************************************************************************)
(* An answer is given to the push client whose offer it answers, as long   *)
(* as no two pages ask for the same id (signaling_client.cpp:64).          *)
(***************************************************************************)
THEOREM OwnOffers == Spec => []OwnOfferAnswered
<1>1. Init => DInv
  BY OneClientInit DEF DInv
<1>2. DInv => OwnOfferAnswered
  BY DEF DInv, OneClientPerId, OwnOfferAnswered
<1> QED
  BY <1>1, <1>2, OneClientKept, BaseHolds, PTL DEF Spec

-----------------------------------------------------------------------------
LEMMA SameBroker ==
    /\ Tables!Broker!Init => Server!Broker!Init
    /\ [Tables!Broker!Next]_(Tables!Broker!vars) => [Server!Broker!Next]_(Server!Broker!vars)
BY DEF Tables!Broker!Init, Server!Broker!Init, Tables!Broker!NoPair, Server!Broker!NoPair,
    Tables!Broker!Next, Server!Broker!Next, Tables!Broker!vars, Server!Broker!vars,
    Tables!Broker!Join, Server!Broker!Join, Tables!Broker!Offer, Server!Broker!Offer,
    Tables!Broker!Leave, Server!Broker!Leave, Tables!Broker!Start, Server!Broker!Start,
    Tables!Broker!Idle, Server!Broker!Idle, Tables!Broker!Members, Server!Broker!Members,
    Tables!Sockets, Server!Sockets, Tables!Connected, Server!Connected

(***************************************************************************)
(* To its senders and pages the whole path, with messages under way, lost  *)
(* links and push clients, is a session broker.                            *)
(***************************************************************************)
THEOREM SystemIsBroker == Spec => Server!ImplementsBroker
<1>1. Init => Server!Broker!Init
  <2>1. Init => Tables!Init
    BY DEF Init, Server!Init, Tables!Init, Server!Sockets, Tables!Sockets, Server!Unbound, Tables!Unbound
  <2>2. Tables!Init => Tables!Broker!Init
    BY Tables!BrokerInit, DisjointRoles, Sentinels DEF Tables!Sockets
  <2> QED
    BY <2>1, <2>2, SameBroker
<1>2. Base /\ [Next]_vars => [Server!Broker!Next]_(Server!Broker!vars)
  <2>1. Base /\ [Next]_vars => Tables!IInv /\ [Tables!Next]_(Tables!vars)
    BY StepIsServerStep, SameInvariant, SameNext DEF Base
  <2>2. Tables!IInv /\ [Tables!Next]_(Tables!vars) => [Tables!Broker!Next]_(Tables!Broker!vars)
    BY Tables!BrokerStep, DisjointRoles, Sentinels DEF Tables!Sockets
  <2> QED
    BY <2>1, <2>2, SameBroker
<1> QED
  BY <1>1, <1>2, BaseHolds, PTL DEF Spec, Server!ImplementsBroker, Server!Broker!Spec

LEMMA NoticeOnWire ==
    ASSUME Base, NEW s \in Sockets, ServerDisconnects(s), NEW id \in Ids,
           Server!HasSession(id), sessions'[id] # sessions[id],
           NEW p \in Server!Endpoints(id), conn'[p] = "open"
    PROVE  toClient'[p] = Append(toClient[p], Msg("peer-disconnected", id, 0))
<1>1. socket_to_session[s] = id
  BY DEF ServerDisconnects, Server!onDisconnected
<1>2. p \in Sockets /\ p # None /\ socket_to_session[p] = id
  BY SessionEnds, Sentinels DEF Sockets
<1>3. p # s /\ conn[p] = "open"
  <2>1. conn' = [conn EXCEPT ![s] = "zombie"]
    BY DEF ServerDisconnects, Server!onDisconnected
  <2>2. p \in DOMAIN conn /\ s \in DOMAIN conn
    BY <1>2 DEF Base, ServerInv, Server!TypeOK, Sockets, Server!Sockets
  <2> QED
    BY <2>1, <2>2
<1>4. p \in Server!TakenEndpoints(s)
  BY <1>1, <1>2, <1>3 DEF Server!TakenEndpoints, Server!Deref
<1>5. \E m \in out' : m.to = p
  <2> DEFINE notice(x) == [to |-> x, from |-> None, id |-> id, type |-> "peer-disconnected"]
  <2>1. out' = {notice(x) : x \in Server!TakenEndpoints(s) \ {s}}
    BY <1>1 DEF ServerDisconnects, Server!onDisconnected
  <2>2. notice(p) \in out' /\ notice(p).to = p
    BY <1>3, <1>4, <2>1
  <2> QED
    BY <2>2
<1>6. \A m \in out' : m.from = None /\ m.type = "peer-disconnected" /\ m.id = id
  BY <1>1 DEF ServerDisconnects, Server!onDisconnected
<1> DEFINE n == CHOOSE m \in out' : m.to = p
<1>7. n.from = None /\ n.type = "peer-disconnected" /\ n.id = id
  BY <1>5, <1>6
<1>8. toClient'[p] = Append(toClient[p], Msg(n.type, n.id, IF n.from = None THEN 0 ELSE 0))
  BY <1>2, <1>5 DEF ServerDisconnects, Post
<1> QED
  BY <1>7, <1>8

LEMMA OnlyDisconnectEnds ==
    ASSUME Base, [Next]_vars, NEW id \in Ids, Server!HasSession(id), sessions'[id] # sessions[id]
    PROVE  \E s \in Sockets : ServerDisconnects(s)
<1>1. ASSUME NEW s \in Sockets, ServerReceives(s) PROVE FALSE
  <2>1. ASSUME NEW t, NEW i, NEW c, Joined(s, t, i, c) PROVE FALSE
    BY <2>1 DEF Joined, Base, ServerInv, Server!TypeOK
  <2> QED
    BY <1>1, <2>1, Receives DEF Registered, Refused, PassedOn
<1>2. ASSUME NEW s \in Sockets, ServerAccepts(s) \/ ClientGoes(s) PROVE FALSE
  BY <1>2 DEF ServerAccepts, ClientGoes, Server!onNewConnection, Server!PeerCloses
<1>3. ASSUME UNCHANGED server PROVE FALSE
  BY <1>3 DEF server
<1>4. ASSUME NEW s \in Senders, SenderConnected(s) \/ SenderReceives(s) \/ RunQueued(s) PROVE UNCHANGED server
  BY <1>4 DEF SenderConnected, SenderReceives, RequestFails, RequestServed, SenderAnswer, SenderCandidate,
              SenderIgnores, RunQueued
<1>5. ASSUME NEW s \in Senders, NEW i \in Ids, SenderIce(s, i) PROVE UNCHANGED server
  BY <1>5 DEF SenderIce
<1>6. OfferDone => UNCHANGED server
  BY DEF OfferDone, OfferCreated, OfferFails
<1>7. ASSUME NEW r \in Receivers, PageRequests(r) \/ PageReceives(r) \/ PageIce(r) PROVE UNCHANGED server
  BY <1>7 DEF PageRequests, PageReceives, PageOffer, PageCandidate, PageTold, PageIce
<1>8. UNCHANGED vars => UNCHANGED server
  BY DEF vars
<1> QED
  BY <1>1, <1>2, <1>3, <1>4, <1>5, <1>6, <1>7, <1>8 DEF Next, ServerStep

(***************************************************************************)
(* Whoever is left of a session that ends finds the notice on its wire, in *)
(* the same step and behind all it was sent before (sendPeerDisconnected). *)
(***************************************************************************)
THEOREM NoticeReachesWire ==
    Spec => [][\A id \in Ids : Server!HasSession(id) /\ sessions'[id] # sessions[id] =>
                  \A p \in Server!Endpoints(id) : conn'[p] = "open" =>
                      toClient'[p] = Append(toClient[p], Msg("peer-disconnected", id, 0))]_vars
<1>1. Base /\ [Next]_vars =>
          [\A id \in Ids : Server!HasSession(id) /\ sessions'[id] # sessions[id] =>
              \A p \in Server!Endpoints(id) : conn'[p] = "open" =>
                  toClient'[p] = Append(toClient[p], Msg("peer-disconnected", id, 0))]_vars
  BY OnlyDisconnectEnds, NoticeOnWire
<1> QED
  BY <1>1, BaseHolds, PTL DEF Spec
=============================================================================
