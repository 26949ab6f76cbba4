-------------------------- MODULE SignalingServer --------------------------
(***************************************************************************)
(* The signalling server (tools/signaling_server.cpp): one Qt event loop,  *)
(* so every handler runs to its end before the next one starts.  It keeps  *)
(* the table sessions_ of a sender and a receiver per session id, and an   *)
(* index socket_to_session_ of the id a socket is in, which handleRequest  *)
(* reads to find an idle sender and onDisconnected reads to find what to   *)
(* tear down.  SDP and ICE are opaque: a message is its type and its id.   *)
(***************************************************************************)
CONSTANTS
    Senders,    \* sockets of native senders: they say sender-ready
    Receivers,  \* sockets of receiver pages: they send request
    Ids,        \* session ids
    NoId,       \* the empty string
    None        \* a null QPointer

Sockets == Senders \cup Receivers

ASSUME DisjointRoles == Senders \cap Receivers = {}
ASSUME Sentinels == NoId \notin Ids /\ None \notin Sockets

VARIABLES
    conn,               \* where each server-side QWebSocket is in its life
    ready_senders,
    sessions,           \* id -> SessionBinding; Unbound where the map has no id
    socket_to_session,  \* socket -> id; NoId where the hash has no socket
    out                 \* what the last handler sent

vars == <<conn, ready_senders, sessions, socket_to_session, out>>

Forwarded == {"offer", "answer", "candidate", "error"}

Message ==
    [to : Sockets, from : Sockets \cup {None}, id : Ids \cup {NoId},
     type : Forwarded \cup {"request", "peer-disconnected"}]

Binding == [sender : Sockets \cup {None}, receiver : Sockets \cup {None}]

Unbound == [sender |-> None, receiver |-> None]

(***************************************************************************)
(* "closing": the peer has gone and the disconnected signal is still to    *)
(* come; messages that arrived before are delivered first.  "zombie":      *)
(* onDisconnected has run and deleteLater is pending, so that QPointers    *)
(* still see the object.  "deleted": QPointers to it are null.             *)
(***************************************************************************)
ConnState == {"unborn", "open", "closing", "zombie", "deleted"}

Connected(s) == conn[s] \in {"open", "closing"}

Deref(p) == IF p = None THEN None ELSE IF conn[p] = "deleted" THEN None ELSE p

HasSession(id) == id \in Ids /\ sessions[id] # Unbound

Endpoints(id) == {sessions[id].sender, sessions[id].receiver} \ {None}

\* Mutant of Eligible: busy senders are not skipped.
Eligible_Busy(s) == ready_senders \ {s}

\* The sockets other than s that handleRequest may select, in whatever order
\* the hash set ready_senders_ is walked.
Eligible(s) == {c \in ready_senders : c # s /\ socket_to_session[c] = NoId}

ErrorTo(s) == {[to |-> s, from |-> None, id |-> NoId, type |-> "error"]}

Init ==
    /\ conn = [s \in Sockets |-> "unborn"]
    /\ ready_senders = {}
    /\ sessions = [id \in Ids |-> Unbound]
    /\ socket_to_session = [s \in Sockets |-> NoId]
    /\ out = {}

-----------------------------------------------------------------------------
onNewConnection(s) ==
    /\ conn[s] = "unborn"
    /\ conn' = [conn EXCEPT ![s] = "open"]
    /\ out' = {}
    /\ UNCHANGED <<ready_senders, sessions, socket_to_session>>

\* The other side closes, or the link breaks: nothing the server sees yet.
PeerCloses(s) ==
    /\ conn[s] = "open"
    /\ conn' = [conn EXCEPT ![s] = "closing"]
    /\ out' = {}
    /\ UNCHANGED <<ready_senders, sessions, socket_to_session>>

OnSenderReady(s) ==
    /\ Connected(s)
    /\ ready_senders' = ready_senders \cup {s}
    /\ out' = {}
    /\ UNCHANGED <<conn, sessions, socket_to_session>>

RejectRequest(s, id) ==
    /\ Connected(s)
    /\ id = NoId \/ HasSession(id) \/ Eligible(s) = {}
    /\ out' = ErrorTo(s)
    /\ UNCHANGED <<conn, ready_senders, sessions, socket_to_session>>

\* Mutants of AcceptRequest: sessions_.contains is not asked; the sender's
\* socket_to_session_.insert is missing.
AcceptRequest_Overwrites(s, id, selected) ==
    /\ Connected(s) /\ id \in Ids /\ selected \in Eligible(s)
    /\ sessions' = [sessions EXCEPT ![id] = [sender |-> selected, receiver |-> s]]
    /\ socket_to_session' = [socket_to_session EXCEPT ![selected] = id, ![s] = id]
    /\ out' = {[to |-> selected, from |-> s, id |-> id, type |-> "request"]}
    /\ UNCHANGED <<conn, ready_senders>>

AcceptRequest_SenderNotIndexed(s, id, selected) ==
    /\ Connected(s) /\ id \in Ids /\ ~HasSession(id) /\ selected \in Eligible(s)
    /\ sessions' = [sessions EXCEPT ![id] = [sender |-> selected, receiver |-> s]]
    /\ socket_to_session' = [socket_to_session EXCEPT ![s] = id]
    /\ out' = {[to |-> selected, from |-> s, id |-> id, type |-> "request"]}
    /\ UNCHANGED <<conn, ready_senders>>

AcceptRequest(s, id, selected) ==
    /\ Connected(s)
    /\ id \in Ids /\ ~HasSession(id)
    /\ selected \in Eligible(s)
    /\ sessions' = [sessions EXCEPT ![id] = [sender |-> selected, receiver |-> s]]
    /\ socket_to_session' = [socket_to_session EXCEPT ![selected] = id, ![s] = id]
    /\ out' = {[to |-> selected, from |-> s, id |-> id, type |-> "request"]}
    /\ UNCHANGED <<conn, ready_senders>>

handleRequest(s, id) ==
    \/ RejectRequest(s, id)
    \/ \E selected \in Sockets : AcceptRequest(s, id, selected)

\* Mutant of Target: a message is forwarded whoever the writer is.
Target_Trusting(s, id) ==
    IF ~HasSession(id) THEN None
    ELSE IF Deref(sessions[id].sender) = s THEN Deref(sessions[id].receiver)
    ELSE Deref(sessions[id].sender)

\* The other endpoint of session id, None when there is none to be had.
Target(s, id) ==
    IF ~HasSession(id) THEN None
    ELSE IF Deref(sessions[id].sender) = s THEN Deref(sessions[id].receiver)
    ELSE IF Deref(sessions[id].receiver) = s THEN Deref(sessions[id].sender)
    ELSE None

forwardSessionMessage(s, type, id) ==
    /\ Connected(s)
    /\ out' = IF Target(s, id) = None THEN ErrorTo(s)
              ELSE {[to |-> Target(s, id), from |-> s, id |-> id, type |-> type]}
    /\ UNCHANGED <<conn, ready_senders, sessions, socket_to_session>>

\* Mutant of TakenEndpoints: only the index entry of s itself is taken, and
\* so nobody else is told.
TakenEndpoints_SelfOnly(s) ==
    IF HasSession(socket_to_session[s]) THEN {s} ELSE {}

\* The endpoints onDisconnected finds in the session it takes for socket s.
TakenEndpoints(s) ==
    IF HasSession(socket_to_session[s])
    THEN {p \in Endpoints(socket_to_session[s]) : Deref(p) # None}
    ELSE {}

\* Mutants of onDisconnected: the sender stays ready; the session is read
\* with value() where take() is meant.
onDisconnected_StaysReady(s) ==
    /\ conn[s] = "closing"
    /\ conn' = [conn EXCEPT ![s] = "zombie"]
    /\ sessions' = [id \in Ids |-> IF id = socket_to_session[s] THEN Unbound ELSE sessions[id]]
    /\ socket_to_session' = [x \in Sockets |->
            IF x \in {s} \cup TakenEndpoints(s) THEN NoId ELSE socket_to_session[x]]
    /\ out' = {[to |-> p, from |-> None, id |-> socket_to_session[s],
                type |-> "peer-disconnected"] : p \in TakenEndpoints(s) \ {s}}
    /\ UNCHANGED ready_senders

onDisconnected_KeepsSession(s) ==
    /\ conn[s] = "closing"
    /\ conn' = [conn EXCEPT ![s] = "zombie"]
    /\ ready_senders' = ready_senders \ {s}
    /\ socket_to_session' = [x \in Sockets |->
            IF x \in {s} \cup TakenEndpoints(s) THEN NoId ELSE socket_to_session[x]]
    /\ out' = {[to |-> p, from |-> None, id |-> socket_to_session[s],
                type |-> "peer-disconnected"] : p \in TakenEndpoints(s) \ {s}}
    /\ UNCHANGED sessions

onDisconnected(s) ==
    /\ conn[s] = "closing"
    /\ conn' = [conn EXCEPT ![s] = "zombie"]
    /\ ready_senders' = ready_senders \ {s}
    /\ sessions' = [id \in Ids |-> IF id = socket_to_session[s] THEN Unbound ELSE sessions[id]]
    /\ socket_to_session' = [x \in Sockets |->
            IF x \in {s} \cup TakenEndpoints(s) THEN NoId ELSE socket_to_session[x]]
    /\ out' = {[to |-> p, from |-> None, id |-> socket_to_session[s],
                type |-> "peer-disconnected"] : p \in TakenEndpoints(s) \ {s}}

\* The deferred delete of socket->deleteLater().
DeferredDelete(s) ==
    /\ conn[s] = "zombie"
    /\ conn' = [conn EXCEPT ![s] = "deleted"]
    /\ out' = {}
    /\ UNCHANGED <<ready_senders, sessions, socket_to_session>>

-----------------------------------------------------------------------------
(***************************************************************************)
(* The clients of this repository.  A native sender says sender-ready and  *)
(* never requests.  A page never offers itself, and the requests one page  *)
(* socket carries all name the id of the click that opened it.  Either may *)
(* forward whatever it likes under any id.                                 *)
(***************************************************************************)
SenderStep == \E s \in Senders : OnSenderReady(s)

PageStep ==
    \E s \in Receivers, id \in Ids \cup {NoId} :
        /\ socket_to_session[s] \in {NoId, id}
        /\ handleRequest(s, id)

SocketStep ==
    \E s \in Sockets :
        \/ onNewConnection(s)
        \/ PeerCloses(s)
        \/ onDisconnected(s)
        \/ DeferredDelete(s)
        \/ \E type \in Forwarded, id \in Ids \cup {NoId} : forwardSessionMessage(s, type, id)

Next == SenderStep \/ PageStep \/ SocketStep

(***************************************************************************)
(* Clients of any make: every connection may offer itself, and may request *)
(* one session after another.  The server checks neither.                  *)
(***************************************************************************)
AnyClientStep ==
    \E s \in Sockets :
        \/ OnSenderReady(s)
        \/ \E id \in Ids \cup {NoId} : handleRequest(s, id)

AnyNext == AnyClientStep \/ SocketStep

\* Qt's event loop delivers every disconnected signal and deferred delete.
Delivered(s) == WF_vars(onDisconnected(s)) /\ WF_vars(DeferredDelete(s))

EventLoop == \A s \in Sockets : Delivered(s)

Spec == Init /\ [][Next]_vars
FairSpec == Spec /\ EventLoop
AnySpec == Init /\ [][AnyNext]_vars

-----------------------------------------------------------------------------
TypeOK ==
    /\ conn \in [Sockets -> ConnState]
    /\ ready_senders \subseteq Sockets
    /\ sessions \in [Ids -> Binding]
    /\ socket_to_session \in [Sockets -> Ids \cup {NoId}]
    /\ out \subseteq Message

(***************************************************************************)
(* The raw QWebSocket* keys of ready_senders_ and socket_to_session_ never *)
(* outlive the connection: handleRequest dereferences them unchecked.      *)
(***************************************************************************)
NoDanglingKeys ==
    /\ \A s \in ready_senders : Connected(s)
    /\ \A s \in Sockets : socket_to_session[s] # NoId => Connected(s)

(***************************************************************************)
(* No session survives one of its endpoints: once the server has handled a *)
(* disconnect, nobody is left bound to the socket that went away           *)
(* (signaling_server.cpp:169).                                             *)
(***************************************************************************)
NoOrphanSession == \A id \in Ids : \A s \in Endpoints(id) : Connected(s)

(***************************************************************************)
(* A socket is an endpoint of at most one session, so that a sender never  *)
(* carries two (signaling_server.cpp:113).                                 *)
(***************************************************************************)
OneSessionPerSocket ==
    \A i, j \in Ids : i # j => Endpoints(i) \cap Endpoints(j) = {}

(***************************************************************************)
(* The two tables agree: the index names a session exactly for its two     *)
(* endpoints.  Every handler reads one table and trusts the other.         *)
(***************************************************************************)
IndexAgrees ==
    \A s \in Sockets, id \in Ids : socket_to_session[s] = id <=> s \in Endpoints(id)

(***************************************************************************)
(* What is left of that agreement when clients are of any make: an index   *)
(* entry still leads onDisconnected to a session its socket belongs to, so *)
(* that it never tears down a session of two others.                       *)
(***************************************************************************)
IndexSound ==
    \A s \in Sockets : socket_to_session[s] # NoId => s \in Endpoints(socket_to_session[s])

(***************************************************************************)
(* A live session has two different endpoints, of which the sender said    *)
(* sender-ready on a connection that is still up.                          *)
(***************************************************************************)
WellFormedSession ==
    \A id \in Ids : HasSession(id) =>
        /\ None \notin {sessions[id].sender, sessions[id].receiver}
        /\ sessions[id].sender # sessions[id].receiver
        /\ sessions[id].sender \in ready_senders

(***************************************************************************)
(* Whoever is still connected when its session goes is told so in the same *)
(* step, and by the id it knows (onDisconnected, sendPeerDisconnected).    *)
(***************************************************************************)
SurvivorTold ==
    [][\A id \in Ids : HasSession(id) /\ sessions'[id] # sessions[id] =>
        \A p \in Endpoints(id) : conn'[p] \in {"open", "closing"} =>
            [to |-> p, from |-> None, id |-> id, type |-> "peer-disconnected"] \in out']_vars

(***************************************************************************)
(* Routing never crosses sessions: a forwarded message goes from one       *)
(* endpoint of the session it names to the other one.                      *)
(***************************************************************************)
RoutedWithinSession ==
    \A m \in out : m.type \in Forwarded /\ m.from # None =>
        /\ m.id \in Ids
        /\ {m.from, m.to} = Endpoints(m.id)

(***************************************************************************)
(* Requests never push anybody out: a session is taken away only by the    *)
(* disconnect of one of its own endpoints, whatever the clients send.      *)
(***************************************************************************)
OnlyOwnDisconnectEnds ==
    [][\A id \in Ids : HasSession(id) /\ sessions'[id] # sessions[id] =>
        \E p \in Endpoints(id) : conn'[p] # conn[p]]_vars

(***************************************************************************)
(* A session with an endpoint whose peer has gone is torn down in the end, *)
(* which frees the sender for the next request.                            *)
(***************************************************************************)
StaleSessionCleared ==
    \A id \in Ids, s \in Sockets :
        (s \in Endpoints(id) /\ ~(conn[s] = "open")) ~> (s \notin Endpoints(id))

-----------------------------------------------------------------------------
Broker == INSTANCE SessionBroker WITH
    Users <- Sockets,
    online <- {s \in Sockets : Connected(s)},
    offered <- ready_senders,
    paired <- sessions

\* The server, used by the clients of this repository, is a session broker.
\* (A socket object is used for one connection: who leaves does not rejoin.)
ImplementsBroker == Broker!Spec
=============================================================================
