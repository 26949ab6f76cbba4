-------------------------- MODULE SignalingSystem --------------------------
(***************************************************************************)
(* The whole signalling path: the server of SignalingServer, native        *)
(* senders (module/signaling_client.cpp) and receiver pages                *)
(* (web/receiver.html), joined by WebSockets, which are FIFO channels.     *)
(* A sender makes one WebRTCPushClient per request and files it under the  *)
(* session id; what WebRTC's threads report is queued to the Qt thread     *)
(* (QMetaObject::invokeMethod) before it is sent.  An SDP is reduced to    *)
(* the push client whose offer it is, or answers.                          *)
(***************************************************************************)
EXTENDS Naturals, Sequences

CONSTANTS
    Senders, Receivers, Ids, NoId, None,
    MaxClients, \* bound on the push clients; a page asks once, so one each is enough
    MaxIce      \* bound on the local candidates of one peer connection

ASSUME BoundsAreNat == MaxClients \in Nat /\ MaxIce \in Nat
ASSUME DisjointRoles == Senders \cap Receivers = {}
ASSUME Sentinels == NoId \notin Ids /\ None \notin Senders \cup Receivers

VARIABLES
    conn, ready_senders, sessions, socket_to_session, out,  \* SignalingServer
    toServer,   \* socket -> messages under way to the server
    toClient,   \* socket -> messages under way from the server
    said,       \* the clients whose first message has been sent
    clients,    \* sender -> id -> push client, 0 where the map has no id
    made,       \* push clients made so far, by all senders
    offering,   \* push clients whose CreateOffer is under way, with sender and id
    queued,     \* sender -> messages queued to its Qt thread
    iceSent,    \* number of local candidates of each push client and page
    page,       \* page -> the id its user typed in, the push client whose offer
                \* it answered, and whether it was told of an error or an end
    applied,    \* history: <<client, c>>: client was given the answer to c's offer
    lostIce,    \* history: a candidate reached a client that has no answer yet
    failed,     \* history: push clients whose CreateOffer failed
    hung        \* senders whose Qt thread is stuck in ~WebRTCPushClient

server == <<conn, ready_senders, sessions, socket_to_session, out>>
sender == <<clients, made, offering, queued, applied, lostIce, failed, hung>>
receiver == <<page>>
vars == <<server, toServer, toClient, said, sender, iceSent, receiver>>

Server == INSTANCE SignalingServer

Sockets == Senders \cup Receivers
PushClients == 1..MaxClients

Msg(type, id, c) == [type |-> type, id |-> id, client |-> c]

Open(s) == conn[s] = "open"

Init ==
    /\ Server!Init
    /\ toServer = [s \in Sockets |-> <<>>] /\ toClient = [s \in Sockets |-> <<>>]
    /\ said = {}
    /\ clients = [s \in Senders |-> [id \in Ids |-> 0]]
    /\ made = 0 /\ offering = {}
    /\ queued = [s \in Senders |-> <<>>]
    /\ iceSent = [x \in Receivers \cup PushClients |-> 0]
    /\ page = [r \in Receivers |-> [id |-> NoId, answered |-> 0, told |-> FALSE]]
    /\ applied = {} /\ lostIce = FALSE /\ failed = {} /\ hung = {}

-----------------------------------------------------------------------------
\* What the handler that just ran has sent, put on the wire; SDP and ICE are
\* passed on as they came.  What is sent to a peer that has gone is lost.
Post(c) ==
    toClient' = [x \in Sockets |->
        IF conn'[x] = "open" /\ \E m \in out' : m.to = x
        THEN LET m == CHOOSE m \in out' : m.to = x
             IN  Append(toClient[x], Msg(m.type, m.id, IF m.from = None THEN 0 ELSE c))
        ELSE toClient[x]]

\* onTextMessage of the server: dispatch on the type.
ServerReceives(s) ==
    /\ Server!Connected(s) /\ toServer[s] # <<>>
    /\ LET m == Head(toServer[s]) IN
        /\ \/ m.type = "sender-ready" /\ Server!OnSenderReady(s)
           \/ m.type = "request" /\ Server!handleRequest(s, m.id)
           \/ m.type \in Server!Forwarded /\ Server!forwardSessionMessage(s, m.type, m.id)
        /\ Post(m.client)
    /\ toServer' = [toServer EXCEPT ![s] = Tail(@)]
    /\ UNCHANGED <<said, sender, iceSent, receiver>>

ServerAccepts(s) ==
    /\ Server!onNewConnection(s)
    /\ UNCHANGED <<toServer, toClient, said, sender, iceSent, receiver>>

\* The page is left, the sender quits, or the link breaks.
ClientGoes(s) ==
    /\ Server!PeerCloses(s)
    /\ toClient' = [toClient EXCEPT ![s] = <<>>]
    /\ UNCHANGED <<toServer, said, sender, iceSent, receiver>>

\* A broken link may take messages with it that a closed one would deliver.
ServerDisconnects(s) ==
    /\ Server!onDisconnected(s)
    /\ Post(0)
    /\ toServer' = [toServer EXCEPT ![s] = <<>>]
    /\ UNCHANGED <<said, sender, iceSent, receiver>>

Send(s, m) == toServer' = [toServer EXCEPT ![s] = Append(@, m)]

Take(s) == toClient' = [toClient EXCEPT ![s] = Tail(@)]

-----------------------------------------------------------------------------
\* SignalingClient::onConnected.
SenderConnected(s) ==
    /\ Open(s) /\ s \notin said
    /\ said' = said \cup {s}
    /\ Send(s, Msg("sender-ready", NoId, 0))
    /\ UNCHANGED <<server, toClient, sender, iceSent, receiver>>

Received(s, type) == Open(s) /\ toClient[s] # <<>> /\ Head(toClient[s]).type = type

\* Mutant of RequestFails: the two sendJson of an error are missing.
RequestFails_Silent(s) ==
    /\ Received(s, "request")
    /\ Take(s)
    /\ UNCHANGED <<server, toServer, said, sender, iceSent, receiver>>

\* The destructor of a push client may never return: modules PushClient and
\* RtpStats have the calls it waits for.  The event loop is then gone.
MayHang(s) == hung' \in {hung, hung \cup {s}}

\* No capture, or Init fails: the client, if there was one, is gone again.  The
\* error is written before; if the thread then hangs it may stay in a buffer.
RequestFails(s) ==
    /\ Received(s, "request")
    /\ \/ Send(s, Msg("error", Head(toClient[s]).id, 0)) /\ MayHang(s)
       \/ UNCHANGED toServer /\ hung' = hung \cup {s}
    /\ Take(s)
    /\ UNCHANGED <<server, said, clients, made, offering, queued, applied, lostIce, failed, iceSent, receiver>>

\* A new push client, whose Init has started CreateOffer, takes the place of
\* the one filed under the id: clients[id] = std::move(client).
RequestServed(s) ==
    /\ Received(s, "request") /\ made < MaxClients
    /\ LET id == Head(toClient[s]).id IN
        /\ made' = made + 1
        /\ clients' = [clients EXCEPT ![s][id] = made + 1]
        /\ offering' = {o \in offering : o.client # clients[s][id]}
                           \cup {[client |-> made + 1, by |-> s, id |-> id]}
        /\ IF clients[s][id] = 0 THEN UNCHANGED hung ELSE MayHang(s)
    /\ Take(s)
    /\ UNCHANGED <<server, toServer, said, queued, iceSent, receiver, applied, lostIce, failed>>

\* Mutant of OfferMessage: the callback knows the id of the last request only.
OfferMessage_LastId(o) ==
    Msg("offer", CHOOSE id \in Ids : clients[o.by][id] = made, o.client)

OfferMessage(o) == Msg("offer", o.id, o.client)

\* The success callback of CreateOffer, on WebRTC's signaling thread.
OfferCreated(o) ==
    /\ o \in offering
    /\ offering' = offering \ {o}
    /\ queued' = [queued EXCEPT ![o.by] = Append(@, OfferMessage(o))]
    /\ UNCHANGED <<server, toServer, toClient, said, clients, made, applied, lostIce, failed, hung, iceSent, receiver>>

\* Its failure callback, which writes a log line.
OfferFails(o) ==
    /\ o \in offering
    /\ offering' = offering \ {o}
    /\ failed' = failed \cup {o.client}
    /\ UNCHANGED <<server, toServer, toClient, said, clients, made, queued, applied, lostIce, hung, iceSent, receiver>>

HasOffered(s, id) ==
    clients[s][id] # 0 /\ \A o \in offering : o.client # clients[s][id]

\* PeerObserver::OnIceCandidate, after the local description is set.
SenderIce(s, id) ==
    LET c == clients[s][id] IN
    /\ HasOffered(s, id) /\ c \notin failed /\ iceSent[c] < MaxIce
    /\ iceSent' = [iceSent EXCEPT ![c] = @ + 1]
    /\ queued' = [queued EXCEPT ![s] = Append(@, Msg("candidate", id, c))]
    /\ UNCHANGED <<server, toServer, toClient, said, clients, made, offering, applied, lostIce, failed, hung, receiver>>

\* The Qt thread runs a queued sendJson; without a valid socket it drops it.
RunQueued(s) ==
    /\ s \notin hung /\ queued[s] # <<>>
    /\ queued' = [queued EXCEPT ![s] = Tail(@)]
    /\ IF Open(s) THEN Send(s, Head(queued[s])) ELSE UNCHANGED toServer
    /\ UNCHANGED <<server, toClient, said, clients, made, offering, applied, lostIce, failed, hung, iceSent, receiver>>

\* SetRemoteAnswer of the client found under the id, if there is one.
SenderAnswer(s) ==
    /\ Received(s, "answer")
    /\ LET m == Head(toClient[s]) IN
        applied' = IF clients[s][m.id] = 0 THEN applied
                   ELSE applied \cup {<<clients[s][m.id], m.client>>}
    /\ Take(s)
    /\ UNCHANGED <<server, toServer, said, clients, made, offering, queued, lostIce, failed, hung, iceSent, receiver>>

\* AddRemoteIce, which fails before the remote description is there.
SenderCandidate(s) ==
    /\ Received(s, "candidate")
    /\ LET c == clients[s][Head(toClient[s]).id] IN
        lostIce' = (lostIce \/ (c # 0 /\ \A a \in applied : a[1] # c))
    /\ Take(s)
    /\ UNCHANGED <<server, toServer, said, clients, made, offering, queued, applied, failed, hung, iceSent, receiver>>

\* The types the sender does not know; error and peer-disconnected are among them.
SenderIgnores(s) ==
    /\ Received(s, "peer-disconnected") \/ Received(s, "error")
    /\ Take(s)
    /\ UNCHANGED <<server, toServer, said, sender, iceSent, receiver>>

-----------------------------------------------------------------------------
\* Mutant of PageRequests: the page offers itself first, as a sender does.
PageRequests_Offers(r) ==
    /\ Open(r) /\ r \notin said
    /\ said' = said \cup {r}
    /\ \E id \in Ids :
        /\ page' = [page EXCEPT ![r].id = id]
        /\ toServer' = [toServer EXCEPT ![r] = @ \o <<Msg("sender-ready", NoId, 0), Msg("request", id, 0)>>]
    /\ UNCHANGED <<server, toClient, sender, iceSent>>

\* ws.onopen, with the id that was typed in.
PageRequests(r) ==
    /\ Open(r) /\ r \notin said
    /\ said' = said \cup {r}
    /\ \E id \in Ids :
        /\ page' = [page EXCEPT ![r].id = id]
        /\ Send(r, Msg("request", id, 0))
    /\ UNCHANGED <<server, toClient, sender, iceSent>>

\* Mutant: the candidates are sent ahead of the answer.
PageAnswer_IceFirst(r, c) ==
    <<Msg("candidate", page[r].id, c), Msg("answer", page[r].id, c)>>

PageAnswer(r, c) == <<Msg("answer", page[r].id, c)>>

\* onOffer, with what it awaits taken for done (module Receiver has the detail).
PageOffer(r) ==
    /\ Received(r, "offer")
    /\ LET c == Head(toClient[r]).client IN
        /\ page' = [page EXCEPT ![r].answered = c]
        /\ toServer' = [toServer EXCEPT ![r] = @ \o PageAnswer(r, c)]
    /\ Take(r)
    /\ UNCHANGED <<server, said, sender, iceSent>>

\* pc.onicecandidate: gathering starts with the local answer.
PageIce(r) ==
    /\ Open(r) /\ page[r].answered # 0 /\ iceSent[r] < MaxIce
    /\ iceSent' = [iceSent EXCEPT ![r] = @ + 1]
    /\ Send(r, Msg("candidate", page[r].id, page[r].answered))
    /\ UNCHANGED <<server, toClient, said, sender, receiver>>

PageCandidate(r) ==
    /\ Received(r, "candidate")
    /\ Take(r)
    /\ UNCHANGED <<server, toServer, said, sender, iceSent, receiver>>

\* error and peer-disconnected end up in the page's log.
PageTold(r) ==
    /\ Received(r, "error") \/ Received(r, "peer-disconnected")
    /\ page' = [page EXCEPT ![r].told = TRUE]
    /\ Take(r)
    /\ UNCHANGED <<server, toServer, said, sender, iceSent>>

-----------------------------------------------------------------------------
ServerStep(s) == ServerReceives(s) \/ ServerDisconnects(s)

SenderReceives(s) ==
    /\ s \notin hung
    /\ RequestFails(s) \/ RequestServed(s) \/ SenderAnswer(s) \/ SenderCandidate(s) \/ SenderIgnores(s)

PageReceives(r) == PageOffer(r) \/ PageCandidate(r) \/ PageTold(r)

Offers == [client : PushClients, by : Senders, id : Ids]

OfferDone == \E o \in Offers : OfferCreated(o) \/ OfferFails(o)

Next ==
    \/ \E s \in Sockets : ServerAccepts(s) \/ ServerStep(s) \/ ClientGoes(s)
    \/ \E s \in Senders : SenderConnected(s) \/ SenderReceives(s) \/ RunQueued(s)
    \/ \E s \in Senders, id \in Ids : SenderIce(s, id)
    \/ OfferDone
    \/ \E r \in Receivers : PageRequests(r) \/ PageReceives(r) \/ PageIce(r)

\* Every event loop that is not hung runs what is queued to it, and CreateOffer
\* calls back.
Fairness ==
    /\ \A s \in Sockets : WF_vars(ServerStep(s))
    /\ \A s \in Senders : WF_vars(SenderReceives(s)) /\ WF_vars(RunQueued(s))
    /\ WF_vars(OfferDone)
    /\ \A r \in Receivers : WF_vars(PageReceives(r))

Spec == Init /\ [][Next]_vars
FairSpec == Spec /\ Fairness

-----------------------------------------------------------------------------
Message ==
    [type : Server!Forwarded \cup {"sender-ready", "request", "peer-disconnected"},
     id : Ids \cup {NoId}, client : 0..MaxClients]

TypeOK ==
    /\ Server!TypeOK
    /\ toServer \in [Sockets -> Seq(Message)] /\ toClient \in [Sockets -> Seq(Message)]
    /\ said \subseteq Sockets
    /\ clients \in [Senders -> [Ids -> 0..MaxClients]]
    /\ made \in 0..MaxClients
    /\ offering \subseteq Offers
    /\ queued \in [Senders -> Seq(Message)]
    /\ iceSent \in [Receivers \cup PushClients -> 0..MaxIce]
    /\ page \in [Receivers -> [id : Ids \cup {NoId}, answered : 0..MaxClients, told : BOOLEAN]]
    /\ applied \subseteq PushClients \X (0..MaxClients)
    /\ lostIce \in BOOLEAN
    /\ failed \subseteq PushClients
    /\ hung \subseteq Senders

(***************************************************************************)
(* An answer is given to the push client whose offer it answers            *)
(* (signaling_client.cpp:64).                                              *)
(***************************************************************************)
AnswerMatchesOffer == \A a \in applied : a[1] = a[2]

(***************************************************************************)
(* So it is as long as no two pages ask for the same id, whatever is late, *)
(* lost or under way when a socket goes.                                   *)
(***************************************************************************)
IdsDiffer ==
    \A q, r \in Receivers : page[q].id = page[r].id /\ page[r].id # NoId => q = r

OwnOfferAnswered == IdsDiffer => AnswerMatchesOffer

(***************************************************************************)
(* A remote candidate reaches its push client after the answer; the sender *)
(* keeps none for later (AddRemoteIce, pushclient.cpp:1322).               *)
(***************************************************************************)
NoCandidateBeforeAnswer == ~lostIce

(***************************************************************************)
(* Once the sender has read all it was sent, it pushes only for sessions   *)
(* the server still has: the notice of onDisconnected ends the session at  *)
(* the peer that is left (signaling_server.cpp:169).                       *)
(***************************************************************************)
ClientEndsWithSession ==
    \A s \in Senders, id \in Ids :
        Open(s) /\ toClient[s] = <<>> /\ clients[s][id] # 0 => sessions[id].sender = s

(***************************************************************************)
(* The senders and pages keep to what SignalingServer assumes of its       *)
(* clients, so that all that is proved of the server holds here.           *)
(***************************************************************************)
ServerUsedAsAssumed == Server!Spec

(***************************************************************************)
(* Whoever requests a session hears of it: an offer, an error or the end   *)
(* of the session, unless the page is left, CreateOffer fails or the       *)
(* sender's Qt thread hangs in the destructor of a push client.            *)
(***************************************************************************)
RequestAnswered ==
    \A r \in Receivers :
        (r \in said) ~> (page[r].answered # 0 \/ page[r].told \/ ~Open(r)
                      \/ failed # {} \/ hung # {})
=============================================================================
