------------------------------ MODULE Receiver ------------------------------
(***************************************************************************)
(* The receiver page (web/receiver.html).  JavaScript runs one task at a   *)
(* time, but onOffer awaits four times, and whatever happens meanwhile     *)
(* - a candidate, a closed socket, a click - runs in between and changes   *)
(* the globals ws, pc, requestedSessionId and pendingCandidates, which     *)
(* onOffer reads again after every await.  Sockets and PeerConnections are *)
(* numbered in the order they are made, 0 being none.                      *)
(***************************************************************************)
EXTENDS Naturals, Sequences

CONSTANTS
    Ids, NoId,     \* session ids, and the empty input field
    MaxClicks,     \* bound on the clicks that get past the check of ws
    MaxOffers,     \* bound on the offers
    MaxIce         \* bound on the remote candidates

ASSUME NoIdIsNone == NoId \notin Ids
ASSUME Bounds == MaxClicks \in Nat /\ MaxOffers \in Nat /\ MaxIce \in Nat

VARIABLES
    clicks,             \* clicks so far that got past the check of ws
    disabled,           \* startButton.disabled
    ws, pc,             \* the globals
    requestedSessionId,
    pendingCandidates,
    readyState,         \* of each socket
    pcs,                \* how many PeerConnections have been made
    closed, remote,     \* those that are closed, have a remoteDescription
    onOffers,           \* the calls of onOffer that wait at an await
    offers, candidates, \* how many of each have come
    given,              \* history: the candidates handed to addIceCandidate, and on which pc
    asked,              \* history: <<socket, id>> for every request sent
    answers,            \* history: the answers sent
    rejected            \* history, see Rejects

page == <<ws, pc, requestedSessionId, pendingCandidates, disabled>>
browser == <<readyState, pcs, closed, remote>>
network == <<offers, candidates>>
history == <<given, asked, answers, rejected>>
vars == <<clicks, page, browser, onOffers, network, history>>

SocketIds == 1..MaxClicks
Pcs == 1..(MaxClicks + MaxOffers)

OPEN(k) == k # 0 /\ readyState[k] = "OPEN"

Init ==
    /\ clicks = 0 /\ disabled = FALSE
    /\ ws = 0 /\ pc = 0 /\ requestedSessionId = NoId /\ pendingCandidates = <<>>
    /\ readyState = [k \in SocketIds |-> "none"]
    /\ pcs = 0 /\ closed = {} /\ remote = {}
    /\ onOffers = {} /\ offers = 0 /\ candidates = 0
    /\ given = {} /\ asked = {} /\ answers = {}
    /\ rejected = FALSE

-----------------------------------------------------------------------------
\* Mutants of Closed, Cleared: pc.close() or the reset of the cache is forgotten.
Closed_Not == closed
Cleared_Not == pendingCandidates

\* pc.close()
Closed == IF pc = 0 THEN closed ELSE closed \cup {pc}

\* pendingCandidates.length = 0
Cleared == <<>>

ClickAllowed == ~disabled /\ ~OPEN(ws)

\* The input field is empty: the old connection is gone, the socket stays.
ClickEmpty ==
    /\ ClickAllowed /\ clicks < MaxClicks
    /\ clicks' = clicks + 1
    /\ closed' = Closed
    /\ pc' = 0 /\ requestedSessionId' = NoId /\ pendingCandidates' = Cleared
    /\ UNCHANGED <<disabled, ws, readyState, pcs, remote, onOffers, network, history>>

\* The click that opens socket number clicks + 1.
Click(id) ==
    /\ ClickAllowed /\ clicks < MaxClicks
    /\ clicks' = clicks + 1
    /\ closed' = Closed
    /\ pcs' = pcs + 1 /\ pc' = pcs + 1
    /\ ws' = clicks + 1
    /\ readyState' = [readyState EXCEPT ![clicks + 1] = "CONNECTING"]
    /\ requestedSessionId' = id /\ pendingCandidates' = Cleared
    /\ UNCHANGED <<disabled, remote, onOffers, network, history>>

\* Mutant of RequestedIds: the input field is read again.
RequestedIds_Input == Ids

RequestedIds == {requestedSessionId}

\* ws.onopen of socket k, which sends on the socket the global names: that
\* throws while it is CONNECTING and does nothing once it is closed.
OnOpen(k) ==
    /\ readyState[k] = "CONNECTING"
    /\ readyState' = [readyState EXCEPT ![k] = "OPEN"]
    /\ disabled' = TRUE
    /\ IF ws = k \/ OPEN(ws)
       THEN \E id \in RequestedIds : asked' = asked \cup {<<ws, id>>}
       ELSE UNCHANGED asked
    /\ UNCHANGED <<clicks, ws, pc, requestedSessionId, pendingCandidates, pcs, closed, remote, onOffers, network,
                   given, answers, rejected>>

\* The server or the link ends the connection; nothing is delivered any more.
SocketEnds(k) ==
    /\ readyState[k] \in {"CONNECTING", "OPEN"}
    /\ readyState' = [readyState EXCEPT ![k] = "CLOSING"]
    /\ UNCHANGED <<clicks, page, pcs, closed, remote, onOffers, network, history>>

\* ws.onclose
OnClose(k) ==
    /\ readyState[k] = "CLOSING"
    /\ readyState' = [readyState EXCEPT ![k] = "CLOSED"]
    /\ disabled' = FALSE
    /\ UNCHANGED <<clicks, ws, pc, requestedSessionId, pendingCandidates, pcs, closed, remote, onOffers, network, history>>

\* The server has something to say only where a session was requested.
InSession(k) == OPEN(k) /\ \E id \in Ids : <<k, id>> \in asked

\* message.type is 'error'; 'peer-disconnected' is only logged.
OnError(k) ==
    /\ OPEN(k) /\ \E id \in Ids \cup {NoId} : <<k, id>> \in asked
    /\ disabled' = FALSE
    /\ UNCHANGED <<clicks, ws, pc, requestedSessionId, pendingCandidates, browser, onOffers, network, history>>

-----------------------------------------------------------------------------
\* onOffer up to its first await.
OnOffer(k) ==
    /\ InSession(k) /\ offers < MaxOffers
    /\ offers' = offers + 1
    /\ pcs' = IF pc = 0 THEN pcs + 1 ELSE pcs
    /\ pc' = IF pc = 0 THEN pcs + 1 ELSE pc
    /\ onOffers' = onOffers \cup {[n |-> offers + 1, from |-> k, on |-> pc', at |-> "setRemote"]}
    /\ UNCHANGED <<clicks, disabled, ws, requestedSessionId, pendingCandidates, readyState, closed, remote,
                   candidates, history>>

\* Mutant of MustWait: remoteDescription is forgotten.
MustWait_PcOnly == pc = 0

\* !pc || !pc.remoteDescription
MustWait == pc = 0 \/ pc \notin remote

OnCandidate(k) ==
    /\ InSession(k) /\ candidates < MaxIce
    /\ candidates' = candidates + 1
    /\ LET c == [n |-> candidates + 1, from |-> k] IN
        IF MustWait
        THEN /\ pendingCandidates' = Append(pendingCandidates, c)
             /\ UNCHANGED given
        ELSE /\ given' = given \cup {[to |-> pc, candidate |-> c]}
             /\ UNCHANGED pendingCandidates
    /\ UNCHANGED <<clicks, ws, pc, requestedSessionId, disabled, browser, onOffers, offers, asked, answers,
                   rejected>>

\* An await never returns once its PeerConnection is closed.
Waiting(h) == h \in onOffers /\ h.on \notin closed

Resume(h, step) == onOffers' = (onOffers \ {h}) \cup {[h EXCEPT !.at = step, !.on = pc]}

Give == given' = given \cup {[to |-> pc, candidate |-> Head(pendingCandidates)]}

\* Mutants of ApplyPending: only one candidate is applied; candidates are
\* not removed.
ApplyPending_One(h) ==
    IF pendingCandidates = <<>> \/ h.at = "addIce"
    THEN Resume(h, "createAnswer") /\ UNCHANGED <<pendingCandidates, given>>
    ELSE Resume(h, "addIce") /\ Give /\ pendingCandidates' = Tail(pendingCandidates)

ApplyPending_Kept(h) ==
    IF pendingCandidates = <<>>
    THEN Resume(h, "createAnswer") /\ UNCHANGED <<pendingCandidates, given>>
    ELSE Resume(h, "addIce") /\ Give /\ UNCHANGED pendingCandidates

\* The loop of applyPendingCandidates, and createAnswer when it is done.
ApplyPending(h) ==
    IF pendingCandidates = <<>>
    THEN Resume(h, "createAnswer") /\ UNCHANGED <<pendingCandidates, given>>
    ELSE Resume(h, "addIce") /\ Give /\ pendingCandidates' = Tail(pendingCandidates)

RemoteSet(h) ==
    /\ Waiting(h) /\ h.at = "setRemote"
    /\ remote' = remote \cup {h.on}
    /\ ApplyPending(h)
    /\ UNCHANGED <<clicks, ws, pc, requestedSessionId, disabled, readyState, pcs, closed, network, asked, answers,
                   rejected>>

IceAdded(h) ==
    /\ Waiting(h) /\ h.at = "addIce"
    /\ ApplyPending(h)
    /\ UNCHANGED <<clicks, ws, pc, requestedSessionId, disabled, browser, network, asked, answers, rejected>>

AnswerCreated(h) ==
    /\ Waiting(h) /\ h.at = "createAnswer"
    /\ Resume(h, "setLocal")
    /\ UNCHANGED <<clicks, page, browser, network, history>>

\* ws.send of the answer: on the socket the global names by now.
LocalSet(h) ==
    /\ Waiting(h) /\ h.at = "setLocal"
    /\ onOffers' = onOffers \ {h}
    /\ answers' = IF OPEN(ws)
                  THEN answers \cup {[n |-> h.n, from |-> h.from, to |-> ws, id |-> requestedSessionId, pc |-> pc]}
                  ELSE answers
    /\ UNCHANGED <<clicks, page, browser, network, given, asked, rejected>>

\* The PeerConnection refuses, and the exception ends the call of onOffer.
Rejects(h) ==
    /\ Waiting(h)
    /\ onOffers' = onOffers \ {h}
    /\ rejected' = TRUE
    /\ UNCHANGED <<clicks, page, browser, network, given, asked, answers>>

-----------------------------------------------------------------------------
Candidates == [n : 1..MaxIce, from : SocketIds]

Steps == {"setRemote", "addIce", "createAnswer", "setLocal"}

Handlers == [n : 1..MaxOffers, from : SocketIds, on : Pcs, at : Steps]

Resolves(h) == RemoteSet(h) \/ IceAdded(h) \/ AnswerCreated(h) \/ LocalSet(h)

SocketTask(k) ==
    OnOpen(k) \/ SocketEnds(k) \/ OnClose(k) \/ OnError(k) \/ OnOffer(k) \/ OnCandidate(k)

Next ==
    \/ ClickEmpty
    \/ \E id \in Ids : Click(id)
    \/ \E k \in SocketIds : SocketTask(k)
    \/ \E h \in onOffers : Resolves(h) \/ Rejects(h)

\* A PeerConnection that is not closed resolves or rejects its promises.
Fairness == \A h \in Handlers : WF_vars(Resolves(h))

Spec == Init /\ [][Next]_vars
FairSpec == Spec /\ Fairness

-----------------------------------------------------------------------------
TypeOK ==
    /\ clicks \in 0..MaxClicks
    /\ disabled \in BOOLEAN
    /\ ws \in 0..MaxClicks /\ pc \in {0} \cup Pcs
    /\ requestedSessionId \in Ids \cup {NoId}
    /\ pendingCandidates \in Seq(Candidates)
    /\ readyState \in [SocketIds -> {"none", "CONNECTING", "OPEN", "CLOSING", "CLOSED"}]
    /\ pcs \in 0..(MaxClicks + MaxOffers)
    /\ closed \subseteq Pcs /\ remote \subseteq Pcs
    /\ onOffers \subseteq Handlers
    /\ offers \in 0..MaxOffers /\ candidates \in 0..MaxIce
    /\ given \subseteq [to : Pcs, candidate : Candidates]
    /\ asked \subseteq SocketIds \X (Ids \cup {NoId})
    /\ answers \subseteq [n : 1..MaxOffers, from : SocketIds, to : SocketIds, id : Ids \cup {NoId}, pc : Pcs]
    /\ rejected \in BOOLEAN

(***************************************************************************)
(* An answer goes out on the socket its offer came in on, and names the id *)
(* that was requested there, although all of it is read from globals after *)
(* four awaits (onOffer).                                                  *)
(***************************************************************************)
AnswerFitsOffer == \A a \in answers : a.to = a.from /\ a.id \in Ids /\ <<a.from, a.id>> \in asked

(***************************************************************************)
(* A call of onOffer that can still continue finds the globals it started  *)
(* with: no click gets between two of its steps without closing its        *)
(* PeerConnection.                                                         *)
(***************************************************************************)
GlobalsHold == \A h \in onOffers : h.on \notin closed => pc = h.on /\ ws = h.from

(***************************************************************************)
(* One socket asks for one session: the server sees a second request of a  *)
(* socket only for the id it already has (PageStep of SignalingServer).    *)
(***************************************************************************)
AsksForOne == \A k \in SocketIds : \A i, j \in {id \in Ids : <<k, id>> \in asked} : i = j

(***************************************************************************)
(* addIceCandidate is not called before the remote description is there    *)
(* (receiver.html:254).                                                    *)
(***************************************************************************)
NoEarlyCandidate == \A g \in given : g.to \in remote

Held == {pendingCandidates[i] : i \in DOMAIN pendingCandidates}

(***************************************************************************)
(* A candidate is cached or handed to a PeerConnection, never both, and    *)
(* never cached twice or handed to two of them.                            *)
(***************************************************************************)
CandidateOnce ==
    /\ \A g \in given : g.candidate \notin Held
    /\ \A i, j \in DOMAIN pendingCandidates : pendingCandidates[i] = pendingCandidates[j] => i = j
    /\ \A g, h \in given : g.candidate = h.candidate => g.to = h.to

(***************************************************************************)
(* A PeerConnection serves one socket, and so one session, since a page    *)
(* asks for one on each (AsksForOne): the candidates it is given and the   *)
(* offers it answers all came in there (receiver.html:207).                *)
(***************************************************************************)
SessionsNeverMix ==
    /\ \A g, h \in given : g.to = h.to => g.candidate.from = h.candidate.from
    /\ \A g \in given, a \in answers : g.to = a.pc => g.candidate.from = a.from
    /\ \A a, b \in answers : a.pc = b.pc => a.from = b.from

(***************************************************************************)
(* Nothing stays in the cache: once no onOffer is under way any more and   *)
(* none was ended by an exception, a connection with a remote description  *)
(* has been given every candidate that came for it.                        *)
(***************************************************************************)
CacheDrained ==
    pc \in remote /\ ~rejected /\ (\A h \in onOffers : h.on \in closed) => pendingCandidates = <<>>

(***************************************************************************)
(* An offer is answered, unless the PeerConnection refuses or the user or  *)
(* the network has ended the session by then.                              *)
(***************************************************************************)
OfferAnswered ==
    \A n \in 1..MaxOffers, k \in SocketIds :
        (\E h \in onOffers : h.n = n /\ h.from = k)
            ~> ((\E a \in answers : a.n = n) \/ rejected \/ ~OPEN(k))
=============================================================================
