--------------------------- MODULE ReceiverProofs ---------------------------
(***************************************************************************)
(* Proofs about Receiver, for any bounds and ids: the globals that onOffer *)
(* reads after an await are still those of its own session.  The invariant *)
(* rests on three facts: every PeerConnection but the current one is       *)
(* closed; only the newest socket is ever asked for a session, and only    *)
(* with the id of the click that made it; and a click gets through only    *)
(* when that socket can no longer be written to.                           *)
(***************************************************************************)
EXTENDS Receiver, TLAPS

\* Numbers are handed out in order, sockets by clicks.
Counting ==
    /\ clicks \in 0..MaxClicks /\ offers \in 0..MaxOffers
    /\ pcs \in 0..(clicks + offers)
    /\ pc \in 0..pcs
    /\ ws \in 0..clicks
    /\ readyState \in [SocketIds -> {"none", "CONNECTING", "OPEN", "CLOSING", "CLOSED"}]
    /\ \A k \in SocketIds : k > clicks => readyState[k] = "none"

\* Every PeerConnection that has been replaced is closed, the current is not.
OneConnection ==
    /\ closed \subseteq 1..pcs /\ pc \notin closed
    /\ \A x \in 1..pcs : x \in closed \/ x = pc

\* A socket is asked for sessions after it opens, and as long as it is open
\* it is the global one, asked for the id the page still remembers.
AskedOnce ==
    /\ requestedSessionId \in Ids \cup {NoId}
    /\ asked \subseteq SocketIds \X (Ids \cup {NoId})
    /\ \A x \in asked : readyState[x[1]] \in {"OPEN", "CLOSING", "CLOSED"}
    /\ \A x \in asked : readyState[x[1]] = "OPEN" => x[1] = ws /\ x[2] = requestedSessionId

\* A call of onOffer that has not lost its PeerConnection has what it began with.
OwnGlobals ==
    \A h \in onOffers :
        /\ h \in Handlers /\ h.on \in 1..pcs
        /\ h.on \notin closed => /\ pc = h.on /\ ws = h.from
                                 /\ requestedSessionId \in Ids /\ <<ws, requestedSessionId>> \in asked

IInv == Counting /\ OneConnection /\ AskedOnce /\ OwnGlobals /\ AsksForOne /\ AnswerFitsOffer

LEMMA InitInv == Init => IInv
  BY Bounds DEF Init, IInv, Counting, OneConnection, AskedOnce, OwnGlobals, AsksForOne, AnswerFitsOffer, SocketIds

-----------------------------------------------------------------------------
\* What a click does to the old session, whether or not a new one begins.
LEMMA ClickEmptyInv == IInv /\ ClickEmpty => IInv'
  <1> SUFFICES ASSUME IInv, ClickEmpty PROVE IInv'
    OBVIOUS
  <1> USE Bounds DEF ClickEmpty, ClickAllowed, Closed, Cleared, IInv, history, network
  <1>1. Counting'
    BY DEF Counting
  <1>2. OneConnection'
    BY DEF Counting, OneConnection
  <1>3. ~\E x \in asked : readyState[x[1]] = "OPEN"
    BY DEF AskedOnce, OPEN, SocketIds
  <1>4. AskedOnce'
    BY <1>3 DEF AskedOnce
  <1>5. OwnGlobals'
    BY DEF Counting, OwnGlobals
  <1>6. AsksForOne' /\ AnswerFitsOffer'
    BY DEF AsksForOne, AnswerFitsOffer
  <1> QED
    BY <1>1, <1>2, <1>4, <1>5, <1>6

LEMMA ClickInv == ASSUME NEW id \in Ids, IInv, Click(id) PROVE IInv'
  <1> USE Bounds DEF Click, ClickAllowed, Closed, Cleared, IInv, history, network
  <1>1. Counting'
    BY DEF Counting, SocketIds
  <1>2. OneConnection'
    BY DEF Counting, OneConnection
  <1>3. ~\E x \in asked : readyState[x[1]] = "OPEN"
    BY DEF AskedOnce, OPEN, SocketIds
  <1>4. \A x \in asked : x[1] # clicks + 1
    BY DEF AskedOnce, Counting, SocketIds
  <1>5. AskedOnce'
    BY <1>3, <1>4 DEF AskedOnce, Counting, SocketIds
  <1>6. OwnGlobals'
    BY DEF Counting, OwnGlobals
  <1>7. AsksForOne' /\ AnswerFitsOffer'
    BY DEF AsksForOne, AnswerFitsOffer
  <1> QED
    BY <1>1, <1>2, <1>5, <1>6, <1>7

-----------------------------------------------------------------------------
LEMMA OnOpenInv == ASSUME NEW k \in SocketIds, IInv, OnOpen(k) PROVE IInv'
  <1> USE DEF OnOpen, IInv, network, RequestedIds
  <1>1. Counting'
    BY DEF Counting
  <1>2. OneConnection'
    BY DEF OneConnection
  <1>3. \A x \in asked : x[1] # k
    BY DEF AskedOnce
  <1>4. CASE ws = k \/ OPEN(ws)
    <2>1. ws \in SocketIds /\ requestedSessionId \in Ids \cup {NoId}
      BY <1>4, Bounds DEF OPEN, Counting, SocketIds, AskedOnce
    <2>2. asked' = asked \cup {<<ws, requestedSessionId>>} /\ readyState'[ws] = "OPEN"
      BY <1>4, <2>1 DEF OPEN, Counting
    <2>3. \A x \in asked : readyState'[x[1]] = readyState[x[1]]
      BY <1>3 DEF Counting, AskedOnce
    <2>4. \A x \in asked : x[1] = ws => x[2] = requestedSessionId
      BY <1>3, <1>4 DEF OPEN, AskedOnce
    <2>5. AskedOnce'
      BY <2>1, <2>2, <2>3 DEF AskedOnce
    <2>6. AsksForOne'
      BY <2>2, <2>4 DEF AsksForOne
    <2>7. OwnGlobals' /\ AnswerFitsOffer'
      BY <2>2 DEF OwnGlobals, AnswerFitsOffer
    <2> QED
      BY <1>1, <1>2, <2>5, <2>6, <2>7
  <1>5. CASE ~(ws = k \/ OPEN(ws))
    <2>1. UNCHANGED asked
      BY <1>5
    <2>2. \A x \in asked : readyState'[x[1]] = readyState[x[1]]
      BY <1>3 DEF Counting, AskedOnce
    <2>3. AskedOnce' /\ OwnGlobals' /\ AsksForOne' /\ AnswerFitsOffer'
      BY <2>1, <2>2 DEF AskedOnce, OwnGlobals, AsksForOne, AnswerFitsOffer
    <2> QED
      BY <1>1, <1>2, <2>3
  <1> QED
    BY <1>4, <1>5

\* A socket that leaves OPEN or CONNECTING never comes back.
LEMMA SocketDownInv == ASSUME NEW k \in SocketIds, IInv, SocketEnds(k) \/ OnClose(k) PROVE IInv'
  <1> USE DEF SocketEnds, OnClose, IInv, page, network, history
  <1>1. Counting'
    BY DEF Counting
  <1>2. OneConnection' /\ OwnGlobals' /\ AsksForOne' /\ AnswerFitsOffer'
    BY DEF OneConnection, OwnGlobals, AsksForOne, AnswerFitsOffer
  <1>3. AskedOnce'
    BY DEF AskedOnce, Counting
  <1> QED
    BY <1>1, <1>2, <1>3

\* An offer comes only on the global socket, while that is open.
LEMMA OnOfferInv == ASSUME NEW k \in SocketIds, IInv, OnOffer(k) PROVE IInv'
  <1> USE Bounds DEF OnOffer, IInv, history
  <1>1. k = ws /\ requestedSessionId \in Ids /\ <<ws, requestedSessionId>> \in asked
    BY DEF InSession, OPEN, AskedOnce
  <1>2. Counting'
    BY DEF Counting
  <1>3. OneConnection' /\ pc' \in 1..pcs'
    BY DEF Counting, OneConnection
  <1>4. \A h \in onOffers : h.on \notin closed => pc' = h.on
    BY DEF Counting, OwnGlobals
  <1>5. OwnGlobals'
    <2>1. [n |-> offers + 1, from |-> k, on |-> pc', at |-> "setRemote"] \in Handlers
      BY <1>3 DEF Counting, Handlers, Pcs, Steps
    <2> QED
      BY <1>1, <1>3, <1>4, <2>1 DEF Counting, OwnGlobals
  <1>6. AskedOnce' /\ AsksForOne' /\ AnswerFitsOffer'
    BY DEF AskedOnce, AsksForOne, AnswerFitsOffer
  <1> QED
    BY <1>2, <1>3, <1>5, <1>6

\* Steps that touch none of what the invariant speaks of but onOffers, of
\* which they replace h by calls that wait on the same connection.
LEMMA HandlerInv ==
  ASSUME NEW h \in onOffers, IInv, h.on \notin closed,
         UNCHANGED <<clicks, ws, pc, requestedSessionId, readyState, pcs, closed, offers, asked, answers>>,
         \A g \in onOffers' : g \in onOffers \/ (g \in Handlers /\ g.from = h.from /\ g.on = pc)
  PROVE  IInv'
  <1> USE DEF IInv
  <1>1. Counting' /\ OneConnection' /\ AskedOnce' /\ AsksForOne' /\ AnswerFitsOffer'
    BY DEF Counting, OneConnection, AskedOnce, AsksForOne, AnswerFitsOffer
  <1>2. OwnGlobals'
    BY DEF OwnGlobals
  <1> QED
    BY <1>1, <1>2

LEMMA SettlesInv == ASSUME NEW h \in onOffers, IInv, Resolves(h) \/ Rejects(h) PROVE IInv'
  <1> USE DEF Waiting, network, browser, page, history
  <1>1. CASE RemoteSet(h) \/ IceAdded(h) \/ AnswerCreated(h)
    <2>1. \E step \in Steps : Resume(h, step)
      BY <1>1 DEF RemoteSet, IceAdded, AnswerCreated, ApplyPending, Steps
    <2>2. \A g \in onOffers' : g \in onOffers \/ (g \in Handlers /\ g.from = h.from /\ g.on = pc)
      <3>1. PICK step \in Steps : onOffers' = (onOffers \ {h}) \cup {[h EXCEPT !.at = step, !.on = pc]}
        BY <2>1 DEF Resume
      <3>2. h \in Handlers /\ pc = h.on
        BY <1>1 DEF IInv, OwnGlobals, RemoteSet, IceAdded, AnswerCreated
      <3>3. [h EXCEPT !.at = step, !.on = pc] \in Handlers
        BY <3>2 DEF Handlers
      <3>4. [h EXCEPT !.at = step, !.on = pc].from = h.from /\ [h EXCEPT !.at = step, !.on = pc].on = pc
        BY <3>2 DEF Handlers
      <3> QED
        BY <3>1, <3>3, <3>4
    <2>3. /\ h.on \notin closed
          /\ UNCHANGED <<clicks, ws, pc, requestedSessionId, readyState, pcs, closed, offers, asked, answers>>
      BY <1>1 DEF RemoteSet, IceAdded, AnswerCreated
    <2> QED
      BY <2>2, <2>3, HandlerInv
  <1>2. CASE Rejects(h)
    <2>1. /\ h.on \notin closed /\ onOffers' \subseteq onOffers
          /\ UNCHANGED <<clicks, ws, pc, requestedSessionId, readyState, pcs, closed, offers, asked, answers>>
      BY <1>2 DEF Rejects
    <2> QED
      BY <2>1, HandlerInv
  <1>3. CASE LocalSet(h)
    <2>1. pc = h.on /\ ws = h.from /\ requestedSessionId \in Ids /\ <<ws, requestedSessionId>> \in asked
      BY <1>3 DEF LocalSet, IInv, OwnGlobals
    <2>2. AnswerFitsOffer'
      <3> DEFINE new == [n |-> h.n, from |-> h.from, to |-> ws, id |-> requestedSessionId, pc |-> pc]
      <3>1. answers' \subseteq answers \cup {new} /\ UNCHANGED asked
        BY <1>3 DEF LocalSet
      <3>2. new.to = new.from /\ new.id \in Ids /\ <<new.from, new.id>> \in asked
        BY <2>1
      <3> HIDE DEF new
      <3> QED
        BY <3>1, <3>2 DEF IInv, AnswerFitsOffer
    <2>3. Counting' /\ OneConnection' /\ AskedOnce' /\ AsksForOne'
      BY <1>3 DEF LocalSet, IInv, Counting, OneConnection, AskedOnce, AsksForOne
    <2>4. OwnGlobals'
      BY <1>3 DEF LocalSet, IInv, OwnGlobals
    <2> QED
      BY <2>2, <2>3, <2>4 DEF IInv
  <1> QED
    BY <1>1, <1>2, <1>3 DEF Resolves

LEMMA NextInv == IInv /\ [Next]_vars => IInv'
  <1> SUFFICES ASSUME IInv, [Next]_vars PROVE IInv'
    OBVIOUS
  <1>1. ASSUME UNCHANGED <<clicks, ws, pc, requestedSessionId, readyState, pcs, closed, onOffers, offers, asked, answers>>
        PROVE  IInv'
    BY <1>1 DEF IInv, Counting, OneConnection, AskedOnce, OwnGlobals, AsksForOne, AnswerFitsOffer
  <1>2. ASSUME NEW k \in SocketIds, SocketTask(k) PROVE IInv'
    <2>1. CASE OnError(k) \/ OnCandidate(k)
      BY <2>1, <1>1 DEF OnError, OnCandidate, browser, network, history
    <2> QED
      BY <1>2, <2>1, OnOpenInv, SocketDownInv, OnOfferInv DEF SocketTask
  <1>3. CASE UNCHANGED vars
    BY <1>3, <1>1 DEF vars, page, browser, network, history
  <1> QED
    BY <1>2, <1>3, ClickEmptyInv, ClickInv, SettlesInv DEF Next

THEOREM Invariance == Spec => []IInv
  BY InitInv, NextInv, PTL DEF Spec

(***************************************************************************)
(* onOffer answers on the socket its offer came in on, under the id that   *)
(* was requested there, whatever happened during its four awaits.          *)
(***************************************************************************)
THEOREM AnswersFit == Spec => []AnswerFitsOffer
  <1>1. IInv => AnswerFitsOffer
    BY DEF IInv
  <1> QED
    BY <1>1, Invariance, PTL

(***************************************************************************)
(* A call of onOffer that can still continue finds its own ws and pc.      *)
(***************************************************************************)
THEOREM GlobalsKept == Spec => []GlobalsHold
  <1>1. IInv => GlobalsHold
    BY DEF IInv, OwnGlobals, GlobalsHold
  <1> QED
    BY <1>1, Invariance, PTL

(***************************************************************************)
(* No socket is used to ask for two sessions, which is what the server     *)
(* module assumes of pages.                                                *)
(***************************************************************************)
THEOREM OneSessionPerPageSocket == Spec => []AsksForOne
  <1>1. IInv => AsksForOne
    BY DEF IInv
  <1> QED
    BY <1>1, Invariance, PTL

(***************************************************************************)
(* What every variable holds, and that a call of onOffer past its first    *)
(* await has set the remote description of the connection it is on.        *)
(***************************************************************************)
Described == \A h \in onOffers : h.at # "setRemote" => h.on \in remote

LEMMA TypeInit == ASSUME Init PROVE TypeOK
  <1>1. 0 \in 0..MaxClicks /\ 0 \in 0..(MaxClicks + MaxOffers) /\ 0 \in 0..MaxOffers /\ 0 \in 0..MaxIce
    BY Bounds
  <1>2. pendingCandidates \in Seq(Candidates)
    BY DEF Init
  <1>3. readyState \in [SocketIds -> {"none", "CONNECTING", "OPEN", "CLOSING", "CLOSED"}]
    BY DEF Init
  <1>4. disabled \in BOOLEAN /\ rejected \in BOOLEAN
    BY DEF Init
  <1> QED
    BY <1>1, <1>2, <1>3, <1>4 DEF Init, TypeOK

\* One action at a time; IInv bounds the numbers it hands out.
LEMMA TypeClick == ASSUME IInv, TypeOK, ClickEmpty \/ \E id \in Ids : Click(id) PROVE TypeOK'
  <1> USE Bounds DEF TypeOK, IInv, Counting, SocketIds, Pcs, Closed, Cleared
  <1>1. CASE ClickEmpty
    <2>1. clicks' \in 0..MaxClicks /\ pc' = 0 /\ requestedSessionId' = NoId
      BY <1>1 DEF ClickEmpty
    <2>2. closed' \subseteq Pcs /\ pendingCandidates' \in Seq(Candidates)
      BY <1>1 DEF ClickEmpty
    <2> QED
      BY <1>1, <2>1, <2>2 DEF ClickEmpty, history, network
  <1>2. ASSUME NEW id \in Ids, Click(id) PROVE TypeOK'
    <2>1. ws' \in 0..MaxClicks /\ pcs' \in 0..(MaxClicks + MaxOffers) /\ pc' \in Pcs /\ clicks' \in 0..MaxClicks
      BY <1>2 DEF Click
    <2>2. closed' \subseteq Pcs /\ pendingCandidates' \in Seq(Candidates) /\ requestedSessionId' \in Ids
      BY <1>2 DEF Click
    <2>3. readyState' \in [SocketIds -> {"none", "CONNECTING", "OPEN", "CLOSING", "CLOSED"}]
      BY <1>2 DEF Click
    <2> QED
      BY <1>2, <2>1, <2>2, <2>3 DEF Click, history, network
  <1> QED
    BY <1>1, <1>2

LEMMA TypeTask == ASSUME IInv, TypeOK, NEW k \in SocketIds, SocketTask(k) PROVE TypeOK'
  <1> USE Bounds DEF TypeOK
  <1>1. CASE OnOpen(k)
    <2>1. ws \in SocketIds \/ UNCHANGED asked
      BY <1>1 DEF OnOpen, OPEN, IInv, Counting, SocketIds
    <2>2. asked' \subseteq SocketIds \X (Ids \cup {NoId})
      BY <1>1, <2>1 DEF OnOpen, RequestedIds
    <2>3. readyState' \in [SocketIds -> {"none", "CONNECTING", "OPEN", "CLOSING", "CLOSED"}] /\ disabled' \in BOOLEAN
      BY <1>1 DEF OnOpen
    <2>4. UNCHANGED <<clicks, ws, pc, requestedSessionId, pendingCandidates, pcs, closed, remote, onOffers, network,
                      given, answers, rejected>>
      BY <1>1 DEF OnOpen
    <2> QED
      BY <2>2, <2>3, <2>4 DEF network
  <1>2. CASE SocketEnds(k)
    BY <1>2 DEF SocketEnds, page, network, history
  <1>3. CASE OnClose(k)
    BY <1>3 DEF OnClose, network, history
  <1>4. CASE OnError(k)
    BY <1>4 DEF OnError, browser, network, history
  <1>5. CASE OnOffer(k)
    <2>1. pcs' \in 0..(MaxClicks + MaxOffers) /\ pc' \in Pcs /\ offers' \in 0..MaxOffers /\ offers' \in 1..MaxOffers
      BY <1>5 DEF OnOffer, IInv, Counting, Pcs
    <2>2. [n |-> offers + 1, from |-> k, on |-> pc', at |-> "setRemote"] \in Handlers
      BY <1>5, <2>1 DEF OnOffer, Handlers, Steps
    <2> QED
      BY <1>5, <2>1, <2>2 DEF OnOffer, history
  <1>6. CASE OnCandidate(k)
    <2> DEFINE c == [n |-> candidates + 1, from |-> k]
    <2>1. candidates' \in 0..MaxIce /\ c \in Candidates
      BY <1>6 DEF OnCandidate, Candidates
    <2>2. CASE MustWait
      <3>1. pendingCandidates' = Append(pendingCandidates, c) /\ UNCHANGED given
        BY <1>6, <2>2 DEF OnCandidate
      <3> QED
        BY <1>6, <2>1, <3>1 DEF OnCandidate, browser
    <2>3. CASE ~MustWait
      <3>1. given' = given \cup {[to |-> pc, candidate |-> c]} /\ UNCHANGED pendingCandidates
        BY <1>6, <2>3 DEF OnCandidate
      <3>2. pc \in Pcs
        BY <2>3 DEF MustWait
      <3> QED
        BY <1>6, <2>1, <3>1, <3>2 DEF OnCandidate, browser
    <2> QED
      BY <2>2, <2>3
  <1> QED
    BY <1>1, <1>2, <1>3, <1>4, <1>5, <1>6 DEF SocketTask

LEMMA TypeSettles == ASSUME IInv, TypeOK, NEW h \in onOffers, Resolves(h) \/ Rejects(h) PROVE TypeOK'
  <1> h \in Handlers
    BY DEF TypeOK
  <1> USE Bounds
  <1>1. ASSUME Waiting(h) PROVE pc = h.on /\ pc \in Pcs /\ ws \in SocketIds
    BY <1>1 DEF Waiting, IInv, OwnGlobals, Handlers
  <1>2. ASSUME Waiting(h), NEW step \in Steps, Resume(h, step) PROVE onOffers' \subseteq Handlers
    <2>1. [h EXCEPT !.at = step, !.on = pc] \in Handlers
      BY <1>1, <1>2 DEF Handlers
    <2> QED
      BY <1>2, <2>1 DEF Resume, TypeOK
  <1>3. ASSUME Waiting(h), ApplyPending(h)
        PROVE  /\ onOffers' \subseteq Handlers
               /\ pendingCandidates' \in Seq(Candidates)
               /\ given' \subseteq [to : Pcs, candidate : Candidates]
    <2>1. CASE pendingCandidates = <<>>
      BY <1>2, <1>3, <2>1 DEF ApplyPending, Steps, TypeOK
    <2>2. CASE pendingCandidates # <<>>
      <3>1. Head(pendingCandidates) \in Candidates /\ Tail(pendingCandidates) \in Seq(Candidates)
        BY <2>2 DEF TypeOK
      <3>2. Resume(h, "addIce") /\ Give /\ pendingCandidates' = Tail(pendingCandidates)
        BY <1>3, <2>2 DEF ApplyPending
      <3>3. given' \subseteq [to : Pcs, candidate : Candidates]
        BY <1>1, <1>3, <3>1, <3>2 DEF Give, TypeOK
      <3> QED
        BY <1>2, <1>3, <3>1, <3>2, <3>3 DEF Steps
    <2> QED
      BY <2>1, <2>2
  <1>4. CASE RemoteSet(h)
    <2>1. remote' \subseteq Pcs
      BY <1>1, <1>4 DEF RemoteSet, TypeOK
    <2> QED
      BY <1>3, <1>4, <2>1 DEF RemoteSet, network, TypeOK
  <1>5. CASE IceAdded(h)
    BY <1>3, <1>5 DEF IceAdded, browser, network, TypeOK
  <1>6. CASE AnswerCreated(h)
    <2>1. onOffers' \subseteq Handlers
      BY <1>2, <1>6 DEF AnswerCreated, Steps
    <2> QED
      BY <1>6, <2>1 DEF AnswerCreated, page, browser, network, history, TypeOK
  <1>7. CASE LocalSet(h)
    <2>1. [n |-> h.n, from |-> h.from, to |-> ws, id |-> requestedSessionId, pc |-> pc]
            \in [n : 1..MaxOffers, from : SocketIds, to : SocketIds, id : Ids \cup {NoId}, pc : Pcs]
      BY <1>1, <1>7 DEF LocalSet, Handlers, TypeOK
    <2> QED
      BY <1>7, <2>1 DEF LocalSet, page, browser, network, TypeOK
  <1>8. CASE Rejects(h)
    BY <1>8 DEF Rejects, page, browser, network, TypeOK
  <1> QED
    BY <1>4, <1>5, <1>6, <1>7, <1>8 DEF Resolves

LEMMA TypeNext == ASSUME IInv, TypeOK, [Next]_vars PROVE TypeOK'
  <1>1. CASE UNCHANGED vars
    BY <1>1 DEF vars, page, browser, network, history, TypeOK
  <1>2. CASE Next
    BY <1>2, TypeClick, TypeTask, TypeSettles DEF Next
  <1> QED
    BY <1>1, <1>2

(***************************************************************************)
(* Every variable of the page holds what it is meant to hold.              *)
(***************************************************************************)
THEOREM TypeCorrect == Spec => []TypeOK
  BY TypeInit, TypeNext, Invariance, PTL DEF Spec

(***************************************************************************)
(* What is given to a connection is given after its description: an await  *)
(* that resolves is one of the current connection (OwnGlobals), and the    *)
(* cache is only emptied by calls that have set the description.           *)
(***************************************************************************)
Early == TypeOK /\ Described /\ NoEarlyCandidate

LEMMA EarlySettles == ASSUME IInv, Early, NEW h \in onOffers, Resolves(h) PROVE Described' /\ NoEarlyCandidate'
  <1> USE DEF Early
  <1>1. h \in Handlers /\ pc = h.on
    BY DEF Resolves, RemoteSet, IceAdded, AnswerCreated, LocalSet, Waiting, IInv, OwnGlobals, TypeOK
  <1>2. ASSUME NEW step \in Steps, Resume(h, step), h.on \in remote', remote \subseteq remote' PROVE Described'
    <2>1. [h EXCEPT !.at = step, !.on = pc].on = h.on
      BY <1>1 DEF Handlers
    <2> QED
      BY <1>2, <2>1 DEF Resume, Described
  <1>3. ASSUME ApplyPending(h), h.on \in remote', remote \subseteq remote' PROVE Described' /\ NoEarlyCandidate'
    <2>1. Described'
      BY <1>2, <1>3 DEF ApplyPending, Steps
    <2>2. given' = given \/ Give
      BY <1>3 DEF ApplyPending
    <2> QED
      BY <1>1, <1>3, <2>1, <2>2 DEF Give, NoEarlyCandidate
  <1>4. CASE RemoteSet(h)
    BY <1>3, <1>4 DEF RemoteSet
  <1>5. CASE IceAdded(h)
    BY <1>3, <1>5 DEF IceAdded, browser, Described
  <1>6. CASE AnswerCreated(h)
    <2>1. Described'
      BY <1>2, <1>6 DEF AnswerCreated, browser, Described, Steps
    <2> QED
      BY <1>6, <2>1 DEF AnswerCreated, browser, history, NoEarlyCandidate
  <1>7. CASE LocalSet(h)
    BY <1>7 DEF LocalSet, browser, Described, NoEarlyCandidate
  <1> QED
    BY <1>4, <1>5, <1>6, <1>7 DEF Resolves

LEMMA EarlyNext == ASSUME IInv, Early, [Next]_vars PROVE Early'
  <1>1. TypeOK'
    BY TypeNext DEF Early
  <1>2. ASSUME UNCHANGED <<onOffers, remote, given>> PROVE Described' /\ NoEarlyCandidate'
    BY <1>2 DEF Early, Described, NoEarlyCandidate
  <1>3. ASSUME NEW k \in SocketIds, SocketTask(k) PROVE Described' /\ NoEarlyCandidate'
    <2>1. CASE OnOffer(k)
      BY <2>1 DEF OnOffer, history, Early, Described, NoEarlyCandidate
    <2>2. CASE OnCandidate(k)
      <3>1. given' = given \/ pc \in remote
        BY <2>2 DEF OnCandidate, MustWait
      <3>2. \A g \in given' : g \in given \/ g.to = pc
        BY <2>2 DEF OnCandidate
      <3> QED
        BY <2>2, <3>1, <3>2 DEF OnCandidate, browser, Early, Described, NoEarlyCandidate
    <2>3. CASE OnOpen(k) \/ SocketEnds(k) \/ OnClose(k) \/ OnError(k)
      BY <1>2, <2>3 DEF OnOpen, SocketEnds, OnClose, OnError, history, browser
    <2> QED
      BY <1>3, <2>1, <2>2, <2>3 DEF SocketTask
  <1>4. ASSUME NEW h \in onOffers, Rejects(h) PROVE Described' /\ NoEarlyCandidate'
    BY <1>4 DEF Rejects, browser, Early, Described, NoEarlyCandidate
  <1>5. CASE ClickEmpty \/ \E id \in Ids : Click(id)
    <2>1. UNCHANGED <<onOffers, remote, given>>
      BY <1>5 DEF ClickEmpty, Click, history
    <2> QED
      BY <1>1, <1>2, <2>1 DEF Early
  <1>6. CASE UNCHANGED vars
    <2>1. UNCHANGED <<onOffers, remote, given>>
      BY <1>6 DEF vars, browser, history
    <2> QED
      BY <1>1, <1>2, <2>1 DEF Early
  <1> QED
    BY <1>1, <1>3, <1>4, <1>5, <1>6, EarlySettles DEF Next, Early

(***************************************************************************)
(* No candidate is handed to a connection that has no remote description   *)
(* yet, wherever in the awaits of onOffer it arrives.                      *)
(***************************************************************************)
THEOREM CandidatesInTime == Spec => []NoEarlyCandidate
  <1>1. ASSUME Init PROVE Early
    BY <1>1, TypeInit DEF Init, Early, Described, NoEarlyCandidate
  <1>2. Early => NoEarlyCandidate
    BY DEF Early
  <1> QED
    BY <1>1, <1>2, EarlyNext, Invariance, PTL DEF Spec

-----------------------------------------------------------------------------
\* Candidates are told apart by their numbers, which are handed out in order.
Fresh ==
    /\ \A i \in DOMAIN pendingCandidates : pendingCandidates[i].n <= candidates
    /\ \A g \in given : g.candidate.n <= candidates
    /\ \A i, j \in DOMAIN pendingCandidates : pendingCandidates[i].n = pendingCandidates[j].n => i = j
    /\ \A g \in given, i \in DOMAIN pendingCandidates : g.candidate.n # pendingCandidates[i].n
    /\ \A g, h \in given : g.candidate.n = h.candidate.n => g.to = h.to

\* What is cached, and what the current connection has been given and has
\* answered, is of the current socket.
OwnSession ==
    /\ \A g \in given : g.to \in 1..pcs
    /\ \A a \in answers : a.pc \in 1..pcs
    /\ remote \subseteq 1..pcs
    /\ \A i \in DOMAIN pendingCandidates : pendingCandidates[i].from = ws
    /\ \A g \in given : g.to = pc => g.candidate.from = ws
    /\ \A a \in answers : a.pc = pc => a.from = ws

\* While something is cached for a described connection, its loop goes on.
Draining ==
    pc \in remote /\ ~rejected /\ pendingCandidates # <<>> => \E h \in onOffers : h.on = pc /\ h.at = "addIce"

CInv == Fresh /\ OwnSession /\ SessionsNeverMix /\ Draining

\* The cache as it is emptied and filled.
LEMMA TailOfCache ==
    ASSUME TypeOK, pendingCandidates # <<>>
    PROVE  /\ Head(pendingCandidates) = pendingCandidates[1] /\ 1 \in DOMAIN pendingCandidates
           /\ Head(pendingCandidates) \in Candidates
           /\ \A i \in DOMAIN Tail(pendingCandidates) :
                 i \in Nat /\ i + 1 \in DOMAIN pendingCandidates /\ i + 1 # 1
                 /\ Tail(pendingCandidates)[i] = pendingCandidates[i + 1]
<1> DEFINE q == pendingCandidates
<1>1. q \in Seq(Candidates) /\ q # <<>>
  BY DEF TypeOK
<1> QED
  BY <1>1

LEMMA CacheGrows ==
    ASSUME TypeOK, NEW c
    PROVE  \A i \in DOMAIN Append(pendingCandidates, c) :
              \/ i \in DOMAIN pendingCandidates /\ Append(pendingCandidates, c)[i] = pendingCandidates[i]
              \/ i = Len(pendingCandidates) + 1 /\ Append(pendingCandidates, c)[i] = c
<1> DEFINE q == pendingCandidates
<1>1. q \in Seq(Candidates)
  BY DEF TypeOK
<1> QED
  BY <1>1

-----------------------------------------------------------------------------
\* A candidate that comes goes into the cache or to the connection.
LEMMA CandidateComes ==
  ASSUME IInv, TypeOK, CInv, NEW k \in SocketIds, OnCandidate(k)
  PROVE  CInv'
<1> DEFINE c == [n |-> candidates + 1, from |-> k]
<1>1. c.n = candidates + 1 /\ c.from = k /\ candidates \in Nat /\ candidates' = candidates + 1
  BY Bounds DEF TypeOK, OnCandidate
<1>2. /\ UNCHANGED <<ws, pc, browser, onOffers, answers, rejected>>
      /\ \/ MustWait /\ pendingCandidates' = Append(pendingCandidates, c) /\ UNCHANGED given
         \/ ~MustWait /\ given' = given \cup {[to |-> pc, candidate |-> c]} /\ UNCHANGED pendingCandidates
  BY DEF OnCandidate
<1>3. k = ws
  BY DEF OnCandidate, InSession, OPEN, IInv, AskedOnce
<1>4. /\ \A i \in DOMAIN pendingCandidates : pendingCandidates[i].n \in Nat
      /\ \A g \in given : g.candidate.n \in Nat
  <2>1. \A x \in Candidates : x.n \in Nat
    BY Bounds DEF Candidates
  <2>2. \A i \in DOMAIN pendingCandidates : pendingCandidates[i] \in Candidates
    BY DEF TypeOK
  <2> QED
    BY <2>1, <2>2 DEF TypeOK
<1> HIDE DEF c
<1>5. CASE MustWait /\ pendingCandidates' = Append(pendingCandidates, c) /\ UNCHANGED given
  <2>1. \A i \in DOMAIN pendingCandidates' :
           \/ i \in DOMAIN pendingCandidates /\ pendingCandidates'[i] = pendingCandidates[i]
           \/ i = Len(pendingCandidates) + 1 /\ pendingCandidates'[i] = c
    BY <1>5, CacheGrows
  <2>2. Fresh'
    BY <1>1, <1>4, <1>5, <2>1 DEF CInv, Fresh
  <2>3. OwnSession' /\ SessionsNeverMix'
    BY <1>1, <1>2, <1>3, <1>5, <2>1 DEF CInv, OwnSession, SessionsNeverMix, browser
  <2>4. pc \notin remote
    BY <1>5, Bounds DEF MustWait, TypeOK, Pcs
  <2>5. Draining'
    BY <1>2, <2>4 DEF Draining, browser
  <2> QED
    BY <2>2, <2>3, <2>5 DEF CInv
<1>6. CASE ~MustWait /\ given' = given \cup {[to |-> pc, candidate |-> c]} /\ UNCHANGED pendingCandidates
  <2> DEFINE new == [to |-> pc, candidate |-> c]
  <2>1. new.to = pc /\ new.candidate.n = candidates + 1 /\ new.candidate.from = ws
    BY <1>1, <1>3
  <2>2. given' = given \cup {new}
    BY <1>6
  <2>3. pc \in 1..pcs
    BY <1>6 DEF MustWait, CInv, OwnSession
  <2> HIDE DEF new
  <2>4. Fresh'
    BY <1>1, <1>4, <1>6, <2>1, <2>2 DEF CInv, Fresh
  <2>5. OwnSession' /\ SessionsNeverMix'
    BY <1>2, <1>6, <2>1, <2>2, <2>3 DEF CInv, OwnSession, SessionsNeverMix, browser
  <2>6. Draining'
    BY <1>2, <1>6 DEF CInv, Draining, browser
  <2> QED
    BY <2>4, <2>5, <2>6 DEF CInv
<1> QED
  BY <1>2, <1>5, <1>6

\* The loop of onOffer takes one candidate from the cache, or ends.
LEMMA CacheApplied ==
  ASSUME IInv, TypeOK, CInv, NEW h \in onOffers, RemoteSet(h) \/ IceAdded(h)
  PROVE  CInv'
<1>1. h \in Handlers /\ h.on = pc /\ h.on \in 1..pcs /\ pc \notin closed
  BY DEF RemoteSet, IceAdded, Waiting, IInv, OwnGlobals
<1>2. ApplyPending(h) /\ UNCHANGED <<ws, pc, pcs, closed, candidates, answers, rejected>>
  BY DEF RemoteSet, IceAdded, browser, network
<1>3. remote' \subseteq remote \cup {pc}
  BY <1>1 DEF RemoteSet, IceAdded, browser
<1>4. CASE pendingCandidates = <<>>
  <2>1. UNCHANGED <<pendingCandidates, given>>
    BY <1>2, <1>4 DEF ApplyPending
  <2>2. Fresh'
    BY <1>2, <2>1 DEF CInv, Fresh
  <2>3. OwnSession' /\ SessionsNeverMix'
    BY <1>1, <1>2, <1>3, <2>1 DEF CInv, OwnSession, SessionsNeverMix
  <2>4. Draining'
    BY <1>4, <2>1 DEF Draining
  <2> QED
    BY <2>2, <2>3, <2>4 DEF CInv
<1>5. CASE pendingCandidates # <<>>
  <2> DEFINE c == Head(pendingCandidates)
             new == [to |-> pc, candidate |-> c]
  <2>1. /\ c = pendingCandidates[1] /\ 1 \in DOMAIN pendingCandidates
        /\ \A i \in DOMAIN pendingCandidates' :
              i \in Nat /\ i + 1 \in DOMAIN pendingCandidates /\ i + 1 # 1
              /\ pendingCandidates'[i] = pendingCandidates[i + 1]
    BY <1>2, <1>5, TailOfCache DEF ApplyPending
  <2>2. given' = given \cup {new} /\ new.to = pc /\ new.candidate = c
    BY <1>2, <1>5 DEF ApplyPending, Give
  <2>3. onOffers' = (onOffers \ {h}) \cup {[h EXCEPT !.at = "addIce", !.on = pc]}
    BY <1>2, <1>5 DEF ApplyPending, Resume
  <2> HIDE DEF new, c
  <2>4. Fresh'
    <3>1. /\ \A i \in DOMAIN pendingCandidates' : pendingCandidates'[i].n <= candidates
          /\ \A g \in given' : g.candidate.n <= candidates
      BY <2>1, <2>2 DEF CInv, Fresh
    <3>2. \A i, j \in DOMAIN pendingCandidates' : pendingCandidates'[i].n = pendingCandidates'[j].n => i = j
      <4>1. \A i, j \in DOMAIN pendingCandidates' : pendingCandidates'[i].n = pendingCandidates'[j].n => i + 1 = j + 1
        BY <2>1 DEF CInv, Fresh
      <4> QED
        BY <2>1, <4>1
    <3>3. \A g \in given', i \in DOMAIN pendingCandidates' : g.candidate.n # pendingCandidates'[i].n
      BY <2>1, <2>2 DEF CInv, Fresh
    <3>4. \A g \in given : g.candidate.n # new.candidate.n
      BY <2>1, <2>2 DEF CInv, Fresh
    <3>5. \A f, g \in given' : f.candidate.n = g.candidate.n => f.to = g.to
      BY <2>2, <3>4 DEF CInv, Fresh
    <3> QED
      BY <1>2, <3>1, <3>2, <3>3, <3>5 DEF Fresh
  <2>5. new.candidate.from = ws
    BY <2>1, <2>2 DEF CInv, OwnSession
  <2>6. OwnSession'
    BY <1>1, <1>2, <1>3, <2>1, <2>2, <2>5 DEF CInv, OwnSession
  <2>7. SessionsNeverMix'
    BY <1>2, <2>2, <2>5 DEF CInv, OwnSession, SessionsNeverMix
  <2>8. Draining'
    <3>1. [h EXCEPT !.at = "addIce", !.on = pc].on = pc /\ [h EXCEPT !.at = "addIce", !.on = pc].at = "addIce"
      BY <1>1 DEF Handlers
    <3> QED
      BY <1>2, <2>3, <3>1 DEF Draining
  <2> QED
    BY <2>4, <2>6, <2>7, <2>8 DEF CInv
<1> QED
  BY <1>4, <1>5

\* The later awaits of onOffer leave the cache alone, and other calls of it.
LEMMA CacheLeft ==
  ASSUME IInv, TypeOK, CInv, NEW h \in onOffers, AnswerCreated(h) \/ LocalSet(h) \/ Rejects(h)
  PROVE  CInv'
<1>1. /\ UNCHANGED <<ws, pc, pcs, pendingCandidates, remote, candidates, given>>
      /\ h \in Handlers /\ h.on = pc /\ h.from = ws /\ pc \in 1..pcs
  BY DEF AnswerCreated, LocalSet, Rejects, Waiting, page, browser, network, history, IInv, OwnGlobals
<1>2. Fresh'
  BY <1>1 DEF CInv, Fresh
<1>3. \A a \in answers' : a \in answers \/ (a.from = ws /\ a.pc = pc)
  BY <1>1 DEF AnswerCreated, LocalSet, Rejects, history
<1>4. OwnSession' /\ SessionsNeverMix'
  BY <1>1, <1>3 DEF CInv, OwnSession, SessionsNeverMix
<1>5. Draining'
  <2>1. CASE Rejects(h)
    BY <2>1 DEF Rejects, Draining
  <2>2. CASE AnswerCreated(h) \/ LocalSet(h)
    <3>1. h.at # "addIce" /\ onOffers \ {h} \subseteq onOffers' /\ rejected' = rejected
      BY <2>2 DEF AnswerCreated, LocalSet, Resume, history
    <3> QED
      BY <1>1, <3>1 DEF CInv, Draining
  <2> QED
    BY <2>1, <2>2
<1> QED
  BY <1>2, <1>4, <1>5 DEF CInv

\* A click empties the cache, and what a connection of its own is numbered
\* is new.
LEMMA CacheCleared ==
  ASSUME IInv, TypeOK, CInv, ClickEmpty \/ \E id \in Ids : Click(id)
  PROVE  CInv'
<1>1. /\ pendingCandidates' = <<>> /\ UNCHANGED <<candidates, given, answers, remote>>
      /\ pcs \in Nat /\ pcs' \in Nat /\ pcs <= pcs' /\ pc' \notin 1..pcs
  BY Bounds DEF ClickEmpty, Click, Cleared, network, history, TypeOK
<1>2. DOMAIN pendingCandidates' = {}
  BY <1>1
<1>3. Fresh'
  BY <1>1, <1>2 DEF CInv, Fresh
<1>4. \A x \in 1..pcs : x \in 1..pcs'
  BY <1>1
<1>5. OwnSession' /\ SessionsNeverMix'
  BY <1>1, <1>2, <1>4 DEF CInv, OwnSession, SessionsNeverMix
<1>6. Draining'
  BY <1>1 DEF Draining
<1> QED
  BY <1>3, <1>5, <1>6 DEF CInv

LEMMA CacheNext == ASSUME IInv, TypeOK, CInv, [Next]_vars PROVE CInv'
<1>1. ASSUME UNCHANGED <<ws, pc, pcs, pendingCandidates, remote, candidates, given, answers, rejected, onOffers>>
      PROVE  CInv'
  BY <1>1 DEF CInv, Fresh, OwnSession, SessionsNeverMix, Draining
<1>2. ASSUME NEW k \in SocketIds, OnOffer(k) PROVE CInv'
  <2>0. pcs \in Nat
    BY Bounds DEF TypeOK
  <2>1. /\ UNCHANGED <<ws, pendingCandidates, remote, candidates, given, answers, rejected>>
        /\ onOffers \subseteq onOffers'
        /\ (pc' = pc /\ pcs' = pcs) \/ (pc' = pcs + 1 /\ pcs' = pcs + 1)
    BY <1>2 DEF OnOffer, history
  <2>2. Fresh'
    BY <2>1 DEF CInv, Fresh
  <2>3. (\A x \in 1..pcs : x \in 1..pcs' /\ (x = pc' => x = pc)) /\ 1..pcs \subseteq 1..pcs'
    BY <2>0, <2>1
  <2>4. OwnSession' /\ SessionsNeverMix'
    BY <2>1, <2>3 DEF CInv, OwnSession, SessionsNeverMix
  <2>5. Draining'
    BY <2>1, <2>3 DEF CInv, OwnSession, Draining
  <2> QED
    BY <2>2, <2>4, <2>5 DEF CInv
<1>3. ASSUME NEW k \in SocketIds, OnOpen(k) \/ SocketEnds(k) \/ OnClose(k) \/ OnError(k) PROVE CInv'
  BY <1>1, <1>3 DEF OnOpen, SocketEnds, OnClose, OnError, page, browser, network, history
<1>4. CASE UNCHANGED vars
  BY <1>1, <1>4 DEF vars, page, browser, network, history
<1> QED
  BY <1>2, <1>3, <1>4, CandidateComes, CacheApplied, CacheLeft, CacheCleared DEF Next, SocketTask, Resolves

LEMMA CacheInit == Init => CInv
<1> SUFFICES ASSUME Init PROVE CInv
  OBVIOUS
<1>1. DOMAIN pendingCandidates = {}
  BY DEF Init
<1> QED
  BY <1>1 DEF Init, CInv, Fresh, OwnSession, SessionsNeverMix, Draining

LEMMA CacheInvariance == Spec => []CInv
  BY CacheInit, CacheNext, Invariance, TypeCorrect, PTL DEF Spec

(***************************************************************************)
(* However candidates fall between the awaits of onOffer and the clicks,   *)
(* each is cached once, or handed to one connection.                       *)
(***************************************************************************)
THEOREM CandidatesOnce == Spec => []CandidateOnce
<1>1. CInv => CandidateOnce
  BY DEF CInv, Fresh, CandidateOnce, Held
<1> QED
  BY <1>1, CacheInvariance, PTL

(***************************************************************************)
(* A connection gets the candidates of one socket only, and answers the    *)
(* offers of that one.                                                     *)
(***************************************************************************)
THEOREM SessionsApart == Spec => []SessionsNeverMix
<1>1. CInv => SessionsNeverMix
  BY DEF CInv
<1> QED
  BY <1>1, CacheInvariance, PTL

(***************************************************************************)
(* When the last call of onOffer has ended without an exception, nothing   *)
(* is left in the cache of a connection that has its description.          *)
(***************************************************************************)
THEOREM NothingLeftInCache == Spec => []CacheDrained
<1>1. IInv /\ CInv => CacheDrained
  BY DEF IInv, OneConnection, CInv, Draining, CacheDrained
<1> QED
  BY <1>1, Invariance, CacheInvariance, PTL
=============================================================================
