----------------------------- MODULE PushClient -----------------------------
(***************************************************************************)
(* A push client from the request that asks for it to its destructor       *)
(* (WebRTCPushClient and CapturerTrackSource of module/pushclient.cpp, the *)
(* map clients of module/signaling_client.cpp).  The Qt thread builds      *)
(* clients, registers and destroys them, one call after the other; every   *)
(* client has a capture thread, and WebRTC's signalling thread answers its *)
(* CreateOffer.  A request refused by IsDesktopCaptureAvailable, a failed  *)
(* capture and a failed CreateOffer change nothing that is modelled here.  *)
(* A signalling thread may hang (RtpStats has its threads in detail): then *)
(* whoever calls on the PeerConnection waits for ever.                     *)
(***************************************************************************)
EXTENDS Naturals

CONSTANTS
    Ids,            \* session ids that requests carry
    MaxClients      \* bound on the push clients built in a run

ASSUME MaxClientsIsNat == MaxClients \in Nat

VARIABLES
    made,       \* how many push clients have been built
    held,       \* what each of them holds
    running,    \* capture_source_->running_
    capture,    \* where the capture thread of each is
    asked,      \* its calls of CreateOffer that have not been answered
    offers,     \* the offers it has sent
    errors,     \* the errors sent for the request it was built for
    hung,       \* the push clients whose signalling thread hangs
    clients,    \* the map clients, NoClient where there is no entry
    handler     \* where the Qt thread is, for which id and push client

capturing == <<running, capture>>
signalled == <<asked, offers, errors, hung>>
vars == <<made, held, capturing, signalled, clients, handler>>

NoClient == 0
Objects == 1..MaxClients
Resources == {"threads", "source", "adm", "factory", "pc", "video", "audio"}

At(at, id, client, after) == [at |-> at, id |-> id, client |-> client, after |-> after]
Waits(at) == handler.at = at

Init ==
    /\ made = 0
    /\ held = [c \in Objects |-> {}]
    /\ running = [c \in Objects |-> FALSE]
    /\ capture = [c \in Objects |-> "none"]
    /\ asked = [c \in Objects |-> 0]
    /\ offers = [c \in Objects |-> 0]
    /\ errors = [c \in Objects |-> 0]
    /\ hung = {}
    /\ clients = [i \in Ids |-> NoClient]
    /\ handler \in {At("idle", i, NoClient, "idle") : i \in Ids}

-----------------------------------------------------------------------------
(* A request: onTextMessageReceived and Init.                              *)

\* The constructor; the callbacks are set before Init.
Construct(id) ==
    /\ Waits("idle") /\ made < MaxClients
    /\ made' = made + 1
    /\ held' = [held EXCEPT ![made + 1] = {"threads"}]
    /\ handler' = At("prepare", id, made + 1, "idle")
    /\ UNCHANGED <<capturing, signalled, clients>>

\* Init's current step takes something and hands over to the next one.
Succeeds(step, taken, next) ==
    /\ Waits(step)
    /\ held' = [held EXCEPT ![handler.client] = @ \cup taken]
    /\ handler' = [handler EXCEPT !.at = next]
    /\ UNCHANGED <<made, clients>>

PrepareDesktopVideoSource ==
    Succeeds("prepare", {"source"}, "adm") /\ UNCHANGED <<capturing, signalled>>

\* CreatePlatformAudioDeviceModule and ConfigureAudioCaptureDevice.
CreateAudioDevice ==
    Succeeds("adm", {"adm"}, "connect") /\ UNCHANGED <<capturing, signalled>>

\* Mutant of CreatePeerConnection: the offer is not left to the end of Init.
CreatePeerConnection_Offers ==
    /\ Succeeds("connect", {"factory", "pc"}, "video")
    /\ asked' = [asked EXCEPT ![handler.client] = @ + 1]
    /\ UNCHANGED <<capturing, offers, errors, hung>>

CreatePeerConnection ==
    Succeeds("connect", {"factory", "pc"}, "video") /\ UNCHANGED <<capturing, signalled>>

\* CapturerTrackSource::Start
Start(c) ==
    /\ running' = [running EXCEPT ![c] = TRUE]
    /\ capture' = [capture EXCEPT ![c] = "begin"]

\* The track, its transceiver and parameters; PrepareDesktopVideoSource finds
\* the source there.
AddDesktopVideo ==
    /\ Succeeds("video", {"video"}, "audio")
    /\ Start(handler.client)
    /\ UNCHANGED signalled

AddLocalAudio ==
    Succeeds("audio", {"audio"}, "offer") /\ UNCHANGED <<capturing, signalled>>

CreateAndSendOffer ==
    /\ Succeeds("offer", {}, "register")
    /\ asked' = [asked EXCEPT ![handler.client] = @ + 1]
    /\ UNCHANGED <<capturing, offers, errors, hung>>

\* What a step that fails may leave behind in the push client; AddLocalAudio
\* gives back what it took.
Remains(step) ==
    CASE step = "prepare" -> {"source"}
      [] step = "adm" -> {"adm"}
      [] step = "connect" -> {"factory"}
      [] step = "video" -> {"video"}
      [] OTHER -> {}

\* Mutant of Failed: the client is registered although Init has failed.
Failed_Registered == handler' = [handler EXCEPT !.at = "register"]

\* The client is a local variable of the handler, which returns.
Failed == handler' = [handler EXCEPT !.at = "destroy"]

\* A step returns false: the error is sent and nothing registered.
InitFails ==
    /\ handler.at \in {"prepare", "adm", "connect", "video", "audio"}
    /\ \E left \in SUBSET Remains(handler.at) : held' = [held EXCEPT ![handler.client] = @ \cup left]
    /\ errors' = [errors EXCEPT ![handler.client] = @ + 1]
    /\ Failed
    /\ UNCHANGED <<made, capturing, asked, offers, hung, clients>>

\* clients[id] = client, with the destructor of the client that was there.
Register ==
    /\ Waits("register")
    /\ clients' = [clients EXCEPT ![handler.id] = handler.client]
    /\ handler' = IF clients[handler.id] = NoClient THEN [handler EXCEPT !.at = "idle"]
                  ELSE [handler EXCEPT !.at = "destroy", !.client = clients[handler.id]]
    /\ UNCHANGED <<made, held, capturing, signalled>>

\* An answer or a candidate is a call on the PeerConnection of the id's client,
\* which returns, and changes nothing here, unless the signalling thread hangs.
CallHung(id) ==
    /\ Waits("idle") /\ clients[id] \in hung
    /\ handler' = At("call", id, NoClient, "idle")
    /\ UNCHANGED <<made, held, capturing, signalled, clients>>

\* The SignalingClient goes at the end of main, with the clients in its map.
Shutdown ==
    /\ Waits("idle")
    /\ handler' = [handler EXCEPT !.at = "closing"]
    /\ UNCHANGED <<made, held, capturing, signalled, clients>>

ClearClients ==
    /\ Waits("closing")
    /\ \/ \E i \in Ids :
            /\ clients[i] # NoClient
            /\ clients' = [clients EXCEPT ![i] = NoClient]
            /\ handler' = At("destroy", i, clients[i], "closing")
       \/ /\ \A i \in Ids : clients[i] = NoClient
          /\ handler' = [handler EXCEPT !.at = "gone"]
          /\ UNCHANGED clients
    /\ UNCHANGED <<made, held, capturing, signalled>>

-----------------------------------------------------------------------------
(* The destructor of a push client.                                        *)

\* The poller is joined; it is served unless the signalling thread hangs.
StopRtpSendStatsPolling ==
    /\ Waits("destroy") /\ handler.client \notin hung
    /\ handler' = [handler EXCEPT !.at = "close"]
    /\ UNCHANGED <<made, held, capturing, signalled, clients>>

\* Mutant of Closed: the audio device is left to the members' destruction.
Closed_NotAdm == {"factory", "pc", "video", "audio"}

Closed == {"factory", "pc", "video", "audio", "adm"}

\* The blocking call on the worker thread, which waits for the signalling
\* thread; no callback comes after it.
ClosePeerConnection ==
    /\ Waits("close") /\ handler.client \notin hung
    /\ held' = [held EXCEPT ![handler.client] = @ \ Closed]
    /\ asked' = [asked EXCEPT ![handler.client] = 0]
    /\ handler' = [handler EXCEPT !.at = "threads"]
    /\ UNCHANGED <<made, capturing, offers, errors, hung, clients>>

\* Mutant of Released: running_ stays set.
Released_Running(c) == UNCHANGED running

\* running_ = false in ~CapturerTrackSource.
Released(c) == running' = [running EXCEPT ![c] = FALSE]

\* The threads are stopped, none of which hangs any more; then the members go,
\* and with them capture_source_.
StopThreads ==
    /\ Waits("threads")
    /\ held' = [held EXCEPT ![handler.client] = @ \ {"threads"}]
    /\ Released(handler.client)
    /\ handler' = [handler EXCEPT !.at = "join"]
    /\ UNCHANGED <<made, capture, signalled, clients>>

Ended(c) == capture[c] \in {"none", "ended"}

\* Mutant of Joined: ~CapturerTrackSource does not wait for its thread.
Joined_Not(c) == TRUE

\* if (cap_thread_.joinable()) cap_thread_.join()
Joined(c) == Ended(c)

ReleaseSource ==
    /\ Waits("join") /\ Joined(handler.client)
    /\ held' = [held EXCEPT ![handler.client] = @ \ {"source"}]
    /\ handler' = [handler EXCEPT !.at = handler.after, !.client = NoClient]
    /\ UNCHANGED <<made, capturing, signalled, clients>>

-----------------------------------------------------------------------------
(* The capture thread of a push client.                                    *)

Captures(c, from, to) ==
    /\ capture[c] = from
    /\ capture' = [capture EXCEPT ![c] = to]
    /\ UNCHANGED <<made, held, running, signalled, clients, handler>>

\* capturer_->Start, with a callback on the thread's stack.
CaptureBegins(c) == Captures(c, "begin", "test")

\* while (running_)
CaptureTest(c) == Captures(c, "test", IF running[c] THEN "frame" ELSE "ended")

\* CaptureFrame with OnCaptureResult, which uses the source, and the sleep.
CaptureFrame(c) == Captures(c, "frame", "test")

-----------------------------------------------------------------------------
\* The success callback of CreateOffer; a failed CreateOffer is only logged.
OfferCreated(c) ==
    /\ asked[c] > 0 /\ c \notin hung
    /\ asked' = [asked EXCEPT ![c] = @ - 1]
    /\ offers' \in {offers, [offers EXCEPT ![c] = @ + 1]}
    /\ UNCHANGED <<made, held, capturing, errors, hung, clients, handler>>

\* OnConnectionChange joins a poller that waits for the thread it runs on, or a
\* destructor comes back to the worker that waits for it (RtpStats: PollerStops
\* and Hung).  The former takes a link, so an answer to the offer of a client in the map.
Hangs(c) ==
    /\ c \notin hung
    /\ \/ offers[c] > 0 /\ "pc" \in held[c] /\ (Waits("register") => handler.client # c)
       \/ Waits("close") /\ handler.client = c /\ held[c] \cap {"factory", "pc"} # {}
    /\ hung' = hung \cup {c}
    /\ UNCHANGED <<made, held, capturing, asked, offers, errors, clients, handler>>

-----------------------------------------------------------------------------
InitSucceeds ==
    \/ PrepareDesktopVideoSource \/ CreateAudioDevice \/ CreatePeerConnection
    \/ AddDesktopVideo \/ AddLocalAudio \/ CreateAndSendOffer

Destructor == StopRtpSendStatsPolling \/ ClosePeerConnection \/ StopThreads \/ ReleaseSource

Handles == InitSucceeds \/ InitFails \/ Register \/ ClearClients \/ Destructor

CaptureThread(c) == CaptureBegins(c) \/ CaptureTest(c) \/ CaptureFrame(c)

Next ==
    \/ \E id \in Ids : Construct(id)
    \/ \E id \in Ids : CallHung(id)
    \/ Shutdown
    \/ Handles
    \/ \E c \in Objects : CaptureThread(c) \/ OfferCreated(c) \/ Hangs(c)

\* Threads run, and a capture returns.
CaptureReturns(c) == WF_vars(CaptureThread(c))

CapturesReturn == \A c \in Objects : CaptureReturns(c)

Fairness == WF_vars(Handles) /\ CapturesReturn

Spec == Init /\ [][Next]_vars
FairSpec == Spec /\ Fairness

-----------------------------------------------------------------------------
Steps == {"idle", "prepare", "adm", "connect", "video", "audio", "offer", "register",
          "call", "destroy", "close", "threads", "join", "closing", "gone"}

TypeOK ==
    /\ made \in 0..MaxClients
    /\ held \in [Objects -> SUBSET Resources]
    /\ running \in [Objects -> BOOLEAN]
    /\ capture \in [Objects -> {"none", "begin", "test", "frame", "ended"}]
    /\ asked \in [Objects -> 0..1] /\ offers \in [Objects -> 0..1] /\ errors \in [Objects -> 0..1]
    /\ hung \subseteq Objects
    /\ clients \in [Ids -> 0..made]
    /\ handler \in [at : Steps, id : Ids, client : 0..made, after : {"idle", "closing"}]

Registered(c) == \E i \in Ids : clients[i] = c

(***************************************************************************)
(* While a capture thread runs, its source is there: the thread and the    *)
(* callback on its stack use a plain this, which only the join in          *)
(* ~CapturerTrackSource keeps alive.                                       *)
(***************************************************************************)
SourceOutlivesThread == \A c \in Objects : ~Ended(c) => "source" \in held[c]

(***************************************************************************)
(* Whenever the Qt thread is back in its event loop, the push clients in   *)
(* the map hold everything, and those that failed or were replaced hold    *)
(* nothing any more: no step of Init that fails leaves a thread, a device  *)
(* or a connection behind.                                                 *)
(***************************************************************************)
NothingLeaks ==
    handler.at \in {"idle", "closing", "gone"} =>
        \A c \in Objects : held[c] = IF Registered(c) THEN Resources ELSE {}

(***************************************************************************)
(* A registered push client captures, however its thread and the Qt thread *)
(* interleave, and it alone does while the Qt thread is in its event loop. *)
(***************************************************************************)
RegisteredCaptures ==
    handler.at \in {"idle", "closing", "gone"} => \A c \in Objects : Registered(c) <=> ~Ended(c)

(***************************************************************************)
(* A request that was refused with an error is not offered a session too:  *)
(* nothing of a push client speaks to the page before Init has come to its *)
(* end.                                                                    *)
(***************************************************************************)
NoOfferAfterError == \A c \in Objects : errors[c] > 0 => offers[c] = 0 /\ asked[c] = 0

(***************************************************************************)
(* The session of an id gives way only to a push client that is complete:  *)
(* a request that fails does not cost the page the session it has.         *)
(***************************************************************************)
GivesWayToComplete ==
    [][\A i \in Ids : clients'[i] \notin {clients[i], NoClient} =>
        LET c == clients'[i] IN held[c] = Resources /\ errors[c] = 0 /\ ~Ended(c)]_vars

\* The Qt thread waits for a signalling thread that hangs.
HeldByHang == Waits("call") \/ (handler.at \in {"destroy", "close"} /\ handler.client \in hung)

(***************************************************************************)
(* The Qt thread comes back from every request and from the shutdown, or   *)
(* waits for a signalling thread that hangs (pushclient.cpp:720, :723 or a *)
(* call on pc_): the capture thread it joins (pushclient.h:132) ends.      *)
(***************************************************************************)
OnlyHangHoldsHandler == ~Waits("idle") ~> (Waits("idle") \/ Waits("gone") \/ HeldByHang)
=============================================================================
