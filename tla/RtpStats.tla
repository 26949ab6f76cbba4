------------------------------ MODULE RtpStats ------------------------------
(***************************************************************************)
(* The RTP send diagnostics of WebRTCPushClient (module/pushclient.cpp):   *)
(* three threads share stats_polling_ and the thread handle stats_thread_. *)
(*   "signaling"  WebRTC's signaling thread: runs OnConnectionChange, which *)
(*                starts and stops the poller, and delivers reports;       *)
(*   the poller   asks for the connection state and for a report; both are *)
(*                calls on the PeerConnection proxy, which block until the *)
(*                signaling thread has served them;                        *)
(*   "owner"      the Qt thread, which may destroy the client: it joins    *)
(*                the poller, has the worker thread drop the PeerConnection *)
(*                and stops the threads.                                   *)
(* A report is reduced to the bytesSent of its best outbound video stream. *)
(***************************************************************************)
EXTENDS Naturals

CONSTANTS
    MaxBytes,    \* bound on the bytes the stream ever sends
    MaxReports   \* bound on the reports asked for and not delivered yet

ASSUME BoundsAreNat == MaxBytes \in Nat /\ MaxReports \in Nat

VARIABLES
    link,        \* PeerConnectionState: "down" is disconnected, failed or closed
    sent,        \* bytesSent of the stream, counted since the PeerConnection exists
    stats_polling,
    is_sending_rtp_video,
    last_video_bytes_sent,
    stats_thread,   \* the handle: null, a joinable thread, a joined one
    poller,      \* where the thread is; "none" when there is no thread
    ctl,         \* where the signaling thread and the owner are
    worker,      \* "waits" for the signaling thread to destroy the PeerConnection
    reports,     \* reports asked for and not delivered yet
    terminated,  \* std::terminate, a handle deleted twice, a call on no pc_
    overlap      \* history: destruction overlapped with a connection change

shared == <<stats_polling, stats_thread, poller, terminated>>
diagnosis == <<is_sending_rtp_video, last_video_bytes_sent>>
vars == <<link, sent, shared, diagnosis, ctl, worker, reports, overlap>>

Threads == {"signaling", "owner"}
PcExists == worker # "done"
SignalingFree == ctl["signaling"] = "idle" /\ ~terminated

Goto(t, label) == ctl' = [ctl EXCEPT ![t] = label]

Init ==
    /\ link = "connecting" /\ sent = 0
    /\ stats_polling = FALSE /\ stats_thread = "null" /\ poller = "none" /\ terminated = FALSE
    /\ is_sending_rtp_video = FALSE /\ last_video_bytes_sent = 0
    /\ ctl = [t \in Threads |-> "idle"]
    /\ worker = "idle" /\ reports = 0 /\ overlap = FALSE

-----------------------------------------------------------------------------
\* Mutant: a store for the exchange, so that a second start is not noticed.
OnConnected_AlwaysStarts ==
    /\ stats_polling' = TRUE
    /\ Goto("signaling", "reset")

\* StartRtpSendStatsPolling up to its exchange(true).
OnConnected ==
    /\ stats_polling' = TRUE
    /\ IF stats_polling THEN UNCHANGED ctl ELSE Goto("signaling", "reset")

\* Mutant: the flag is left up.
StopPolling_FlagLeft(t) ==
    /\ UNCHANGED stats_polling
    /\ Goto(t, "test")

\* StopRtpSendStatsPolling up to its store(false).
StopPolling(t) ==
    /\ stats_polling' = FALSE
    /\ Goto(t, "test")

\* The library reports a state change; which ones follow which is its own affair.
OnConnectionChange(new) ==
    /\ SignalingFree /\ PcExists /\ new # link
    /\ link' = new
    /\ overlap' = (overlap \/ ctl["owner"] # "idle")
    /\ \/ new = "connecting" /\ UNCHANGED <<stats_polling, ctl>>
       \/ new = "connected" /\ OnConnected
       \/ new = "down" /\ StopPolling("signaling")
    /\ UNCHANGED <<sent, stats_thread, poller, terminated, is_sending_rtp_video,
                   last_video_bytes_sent, worker, reports>>

StartReset ==
    /\ ctl["signaling"] = "reset" /\ ~terminated
    /\ is_sending_rtp_video' = FALSE
    /\ last_video_bytes_sent' = 0
    /\ Goto("signaling", "spawn")
    /\ UNCHANGED <<link, sent, shared, worker, reports, overlap>>

\* Assigning over a handle destroys it, which no joinable thread survives.
StartSpawn ==
    /\ ctl["signaling"] = "spawn" /\ ~terminated
    /\ terminated' = (stats_thread = "joinable")
    /\ stats_thread' = "joinable"
    /\ poller' = "check"
    /\ Goto("signaling", "idle")
    /\ UNCHANGED <<link, sent, stats_polling, diagnosis, worker, reports, overlap>>

\* Mutant: detach for join.
StopTest_Detaches(t) ==
    /\ ctl[t] = "test" /\ ~terminated
    /\ stats_thread' = IF stats_thread = "joinable" THEN "joined" ELSE stats_thread
    /\ Goto(t, "clear")
    /\ UNCHANGED <<link, sent, stats_polling, poller, terminated, diagnosis, worker, reports, overlap>>

\* A second join of the thread somebody is joining throws.
StopTest(t) ==
    /\ ctl[t] = "test" /\ ~terminated
    /\ Goto(t, IF stats_thread = "joinable" THEN "joining" ELSE "clear")
    /\ terminated' = (stats_thread = "joinable" /\ \E u \in Threads : ctl[u] = "joining")
    /\ UNCHANGED <<link, sent, stats_polling, stats_thread, poller, diagnosis, worker, reports, overlap>>

StopJoined(t) ==
    /\ ctl[t] = "joining" /\ poller = "exit" /\ ~terminated
    /\ stats_thread' = "joined"
    /\ poller' = "none"
    /\ Goto(t, "clear")
    /\ UNCHANGED <<link, sent, stats_polling, terminated, diagnosis, worker, reports, overlap>>

\* Two threads that reset the handle at the same time may both delete it.
StopClear(t) ==
    /\ ctl[t] = "clear" /\ ~terminated
    /\ \/ terminated' = (stats_thread = "joinable")
       \/ /\ stats_thread = "joined" /\ \A u \in Threads : ctl[u] = "clear"
          /\ terminated' = TRUE
    /\ stats_thread' = "null"
    /\ Goto(t, IF t = "owner" THEN "pc" ELSE "idle")
    /\ UNCHANGED <<link, sent, stats_polling, poller, diagnosis, worker, reports, overlap>>

\* ~WebRTCPushClient: stop; drop the PeerConnection; stop the threads and go.
Destroy ==
    /\ ctl["owner"] = "idle" /\ ~terminated
    /\ StopPolling("owner")
    /\ overlap' = (ctl["signaling"] # "idle")
    /\ UNCHANGED <<link, sent, stats_thread, poller, terminated, diagnosis, worker, reports>>

DropPc ==
    /\ ctl["owner"] = "pc" /\ worker = "idle" /\ ~terminated
    /\ worker' = "waits"
    /\ UNCHANGED <<link, sent, shared, diagnosis, ctl, reports, overlap>>

\* The worker, for which the owner waits, waits for the signaling thread, on
\* which the proxy has the PeerConnection destroyed.  What that destructor does
\* is the library's affair: it is done, or it needs the worker, which is waiting.
DestroyPc ==
    /\ worker = "waits" /\ SignalingFree
    /\ \/ worker' = "done" /\ reports' = 0 /\ UNCHANGED ctl
       \/ Goto("signaling", "worker") /\ UNCHANGED <<worker, reports>>
    /\ UNCHANGED <<link, sent, shared, diagnosis, overlap>>

\* The threads are stopped, which waits for what they are at; the members go.
Leave ==
    /\ ctl["owner"] = "pc" /\ worker = "done" /\ SignalingFree
    /\ Goto("owner", "gone")
    /\ terminated' = (stats_thread = "joinable")
    /\ UNCHANGED <<link, sent, stats_polling, stats_thread, poller, diagnosis, worker, reports, overlap>>

-----------------------------------------------------------------------------
\* The loop of the poller, the sleep included in "check".
PollerTest ==
    /\ poller = "check" /\ ~terminated
    /\ poller' = IF stats_polling THEN "state" ELSE "exit"
    /\ UNCHANGED <<link, sent, stats_polling, stats_thread, terminated, diagnosis, ctl, worker, reports, overlap>>

\* pc_->peer_connection_state(), served by the signaling thread, if there is a pc_.
PollState ==
    /\ poller = "state" /\ SignalingFree
    /\ \/ ~PcExists /\ poller' = "check"
       \/ PcExists /\ poller' = IF link = "connected" THEN "stats" ELSE "unsent"
    /\ UNCHANGED <<link, sent, stats_polling, stats_thread, terminated, diagnosis, ctl, worker, reports, overlap>>

PollUnsent ==
    /\ poller = "unsent" /\ ~terminated
    /\ is_sending_rtp_video' = FALSE
    /\ poller' = "check"
    /\ UNCHANGED <<link, sent, stats_polling, stats_thread, terminated, last_video_bytes_sent, ctl, worker, reports, overlap>>

\* pc_->GetStats(), served by the signaling thread; pc_ is not looked at again.
PollStats ==
    /\ poller = "stats" /\ SignalingFree /\ reports < MaxReports
    /\ reports' = reports + 1
    /\ poller' = "check"
    /\ terminated' = ~PcExists
    /\ UNCHANGED <<link, sent, stats_polling, stats_thread, diagnosis, ctl, worker, overlap>>

\* Mutant: bytes that have not grown count.
Sending_NotGrown(bytes, last) == bytes >= last

Sending(bytes, last) == bytes > last

OnStatsDelivered ==
    /\ SignalingFree /\ PcExists /\ reports > 0
    /\ reports' = reports - 1
    /\ \/ /\ sent = 0       \* no outbound video stream in the report
          /\ is_sending_rtp_video' = FALSE
          /\ UNCHANGED last_video_bytes_sent
       \/ /\ last_video_bytes_sent' = sent
          /\ is_sending_rtp_video' = Sending(sent, last_video_bytes_sent)
    /\ UNCHANGED <<link, sent, shared, ctl, worker, overlap>>

MediaFlows ==
    /\ link = "connected" /\ PcExists /\ ~terminated /\ sent < MaxBytes
    /\ sent' = sent + 1
    /\ UNCHANGED <<link, shared, diagnosis, ctl, worker, reports, overlap>>

-----------------------------------------------------------------------------
LinkState == {"connecting", "connected", "down"}

Poller == PollerTest \/ PollUnsent
StopStep(t) == StopTest(t) \/ StopJoined(t) \/ StopClear(t)

Next ==
    \/ \E new \in LinkState : OnConnectionChange(new)
    \/ StartReset \/ StartSpawn \/ OnStatsDelivered
    \/ \E t \in Threads : StopStep(t)
    \/ Destroy \/ DropPc \/ DestroyPc \/ Leave
    \/ Poller \/ PollState \/ PollStats
    \/ MediaFlows

(***************************************************************************)
(* A thread that can run does.  What is posted to the signaling thread is  *)
(* served in turn as long as that thread comes back to its queue, hence    *)
(* the strong fairness.  No network event and no destruction is promised.  *)
(***************************************************************************)
Proceeds(t) == WF_vars(StopStep(t))

Fairness ==
    /\ WF_vars(StartReset \/ StartSpawn)
    /\ \A t \in Threads : Proceeds(t)
    /\ WF_vars(DropPc \/ Leave)
    /\ WF_vars(Poller)
    /\ SF_vars(PollState) /\ SF_vars(PollStats)
    /\ SF_vars(OnStatsDelivered) /\ SF_vars(DestroyPc)

Spec == Init /\ [][Next]_vars
FairSpec == Spec /\ Fairness

-----------------------------------------------------------------------------
TypeOK ==
    /\ link \in LinkState
    /\ sent \in 0..MaxBytes
    /\ stats_polling \in BOOLEAN
    /\ is_sending_rtp_video \in BOOLEAN
    /\ last_video_bytes_sent \in 0..MaxBytes
    /\ stats_thread \in {"null", "joinable", "joined"}
    /\ poller \in {"none", "check", "state", "stats", "unsent", "exit"}
    /\ ctl \in [Threads -> {"idle", "reset", "spawn", "test", "joining", "clear", "worker", "pc", "gone"}]
    /\ ctl["signaling"] \notin {"pc", "gone"} /\ ctl["owner"] \notin {"reset", "spawn", "worker"}
    /\ worker \in {"idle", "waits", "done"}
    /\ reports \in 0..MaxReports
    /\ terminated \in BOOLEAN
    /\ overlap \in BOOLEAN

(***************************************************************************)
(* The handle and the thread never part: there is a running poller exactly *)
(* while the client holds a joinable handle to it, so that none is leaked  *)
(* and none is joined twice.                                               *)
(***************************************************************************)
HandleOwnsPoller == ~terminated => (stats_thread = "joinable" <=> poller # "none")

(***************************************************************************)
(* Between callbacks the poller runs exactly when the last verdict on the  *)
(* link says it should (OnConnectionChange, pushclient.cpp:1445).          *)
(***************************************************************************)
PollerTracksLink ==
    SignalingFree /\ ctl["owner"] = "idle" =>
        /\ link = "connected" => stats_polling /\ stats_thread = "joinable"
        /\ link = "down" => ~stats_polling /\ stats_thread = "null"

(***************************************************************************)
(* The start and stop of the poller bring the process down only when the   *)
(* handling of a link change overlaps with the destruction of the client:  *)
(* nothing else destroys a joinable handle, joins twice or deletes twice.  *)
(***************************************************************************)
TerminateNeedsOverlap == terminated => overlap

(***************************************************************************)
(* When the link goes down the poller is stopped and the signaling thread  *)
(* is free again (pushclient.cpp:1445).                                    *)
(***************************************************************************)
PollerStops ==
    (link = "down" /\ ctl["signaling"] = "test") ~> (ctl["signaling"] = "idle" \/ terminated)

(***************************************************************************)
(* A stall is noticed: on a link that stays up and with no more bytes sent *)
(* the verdict becomes and stays "not sending".  (MaxBytes ends the flow.) *)
(***************************************************************************)
StallNoticed ==
    <>[](link = "connected" /\ ctl["owner"] = "idle" /\ ~terminated)
        => <>[](~is_sending_rtp_video)

\* The signaling thread needs the worker, the worker waits for it, the owner for both.
Hung == ctl["signaling"] = "worker"

(***************************************************************************)
(* A destruction that starts on a free signaling thread, with no link      *)
(* change in between, hangs at most in the destructor of the PeerConnection *)
(* (pushclient.cpp:723): the poller it joins (:720) is served and goes.    *)
(***************************************************************************)
DestructionHangsOnlyInPc ==
    (ctl["owner"] = "test" /\ SignalingFree) ~> (ctl["owner"] = "gone" \/ Hung \/ overlap)
=============================================================================
