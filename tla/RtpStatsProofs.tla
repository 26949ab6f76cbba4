--------------------------- MODULE RtpStatsProofs ---------------------------
(***************************************************************************)
(* Proofs about RtpStats for any bounds.  Where each thread is determines, *)
(* as long as no connection change overlaps with the destruction, what the *)
(* flag and the handle are (Undisturbed); that is what makes the stated    *)
(* invariants inductive.                                                   *)
(***************************************************************************)
EXTENDS RtpStats, TLAPS

\* What the handle may be while thread t is at a step of a stop.
StopHandle(t) ==
    /\ ctl[t] = "test" => stats_thread \in {"null", "joinable"}
    /\ ctl[t] = "joining" => stats_thread = "joinable"
    /\ ctl[t] = "clear" => stats_thread \in {"null", "joined"}

\* The client is alive: the signaling thread's place and the link fix the rest.
LiveState ==
    LET at == ctl["signaling"] IN
    /\ at = "idle" => /\ stats_polling => stats_thread = "joinable" /\ link # "down"
                      /\ ~stats_polling => stats_thread = "null" /\ link # "connected"
    /\ at \in {"reset", "spawn"} => stats_polling /\ stats_thread = "null" /\ link = "connected"
    /\ at \in {"test", "joining", "clear"} => ~stats_polling /\ link = "down"
    /\ StopHandle("signaling")

\* The client is being destroyed and the signaling thread has nothing to handle,
\* or is in the destructor of the PeerConnection and waits for the worker.
DyingState ==
    /\ ctl["signaling"] \in {"idle", "worker"}
    /\ ~stats_polling
    /\ ctl["owner"] \in {"pc", "gone"} => stats_thread = "null"
    /\ StopHandle("owner")

Undisturbed ==
    /\ ~terminated
    /\ ctl["owner"] = "idle" => LiveState
    /\ ctl["owner"] # "idle" => DyingState

\* Where the worker is: it drops the PeerConnection when the owner has it do so.
WorkerServes ==
    /\ ctl["owner"] \notin {"pc", "gone"} => worker = "idle"
    /\ ctl["owner"] = "gone" => worker = "done"
    /\ Hung => worker = "waits"

IInv ==
    /\ TypeOK
    /\ WorkerServes
    /\ HandleOwnsPoller
    /\ ctl["owner"] = "idle" => ~overlap
    /\ ~overlap => Undisturbed

-----------------------------------------------------------------------------
LEMMA InitInv == Init => IInv
<1> SUFFICES ASSUME Init PROVE IInv
  OBVIOUS
<1>1. ctl["signaling"] = "idle" /\ ctl["owner"] = "idle"
  BY DEF Init, Threads
<1>2. TypeOK
  <2>1. sent \in 0..MaxBytes /\ last_video_bytes_sent \in 0..MaxBytes
        /\ reports \in 0..MaxReports
    BY BoundsAreNat DEF Init
  <2>2. /\ stats_polling \in BOOLEAN /\ is_sending_rtp_video \in BOOLEAN
        /\ terminated \in BOOLEAN /\ overlap \in BOOLEAN
    BY DEF Init
  <2>3. ctl \in [Threads -> {"idle", "reset", "spawn", "test", "joining", "clear", "worker", "pc", "gone"}]
    BY DEF Init
  <2> QED
    BY <1>1, <2>1, <2>2, <2>3 DEF Init, TypeOK, LinkState
<1>3. HandleOwnsPoller /\ Undisturbed
  BY <1>1 DEF Init, HandleOwnsPoller, Undisturbed, LiveState, StopHandle
<1>4. WorkerServes
  BY <1>1 DEF Init, WorkerServes, Hung
<1> QED
  BY <1>2, <1>3, <1>4 DEF Init, IInv

LEMMA TypeStep == TypeOK /\ [Next]_vars => TypeOK'
<1> SUFFICES ASSUME TypeOK, [Next]_vars PROVE TypeOK'
  OBVIOUS
<1> USE BoundsAreNat DEF TypeOK, Threads, Goto, shared, diagnosis
<1>1. ASSUME NEW new \in LinkState, OnConnectionChange(new) PROVE TypeOK'
  <2> link' \in LinkState /\ overlap' \in BOOLEAN
    BY <1>1 DEF OnConnectionChange
  <2>1. CASE new = "connecting"
    BY <1>1, <2>1 DEF OnConnectionChange
  <2>2. CASE new = "connected"
    BY <1>1, <2>2 DEF OnConnectionChange, OnConnected
  <2>3. CASE new = "down"
    BY <1>1, <2>3 DEF OnConnectionChange, StopPolling
  <2> QED
    BY <2>1, <2>2, <2>3 DEF LinkState
<1>2. CASE StartReset
  <2>1. last_video_bytes_sent' \in 0..MaxBytes
    BY <1>2 DEF StartReset
  <2>2. is_sending_rtp_video' \in BOOLEAN
    BY <1>2 DEF StartReset
  <2>3. ctl' = [ctl EXCEPT !["signaling"] = "spawn"] /\ UNCHANGED <<link, sent, shared, worker, reports, overlap>>
    BY <1>2 DEF StartReset
  <2> QED
    BY <2>1, <2>2, <2>3
<1>3. CASE StartSpawn
  BY <1>3 DEF StartSpawn
<1>4. CASE OnStatsDelivered
  <2>1. reports' \in 0..MaxReports /\ last_video_bytes_sent' \in 0..MaxBytes
    BY <1>4 DEF OnStatsDelivered
  <2>2. is_sending_rtp_video' \in BOOLEAN
    <3> DEFINE grown == Sending(sent, last_video_bytes_sent)
    <3>1. grown \in BOOLEAN
      BY DEF Sending
    <3>2. is_sending_rtp_video' = FALSE \/ is_sending_rtp_video' = grown
      BY <1>4 DEF OnStatsDelivered
    <3> HIDE DEF grown
    <3> QED
      BY <3>1, <3>2
  <2>3. UNCHANGED <<link, sent, shared, ctl, worker, overlap>>
    BY <1>4 DEF OnStatsDelivered
  <2> QED
    BY <2>1, <2>2, <2>3
<1>5. ASSUME NEW t \in Threads, StopStep(t) PROVE TypeOK'
  <2>1. CASE StopTest(t)
    BY <2>1 DEF StopTest
  <2>2. CASE StopJoined(t)
    BY <2>2 DEF StopJoined
  <2>3. CASE StopClear(t)
    BY <2>3 DEF StopClear
  <2> QED
    BY <1>5, <2>1, <2>2, <2>3 DEF StopStep
<1>6. CASE Destroy
  BY <1>6 DEF Destroy, StopPolling
<1>7. CASE DropPc
  BY <1>7 DEF DropPc
<1>7a. CASE DestroyPc
  <2>1. ctl' \in [Threads -> {"idle", "reset", "spawn", "test", "joining", "clear", "worker", "pc", "gone"}]
        /\ ctl'["signaling"] \notin {"pc", "gone"} /\ ctl'["owner"] \notin {"reset", "spawn", "worker"}
    BY <1>7a DEF DestroyPc
  <2>2. worker' \in {"idle", "waits", "done"} /\ reports' \in 0..MaxReports
    BY <1>7a DEF DestroyPc
  <2>3. UNCHANGED <<link, sent, shared, diagnosis, overlap>>
    BY <1>7a DEF DestroyPc
  <2> QED
    BY <2>1, <2>2, <2>3
<1>7b. CASE Leave
  BY <1>7b DEF Leave
<1>8. CASE Poller
  BY <1>8 DEF Poller, PollerTest, PollUnsent
<1>9. CASE PollState
  BY <1>9 DEF PollState
<1>10. CASE PollStats
  BY <1>10 DEF PollStats
<1>11. CASE MediaFlows
  BY <1>11 DEF MediaFlows
<1>12. CASE UNCHANGED vars
  BY <1>12 DEF vars
<1> QED
  BY <1>1, <1>2, <1>3, <1>4, <1>5, <1>6, <1>7, <1>8, <1>9, <1>10, <1>11, <1>12,
     <1>7a, <1>7b DEF Next

\* The handle and the thread are made together and given up together.
LEMMA HandleStep == TypeOK /\ HandleOwnsPoller /\ [Next]_vars => HandleOwnsPoller'
<1> SUFFICES ASSUME TypeOK, HandleOwnsPoller, [Next]_vars PROVE HandleOwnsPoller'
  OBVIOUS
<1> USE DEF HandleOwnsPoller, shared
<1>1. ASSUME NEW t \in Threads, StopStep(t) PROVE HandleOwnsPoller'
  <2>1. CASE StopTest(t)
    BY <2>1 DEF StopTest
  <2>2. CASE StopJoined(t)
    BY <2>2 DEF StopJoined
  <2>3. CASE StopClear(t)
    <3>1. terminated' = FALSE => stats_thread # "joinable"
      BY <2>3 DEF StopClear
    <3>2. terminated' \in BOOLEAN
      BY <2>3 DEF StopClear
    <3> QED
      BY <2>3, <3>1, <3>2 DEF StopClear
  <2> QED
    BY <1>1, <2>1, <2>2, <2>3 DEF StopStep
<1>2. CASE StartSpawn
  BY <1>2 DEF StartSpawn
<1>3. CASE DropPc \/ DestroyPc \/ Leave
  BY <1>3 DEF DropPc, DestroyPc, Leave, SignalingFree
<1>4. CASE Poller
  BY <1>4 DEF Poller, PollerTest, PollUnsent
<1>5. CASE PollState \/ PollStats
  BY <1>5 DEF PollState, PollStats, SignalingFree
<1>6. ASSUME UNCHANGED <<stats_thread, poller, terminated>> PROVE HandleOwnsPoller'
  BY <1>6
<1> QED
  BY <1>1, <1>2, <1>3, <1>4, <1>5, <1>6
     DEF Next, vars, OnConnectionChange, StartReset, OnStatsDelivered, Destroy, MediaFlows

LEMMA WorkerStep == TypeOK /\ WorkerServes /\ [Next]_vars => WorkerServes'
<1> SUFFICES ASSUME TypeOK, WorkerServes, [Next]_vars PROVE WorkerServes'
  OBVIOUS
<1> USE DEF WorkerServes, Hung, TypeOK, Threads, Goto
<1>1. ASSUME NEW new \in LinkState, OnConnectionChange(new) PROVE WorkerServes'
  BY <1>1 DEF OnConnectionChange, OnConnected, StopPolling, SignalingFree
<1>2. CASE StartReset \/ StartSpawn
  BY <1>2 DEF StartReset, StartSpawn
<1>3. ASSUME NEW t \in Threads, StopStep(t) PROVE WorkerServes'
  BY <1>3 DEF StopStep, StopTest, StopJoined, StopClear
<1>4. CASE Destroy
  BY <1>4 DEF Destroy, StopPolling
<1>5. CASE DropPc \/ DestroyPc \/ Leave
  BY <1>5 DEF DropPc, DestroyPc, Leave, SignalingFree
<1>6. CASE UNCHANGED <<ctl, worker>>
  BY <1>6
<1> QED
  BY <1>1, <1>2, <1>3, <1>4, <1>5, <1>6
     DEF Next, vars, Poller, PollerTest, PollUnsent, PollState, PollStats, OnStatsDelivered, MediaFlows

\* No step that keeps the history variable down leaves the undisturbed states.
LEMMA UndisturbedStep ==
    ASSUME IInv, [Next]_vars, TypeOK'
    PROVE  (ctl["owner"] = "idle" => ~overlap)' /\ (~overlap => Undisturbed)'
<1> USE DEF IInv, TypeOK, Threads, Goto, shared
<1>1. ASSUME NEW new \in LinkState, OnConnectionChange(new)
      PROVE  (ctl["owner"] = "idle" => ~overlap)' /\ (~overlap => Undisturbed)'
  <2>1. ctl'["owner"] = ctl["owner"] /\ (ctl["owner"] # "idle" => overlap')
        /\ (ctl["owner"] = "idle" => overlap' = overlap)
    BY <1>1 DEF OnConnectionChange, OnConnected, StopPolling
  <2>2. ASSUME ctl["owner"] = "idle" PROVE Undisturbed'
    <3>1. ~terminated' /\ LiveState /\ ctl["signaling"] = "idle"
      BY <1>1, <2>2 DEF OnConnectionChange, SignalingFree, Undisturbed
    <3>2. CASE new = "connecting"
      BY <1>1, <2>1, <2>2, <3>1, <3>2 DEF OnConnectionChange, Undisturbed, LiveState, StopHandle
    <3>3. CASE new = "connected"
      BY <1>1, <2>1, <2>2, <3>1, <3>3
         DEF OnConnectionChange, OnConnected, Undisturbed, LiveState, StopHandle
    <3>4. CASE new = "down"
      BY <1>1, <2>1, <2>2, <3>1, <3>4
         DEF OnConnectionChange, StopPolling, Undisturbed, LiveState, StopHandle
    <3> QED
      BY <3>2, <3>3, <3>4 DEF LinkState
  <2> QED
    BY <2>1, <2>2
<1>2. CASE StartReset
  BY <1>2 DEF StartReset, Undisturbed, LiveState, DyingState, StopHandle
<1>3. CASE StartSpawn
  BY <1>3 DEF StartSpawn, Undisturbed, LiveState, DyingState, StopHandle
<1>4. ASSUME NEW t \in Threads, StopTest(t)
      PROVE  (ctl["owner"] = "idle" => ~overlap)' /\ (~overlap => Undisturbed)'
  BY <1>4 DEF StopTest, Undisturbed, LiveState, DyingState, StopHandle
<1>5. ASSUME NEW t \in Threads, StopJoined(t)
      PROVE  (ctl["owner"] = "idle" => ~overlap)' /\ (~overlap => Undisturbed)'
  BY <1>5 DEF StopJoined, Undisturbed, LiveState, DyingState, StopHandle
<1>6. ASSUME NEW t \in Threads, StopClear(t)
      PROVE  (ctl["owner"] = "idle" => ~overlap)' /\ (~overlap => Undisturbed)'
  BY <1>6 DEF StopClear, Undisturbed, LiveState, DyingState, StopHandle
<1>7. CASE Destroy
  BY <1>7 DEF Destroy, StopPolling, Undisturbed, LiveState, DyingState, StopHandle
<1>8. CASE DropPc \/ DestroyPc \/ Leave
  <2>1. ctl["owner"] \in {"pc", "gone"}
    BY <1>8 DEF DropPc, DestroyPc, Leave, WorkerServes
  <2> QED
    BY <1>8, <2>1 DEF DropPc, DestroyPc, Leave, SignalingFree, Undisturbed, DyingState, StopHandle
<1>9. ASSUME UNCHANGED <<link, stats_polling, stats_thread, terminated, ctl, overlap>>
      PROVE  (ctl["owner"] = "idle" => ~overlap)' /\ (~overlap => Undisturbed)'
  BY <1>9 DEF Undisturbed, LiveState, DyingState, StopHandle
<1>10. CASE PollStats
  <2>1. SignalingFree /\ poller = "stats" /\ (terminated' = ~PcExists)
        /\ UNCHANGED <<link, stats_polling, stats_thread, ctl, overlap>>
    BY <1>10 DEF PollStats
  <2>2. ~overlap => PcExists
    BY <2>1 DEF Undisturbed, DyingState, WorkerServes, PcExists, HandleOwnsPoller, SignalingFree
  <2> QED
    BY <2>1, <2>2 DEF Undisturbed, LiveState, DyingState, StopHandle
<1> QED
  BY <1>1, <1>2, <1>3, <1>4, <1>5, <1>6, <1>7, <1>8, <1>9, <1>10
     DEF Next, vars, StopStep, Poller, PollerTest, PollUnsent, PollState, OnStatsDelivered, MediaFlows

LEMMA NextInv == IInv /\ [Next]_vars => IInv'
<1> SUFFICES ASSUME IInv, [Next]_vars PROVE IInv'
  OBVIOUS
<1>1. TypeOK'
  BY TypeStep DEF IInv
<1>2. HandleOwnsPoller'
  BY HandleStep DEF IInv
<1>3. WorkerServes'
  BY WorkerStep DEF IInv
<1> QED
  BY <1>1, <1>2, <1>3, UndisturbedStep DEF IInv

(***************************************************************************)
(* The shared state of the three threads keeps its types.                  *)
(***************************************************************************)
THEOREM TypeCorrect == Spec => []TypeOK
<1>1. IInv => TypeOK
  BY DEF IInv
<1> QED
  BY <1>1, InitInv, NextInv, PTL DEF Spec

\* The inductive invariant holds of every behaviour.
THEOREM Invariance == Spec => []IInv
BY InitInv, NextInv, PTL DEF Spec

(***************************************************************************)
(* However the threads interleave, a poller runs exactly while the client  *)
(* holds a joinable handle to it.                                          *)
(***************************************************************************)
THEOREM PollerOwned == Spec => []HandleOwnsPoller
<1>1. IInv => HandleOwnsPoller
  BY DEF IInv
<1> QED
  BY <1>1, Invariance, PTL

(***************************************************************************)
(* Between callbacks the poller of a live client follows the link.         *)
(***************************************************************************)
THEOREM PollerFollowsLink == Spec => []PollerTracksLink
<1>1. IInv => PollerTracksLink
  BY DEF IInv, Undisturbed, LiveState, PollerTracksLink, SignalingFree
<1> QED
  BY <1>1, Invariance, PTL

(***************************************************************************)
(* The process goes down in this code only if the handling of a connection *)
(* change overlaps with the destruction of the client.                     *)
(***************************************************************************)
THEOREM OnlyOverlapTerminates == Spec => []TerminateNeedsOverlap
<1>1. IInv => TerminateNeedsOverlap
  BY DEF IInv, Undisturbed, TerminateNeedsOverlap
<1> QED
  BY <1>1, Invariance, PTL

(***************************************************************************)
(* Once the destructor of the PeerConnection has come back to the worker   *)
(* that waits for it, the owner never gets past the drop of pc_            *)
(* (pushclient.cpp:723): nothing the other threads do ends that wait.      *)
(***************************************************************************)
THEOREM HangIsForEver == Spec => [](Hung => [](ctl["owner"] = "pc"))
<1> DEFINE Stuck == Hung /\ ctl["owner"] = "pc"
<1>1. IInv /\ Hung => Stuck
  BY DEF IInv, TypeOK, Threads, WorkerServes
<1>2. Stuck /\ IInv /\ [Next]_vars => Stuck'
  <2> SUFFICES ASSUME Stuck, IInv, [Next]_vars PROVE UNCHANGED ctl
    BY DEF Hung
  <2> USE DEF Hung
  <2>1. ~SignalingFree /\ worker = "waits"
    BY DEF SignalingFree, IInv, WorkerServes
  <2>2. ASSUME NEW t \in Threads PROVE ~StopStep(t)
    BY DEF Threads, StopStep, StopTest, StopJoined, StopClear
  <2>3. ~StartReset /\ ~StartSpawn /\ ~Destroy /\ ~DestroyPc /\ ~Leave
    BY <2>1 DEF StartReset, StartSpawn, Destroy, DestroyPc, Leave
  <2>4. ASSUME NEW new \in LinkState PROVE ~OnConnectionChange(new)
    BY <2>1 DEF OnConnectionChange
  <2>5. ASSUME \/ DropPc \/ Poller \/ PollState \/ PollStats
               \/ OnStatsDelivered \/ MediaFlows \/ UNCHANGED vars
        PROVE  UNCHANGED ctl
    BY <2>5 DEF DropPc, Poller, PollerTest, PollUnsent, PollState, PollStats, OnStatsDelivered, MediaFlows, vars
  <2> QED
    BY <2>2, <2>3, <2>4, <2>5 DEF Next
<1> QED
  BY <1>1, <1>2, Invariance, PTL DEF Spec

-----------------------------------------------------------------------------
(***************************************************************************)
(* Liveness.  The provers know nothing of ENABLED: that a thread which is  *)
(* at a step, with the guard of the step true, can take it is a hypothesis *)
(* of the theorems, one conjunct for each fair action they use.            *)
(***************************************************************************)
ThreadsRun ==
    /\ ~terminated /\ ctl["signaling"] \in {"reset", "spawn"} => ENABLED <<StartReset \/ StartSpawn>>_vars
    /\ /\ ~terminated
       /\ \/ ctl["owner"] \in {"test", "clear"}
          \/ ctl["owner"] = "joining" /\ poller = "exit"
       => ENABLED <<StopStep("owner")>>_vars
    /\ ~terminated /\ poller \in {"check", "unsent"} => ENABLED <<Poller>>_vars
    /\ SignalingFree /\ poller = "state" => ENABLED <<PollState>>_vars
    /\ SignalingFree /\ poller = "stats" /\ reports < MaxReports => ENABLED <<PollStats>>_vars
    /\ SignalingFree /\ PcExists /\ reports > 0 => ENABLED <<OnStatsDelivered>>_vars
    /\ /\ ~terminated /\ ctl["owner"] = "pc"
       /\ \/ worker = "idle"
          \/ worker = "done" /\ SignalingFree
       => ENABLED <<DropPc \/ Leave>>_vars
    /\ SignalingFree /\ worker = "waits" => ENABLED <<DestroyPc>>_vars

\* The owner is at a step of an undisturbed destruction; while it joins, the
\* poller is at p; while the PeerConnection is dropped, the worker is at w.
Dying(at) == ~overlap /\ ~Hung /\ ctl["owner"] = at
JoinsAt(p) == Dying("joining") /\ poller = p
DropsAt(w) == Dying("pc") /\ worker = w
Ended == ctl["owner"] = "gone" \/ Hung \/ overlap

\* Where that leaves the signaling thread, the flag and the poller.
LEMMA DyingIsFree ==
    ASSUME IInv, ~overlap, ~Hung, ctl["owner"] # "idle"
    PROVE  /\ SignalingFree /\ ~terminated /\ ~stats_polling
           /\ ctl["owner"] = "joining" => poller # "none"
<1>1. ~terminated /\ DyingState
  BY DEF IInv, Undisturbed
<1>2. ctl["owner"] = "joining" => stats_thread = "joinable"
  BY <1>1 DEF DyingState, StopHandle
<1> QED
  BY <1>1, <1>2 DEF DyingState, Hung, SignalingFree, IInv, HandleOwnsPoller

\* The steps that are left to the threads then.
LEMMA DyingSteps ==
    ASSUME IInv, [Next]_vars, ~overlap, ~Hung, ctl["owner"] # "idle"
    PROVE  \/ overlap'
           \/ ~overlap' /\ ~Hung' /\ UNCHANGED worker /\ StopStep("owner")
           \/ ~overlap' /\ (DropPc \/ DestroyPc \/ Leave)
           \/ /\ ~overlap' /\ ~Hung' /\ UNCHANGED <<ctl, worker>>
              /\ Poller \/ PollState \/ PollStats \/ OnStatsDelivered \/ UNCHANGED <<poller, reports>>
<1>1. ctl["signaling"] = "idle"
  BY DyingIsFree DEF SignalingFree
<1>2. ~StartReset /\ ~StartSpawn /\ ~StopStep("signaling")
  BY <1>1 DEF StartReset, StartSpawn, StopStep, StopTest, StopJoined, StopClear
<1>3. ASSUME NEW new \in LinkState, OnConnectionChange(new) PROVE overlap'
  BY <1>3 DEF OnConnectionChange
<1>4. ~Destroy
  BY DEF Destroy
<1>5. StopStep("owner") => ~overlap' /\ ~Hung' /\ UNCHANGED worker
  BY DEF StopStep, StopTest, StopJoined, StopClear, Goto, Hung, IInv, TypeOK, Threads
<1>6. DropPc \/ DestroyPc \/ Leave => ~overlap'
  BY DEF DropPc, DestroyPc, Leave
<1>7. Poller \/ PollState \/ PollStats \/ OnStatsDelivered => ~overlap' /\ ~Hung' /\ UNCHANGED <<ctl, worker>>
  BY DEF Poller, PollerTest, PollUnsent, PollState, PollStats, OnStatsDelivered, Hung
<1>8. MediaFlows \/ UNCHANGED vars =>
         ~overlap' /\ ~Hung' /\ UNCHANGED <<ctl, worker>> /\ UNCHANGED <<poller, reports>>
  BY DEF MediaFlows, vars, shared, Hung
<1> QED
  BY <1>2, <1>3, <1>4, <1>5, <1>6, <1>7, <1>8 DEF Next, Threads

LEMMA OwnerProceeds ==
    IInv /\ [Next]_vars =>
           /\ Dying("test") => Dying("test")' \/ Dying("joining")' \/ Dying("clear")' \/ Ended'
           /\ Dying("test") /\ StopStep("owner") => Dying("joining")' \/ Dying("clear")' \/ Ended'
           /\ JoinsAt("exit") => JoinsAt("exit")' \/ Dying("clear")' \/ Ended'
           /\ JoinsAt("exit") /\ StopStep("owner") => Dying("clear")' \/ Ended'
           /\ Dying("clear") => Dying("clear")' \/ Dying("pc")' \/ Ended'
           /\ Dying("clear") /\ StopStep("owner") => Dying("pc")' \/ Ended'
<1> HAVE IInv /\ [Next]_vars
<1> USE DEF Dying, JoinsAt, Ended
<1>0. ctl \in [Threads -> {"idle", "reset", "spawn", "test", "joining", "clear", "worker", "pc", "gone"}]
      /\ "owner" \in Threads
  BY DEF IInv, TypeOK, Threads
<1>1. StopTest("owner") => ctl["owner"] = "test" /\ ctl'["owner"] \in {"joining", "clear"}
  BY <1>0 DEF StopTest, Goto
<1>2. StopJoined("owner") => ctl["owner"] = "joining" /\ ctl'["owner"] = "clear"
  BY <1>0 DEF StopJoined, Goto
<1>3. StopClear("owner") => ctl["owner"] = "clear" /\ ctl'["owner"] = "pc"
  BY <1>0 DEF StopClear, Goto
<1>4. ctl["owner"] \notin {"pc", "gone"} => ~DropPc /\ ~DestroyPc /\ ~Leave
  BY DEF DropPc, DestroyPc, Leave, IInv, WorkerServes
<1>5. Poller \/ PollState \/ PollStats => poller # "exit"
  BY DEF Poller, PollerTest, PollUnsent, PollState, PollStats
<1>6. OnStatsDelivered => UNCHANGED poller
  BY DEF OnStatsDelivered, shared
<1> QED
  BY <1>1, <1>2, <1>3, <1>4, <1>5, <1>6, DyingSteps DEF StopStep

\* The worker drops the PeerConnection, if its destructor asks nothing of the
\* worker, and the owner leaves.
LEMMA WorkerProceeds ==
    IInv /\ [Next]_vars =>
           /\ DropsAt("idle") => DropsAt("idle")' \/ DropsAt("waits")' \/ Ended'
           /\ DropsAt("idle") /\ (DropPc \/ Leave) => DropsAt("waits")' \/ Ended'
           /\ DropsAt("waits") => DropsAt("waits")' \/ DropsAt("done")' \/ Ended'
           /\ DropsAt("waits") /\ DestroyPc => DropsAt("done")' \/ Ended'
           /\ DropsAt("done") => DropsAt("done")' \/ Ended'
           /\ DropsAt("done") /\ (DropPc \/ Leave) => Ended'
<1> HAVE IInv /\ [Next]_vars
<1> USE DEF Dying, DropsAt, Ended
<1>1. DropPc => worker = "idle" /\ worker' = "waits" /\ UNCHANGED <<ctl, overlap>>
  BY DEF DropPc
<1>2. DestroyPc => worker = "waits" /\ (Hung' \/ (worker' = "done" /\ UNCHANGED <<ctl, overlap>>))
  BY DEF DestroyPc, Goto, Hung, IInv, TypeOK, Threads
<1>3. Leave => worker = "done" /\ ctl'["owner"] = "gone"
  BY DEF Leave, Goto, IInv, TypeOK, Threads
<1>4. ctl["owner"] = "pc" => ~StopStep("owner")
  BY DEF StopStep, StopTest, StopJoined, StopClear
<1> QED
  BY <1>1, <1>2, <1>3, <1>4, DyingSteps DEF Hung

\* The poller that is joined finds the flag down at its next test.
LEMMA PollerProceeds ==
    IInv /\ [Next]_vars =>
           /\ JoinsAt("check") => JoinsAt("check")' \/ JoinsAt("exit")' \/ Ended'
           /\ JoinsAt("check") /\ Poller => JoinsAt("exit")' \/ Ended'
           /\ JoinsAt("unsent") => JoinsAt("unsent")' \/ JoinsAt("check")' \/ Ended'
           /\ JoinsAt("unsent") /\ Poller => JoinsAt("check")' \/ Ended'
           /\ JoinsAt("state") => JoinsAt("state")' \/ JoinsAt("unsent")' \/ JoinsAt("stats")' \/ Ended'
           /\ JoinsAt("state") /\ PollState => JoinsAt("unsent")' \/ JoinsAt("stats")' \/ Ended'
           /\ JoinsAt("stats") => JoinsAt("stats")' \/ JoinsAt("check")' \/ Ended'
           /\ JoinsAt("stats") /\ PollStats => JoinsAt("check")' \/ Ended'
<1> HAVE IInv /\ [Next]_vars
<1> USE DEF JoinsAt, Dying, Ended
<1>1. ~overlap /\ ~Hung /\ ctl["owner"] = "joining" => ~stats_polling /\ PcExists
  BY DyingIsFree DEF IInv, WorkerServes, PcExists
<1>2. PollerTest => poller = "check" /\ (~stats_polling => poller' = "exit") /\ UNCHANGED <<ctl, overlap>>
  BY DEF PollerTest
<1>3. PollUnsent => poller = "unsent" /\ poller' = "check" /\ UNCHANGED <<ctl, overlap>>
  BY DEF PollUnsent
<1>4. PollState => poller = "state" /\ (PcExists => poller' \in {"stats", "unsent"}) /\ UNCHANGED <<ctl, overlap>>
  BY DEF PollState
<1>5. PollStats => poller = "stats" /\ poller' = "check" /\ UNCHANGED <<ctl, overlap>>
  BY DEF PollStats
<1>6. OnStatsDelivered => UNCHANGED poller
  BY DEF OnStatsDelivered, shared
<1>7. StopStep("owner") /\ ctl["owner"] = "joining" => poller = "exit"
  BY DEF StopStep, StopTest, StopJoined, StopClear
<1>8. ctl["owner"] = "joining" => ~DropPc /\ ~DestroyPc /\ ~Leave
  BY DEF DropPc, DestroyPc, Leave, IInv, WorkerServes
<1> QED
  BY <1>1, <1>2, <1>3, <1>4, <1>5, <1>6, <1>7, <1>8, DyingSteps DEF Poller

\* It waits for room for its request only until a report is delivered.
Room == reports < MaxReports

LEMMA RoomComes ==
    IInv /\ [Next]_vars /\ JoinsAt("stats") =>
           /\ Room => JoinsAt("check")' \/ Room' \/ Ended'
           /\ OnStatsDelivered => Room'
<1> HAVE IInv /\ [Next]_vars /\ JoinsAt("stats")
<1> USE DEF JoinsAt, Dying, Room
<1>1. reports \in 0..MaxReports /\ MaxReports \in Nat
  BY BoundsAreNat DEF IInv, TypeOK
<1>2. OnStatsDelivered => Room'
  BY <1>1 DEF OnStatsDelivered
<1>3. PollStats => JoinsAt("check")' \/ Ended'
  BY DEF PollStats, Ended
<1>4. Poller \/ PollState => poller \in {"check", "unsent", "state"}
  BY DEF Poller, PollerTest, PollUnsent, PollState
<1>5. ~DropPc /\ ~DestroyPc /\ ~Leave /\ ~StopStep("owner")
  BY DEF DropPc, DestroyPc, Leave, IInv, WorkerServes, StopStep, StopTest, StopJoined, StopClear
<1> QED
  BY <1>2, <1>3, <1>4, <1>5, DyingSteps DEF Ended

(***************************************************************************)
(* A destruction that starts on a free signaling thread, with no link      *)
(* change in between, ends or hangs in the destructor of the PeerConnection *)
(* and nowhere else: the poller that it joins is served and goes.          *)
(* MaxReports > 0 lets the poller's request be made at all.                *)
(***************************************************************************)
THEOREM DestructionsHangOnlyInPc ==
    ASSUME MaxReports > 0
    PROVE  FairSpec /\ []ThreadsRun => DestructionHangsOnlyInPc
<1> DEFINE Fair == FairSpec /\ []ThreadsRun
<1>1. ThreadsRun /\ IInv =>
         /\ Dying("test") \/ JoinsAt("exit") \/ Dying("clear") => ENABLED <<StopStep("owner")>>_vars
         /\ DropsAt("idle") \/ DropsAt("done") => ENABLED <<DropPc \/ Leave>>_vars
         /\ DropsAt("waits") => ENABLED <<DestroyPc>>_vars
         /\ JoinsAt("check") \/ JoinsAt("unsent") => ENABLED <<Poller>>_vars
         /\ JoinsAt("state") => ENABLED <<PollState>>_vars
         /\ JoinsAt("stats") /\ Room => ENABLED <<PollStats>>_vars
         /\ JoinsAt("stats") /\ ~Room => ENABLED <<OnStatsDelivered>>_vars
  <2> SUFFICES ASSUME ThreadsRun, IInv, ~overlap, ~Hung, ctl["owner"] \in {"test", "joining", "clear", "pc"}
               PROVE  /\ Dying("test") \/ JoinsAt("exit") \/ Dying("clear") => ENABLED <<StopStep("owner")>>_vars
                      /\ DropsAt("idle") \/ DropsAt("done") => ENABLED <<DropPc \/ Leave>>_vars
                      /\ DropsAt("waits") => ENABLED <<DestroyPc>>_vars
                      /\ JoinsAt("check") \/ JoinsAt("unsent") => ENABLED <<Poller>>_vars
                      /\ JoinsAt("state") => ENABLED <<PollState>>_vars
                      /\ JoinsAt("stats") /\ Room => ENABLED <<PollStats>>_vars
                      /\ JoinsAt("stats") /\ ~Room => ENABLED <<OnStatsDelivered>>_vars
    BY DEF Dying, JoinsAt, DropsAt
  <2>1. SignalingFree /\ ~terminated /\ (ctl["owner"] = "joining" => PcExists)
    BY DyingIsFree DEF PcExists, IInv, WorkerServes
  <2>2. ~Room => reports > 0
    BY BoundsAreNat DEF Room, IInv, TypeOK
  <2> QED
    BY <2>1, <2>2 DEF ThreadsRun, Dying, JoinsAt, DropsAt, Room
<1>2. Fairness => Proceeds("owner")
  <2>1. "owner" \in Threads
    BY DEF Threads
  <2>2. Fairness => \A t \in Threads : Proceeds(t)
    BY PTL DEF Fairness
  <2>3. (\A t \in Threads : Proceeds(t)) => Proceeds("owner")
    BY <2>1, Zenon
  <2> QED
    BY <2>2, <2>3, PTL
<1>3. Fair => /\ Dying("test") ~> Dying("joining") \/ Dying("clear") \/ Ended
              /\ JoinsAt("exit") ~> Dying("clear") \/ Ended
              /\ Dying("clear") ~> Dying("pc") \/ Ended
  BY <1>1, <1>2, OwnerProceeds, Invariance, PTL DEF FairSpec, Spec, Fairness, Proceeds
<1>4. Fair => /\ JoinsAt("check") ~> JoinsAt("exit") \/ Ended
              /\ JoinsAt("unsent") ~> JoinsAt("check") \/ Ended
              /\ JoinsAt("state") ~> JoinsAt("unsent") \/ JoinsAt("stats") \/ Ended
  BY <1>1, PollerProceeds, Invariance, PTL DEF FairSpec, Spec, Fairness
<1>5. Fair => /\ JoinsAt("stats") /\ ~Room ~> (JoinsAt("stats") /\ Room) \/ JoinsAt("check") \/ Ended
              /\ JoinsAt("stats") /\ Room ~> JoinsAt("check") \/ Ended
  BY <1>1, PollerProceeds, RoomComes, Invariance, PTL DEF FairSpec, Spec, Fairness
<1>6. IInv /\ Dying("joining") => \/ JoinsAt("check") \/ JoinsAt("unsent") \/ JoinsAt("state")
                                 \/ JoinsAt("stats") \/ JoinsAt("exit")
  <2>1. IInv /\ Dying("joining") => poller # "none"
    BY DyingIsFree DEF Dying
  <2>2. IInv => poller \in {"none", "check", "state", "stats", "unsent", "exit"}
    BY DEF IInv, TypeOK
  <2> QED
    BY <2>1, <2>2 DEF JoinsAt
<1>7. Fair => /\ DropsAt("idle") ~> DropsAt("waits") \/ Ended
              /\ DropsAt("waits") ~> DropsAt("done") \/ Ended
              /\ DropsAt("done") ~> Ended
  BY <1>1, WorkerProceeds, Invariance, PTL DEF FairSpec, Spec, Fairness
<1>8. IInv /\ Dying("pc") => DropsAt("idle") \/ DropsAt("waits") \/ DropsAt("done")
  BY DEF IInv, TypeOK, DropsAt
<1>9. Fair => (Dying("test") ~> Ended)
  BY <1>3, <1>4, <1>5, <1>6, <1>7, <1>8, Invariance, PTL DEF FairSpec
<1>10. ctl["owner"] = "test" /\ SignalingFree => Dying("test") \/ Ended
  BY DEF Dying, Ended
<1> QED
  BY <1>9, <1>10, PTL DEF DestructionHangsOnlyInPc, Ended

-----------------------------------------------------------------------------
(* A link that stays up and has come to rest at b bytes.                    *)

Still(b) == link = "connected" /\ ctl["owner"] = "idle" /\ ~terminated /\ sent = b
StillAt(b, at) == Still(b) /\ ctl["signaling"] = at

\* The poller is at p, and no report is under way; one is; the last one had
\* b bytes; and the verdict was that this is no progress.
PollsAt(b, p) == StillAt(b, "idle") /\ poller = p /\ reports = 0
Reported(b) == StillAt(b, "idle") /\ reports > 0
Counted(b) == StillAt(b, "idle") /\ (last_video_bytes_sent = b \/ b = 0)
Silent(b) == Counted(b) /\ is_sending_rtp_video = FALSE

\* A poller that has left its loop was told to.
ExitIsAsked == ~overlap /\ poller = "exit" => ~stats_polling

LEMMA ExitStep == IInv /\ ExitIsAsked /\ [Next]_vars => ExitIsAsked'
<1> HAVE IInv /\ ExitIsAsked /\ [Next]_vars
<1> USE DEF ExitIsAsked, shared
<1>1. ASSUME NEW new \in LinkState, OnConnectionChange(new) PROVE ExitIsAsked'
  <2> SUFFICES ASSUME ~overlap', poller' = "exit" PROVE ~stats_polling'
    OBVIOUS
  <2>1. ctl["owner"] = "idle" /\ ~overlap /\ poller = "exit" /\ SignalingFree
    BY <1>1 DEF OnConnectionChange
  <2>2. ~stats_polling
    BY <2>1
  <2>3. LiveState /\ ctl["signaling"] = "idle"
    BY <2>1 DEF IInv, Undisturbed, SignalingFree
  <2>4. stats_thread = "null"
    BY <2>2, <2>3 DEF LiveState
  <2> QED
    BY <2>1, <2>4 DEF IInv, HandleOwnsPoller, SignalingFree
<1>2. CASE StartSpawn
  BY <1>2 DEF StartSpawn
<1>3. ASSUME NEW t \in Threads, StopStep(t) PROVE ExitIsAsked'
  BY <1>3 DEF StopStep, StopTest, StopJoined, StopClear
<1>4. CASE Destroy
  BY <1>4 DEF Destroy, StopPolling
<1>5. CASE Poller
  BY <1>5 DEF Poller, PollerTest, PollUnsent
<1>6. CASE PollState \/ PollStats
  BY <1>6 DEF PollState, PollStats
<1>7. CASE UNCHANGED <<poller, stats_polling, overlap>>
  BY <1>7
<1> QED
  BY <1>1, <1>2, <1>3, <1>4, <1>5, <1>6, <1>7
     DEF Next, vars, StartReset, OnStatsDelivered, DropPc, DestroyPc, Leave, MediaFlows

LEMMA ExitAsked == Spec => []ExitIsAsked
<1>1. Init => ExitIsAsked
  BY DEF Init, ExitIsAsked
<1> QED
  BY <1>1, ExitStep, Invariance, PTL DEF Spec

\* On such a link nothing is being stopped, and the poller is in its loop.
LEMMA StillPlaces ==
    ASSUME IInv, ExitIsAsked, NEW b, Still(b)
    PROVE  /\ ctl["signaling"] \in {"idle", "reset", "spawn"}
           /\ ctl["signaling"] = "idle" => stats_polling /\ poller \in {"check", "state", "stats", "unsent"}
<1>1. ~overlap /\ ~terminated /\ LiveState
  BY DEF IInv, Undisturbed, Still
<1>2. ctl["signaling"] \in {"idle", "reset", "spawn"}
  <2>1. ctl["signaling"] \in {"idle", "reset", "spawn", "test", "joining", "clear", "worker", "pc", "gone"}
    BY DEF IInv, TypeOK, Threads
  <2> QED
    BY <1>1, <2>1 DEF LiveState, Still, IInv, TypeOK, WorkerServes, Hung
<1>3. ASSUME ctl["signaling"] = "idle" PROVE stats_polling /\ stats_thread = "joinable"
  BY <1>1, <1>3 DEF LiveState, Still
<1> QED
  BY <1>1, <1>2, <1>3 DEF IInv, TypeOK, HandleOwnsPoller, ExitIsAsked

LEMMA StillSteps ==
    ASSUME IInv, ExitIsAsked, [Next]_vars, NEW b, Still(b), Still(b)'
    PROVE  \/ StartReset \/ StartSpawn \/ OnStatsDelivered \/ Poller \/ PollState \/ PollStats
           \/ UNCHANGED vars
<1>1. ctl["signaling"] \in {"idle", "reset", "spawn"} /\ ctl["owner"] = "idle"
  BY StillPlaces DEF Still
<1>2. ASSUME NEW new \in LinkState PROVE ~OnConnectionChange(new)
  BY DEF OnConnectionChange, Still
<1>3. ASSUME NEW t \in Threads PROVE ~StopStep(t)
  BY <1>1 DEF Threads, StopStep, StopTest, StopJoined, StopClear
<1>4. ~DropPc /\ ~DestroyPc /\ ~Leave
  BY <1>1 DEF DropPc, DestroyPc, Leave, IInv, WorkerServes
<1>5. ~Destroy
  BY DEF Destroy, StopPolling, Goto, IInv, TypeOK, Threads, Still
<1>6. ~MediaFlows
  BY BoundsAreNat DEF MediaFlows, Still, IInv, TypeOK
<1> QED
  BY <1>2, <1>3, <1>4, <1>5, <1>6 DEF Next

LEMMA StartProceeds ==
    ASSUME NEW b
    PROVE  IInv /\ ExitIsAsked /\ [Next]_vars =>
           /\ StillAt(b, "reset") => StillAt(b, "reset")' \/ StillAt(b, "spawn")' \/ ~Still(b)'
           /\ StillAt(b, "reset") /\ (StartReset \/ StartSpawn) => StillAt(b, "spawn")' \/ ~Still(b)'
           /\ StillAt(b, "spawn") => StillAt(b, "spawn")' \/ StillAt(b, "idle")' \/ ~Still(b)'
           /\ StillAt(b, "spawn") /\ (StartReset \/ StartSpawn) => StillAt(b, "idle")' \/ ~Still(b)'
           /\ StillAt(b, "idle") => StillAt(b, "idle")' \/ ~Still(b)'
<1> HAVE IInv /\ ExitIsAsked /\ [Next]_vars
<1>0. ctl \in [Threads -> {"idle", "reset", "spawn", "test", "joining", "clear", "worker", "pc", "gone"}]
      /\ "signaling" \in Threads
  BY DEF IInv, TypeOK, Threads
<1>1. StartReset => ctl["signaling"] = "reset" /\ ctl'["signaling"] = "spawn"
  BY <1>0 DEF StartReset, Goto
<1>2. StartSpawn => ctl["signaling"] = "spawn" /\ ctl'["signaling"] = "idle"
  BY <1>0 DEF StartSpawn, Goto
<1>3. OnStatsDelivered \/ Poller \/ PollState \/ PollStats \/ UNCHANGED vars => UNCHANGED ctl
  BY DEF OnStatsDelivered, Poller, PollerTest, PollUnsent, PollState, PollStats, vars
<1>4. Still(b) /\ Still(b)' => StartReset \/ StartSpawn \/ UNCHANGED ctl
  BY <1>3, StillSteps
<1> QED
  BY <1>1, <1>2, <1>4 DEF StillAt

\* Round by round the poller comes to ask for a report.
LEMMA PollProceeds ==
    ASSUME NEW b, MaxReports > 0
    PROVE  IInv /\ ExitIsAsked /\ [Next]_vars =>
           /\ PollsAt(b, "check") => PollsAt(b, "check")' \/ PollsAt(b, "state")' \/ ~Still(b)'
           /\ PollsAt(b, "check") /\ Poller => PollsAt(b, "state")' \/ ~Still(b)'
           /\ PollsAt(b, "unsent") => PollsAt(b, "unsent")' \/ PollsAt(b, "check")' \/ ~Still(b)'
           /\ PollsAt(b, "unsent") /\ Poller => PollsAt(b, "check")' \/ ~Still(b)'
           /\ PollsAt(b, "state") => PollsAt(b, "state")' \/ PollsAt(b, "stats")' \/ ~Still(b)'
           /\ PollsAt(b, "state") /\ PollState => PollsAt(b, "stats")' \/ ~Still(b)'
           /\ PollsAt(b, "stats") => PollsAt(b, "stats")' \/ Reported(b)' \/ ~Still(b)'
           /\ PollsAt(b, "stats") /\ PollStats => Reported(b)' \/ ~Still(b)'
<1> HAVE IInv /\ ExitIsAsked /\ [Next]_vars
<1>1. StillAt(b, "idle") => stats_polling /\ link = "connected" /\ PcExists
  BY StillPlaces DEF StillAt, Still, IInv, WorkerServes, PcExists
<1>2. PollerTest => poller = "check" /\ (stats_polling => poller' = "state") /\ UNCHANGED <<ctl, reports>>
  BY DEF PollerTest
<1>3. PollUnsent => poller = "unsent" /\ poller' = "check" /\ UNCHANGED <<ctl, reports>>
  BY DEF PollUnsent
<1>4. PollState => poller = "state" /\ (link = "connected" /\ PcExists => poller' = "stats") /\ UNCHANGED <<ctl, reports>>
  BY DEF PollState
<1>5. PollStats => poller = "stats" /\ reports' = reports + 1 /\ UNCHANGED ctl
  BY DEF PollStats
<1>6. ASSUME StillAt(b, "idle"), reports = 0
      PROVE  ~StartReset /\ ~StartSpawn /\ ~OnStatsDelivered
  BY <1>6 DEF StillAt, StartReset, StartSpawn, OnStatsDelivered
<1>7. ASSUME StillAt(b, "idle"), reports = 0, Still(b)'
      PROVE  PollerTest \/ PollUnsent \/ PollState \/ PollStats \/ UNCHANGED <<ctl, poller, reports>>
  BY <1>6, <1>7, StillSteps DEF StillAt, Poller, vars, shared
<1>8. 0 + 1 > 0
  OBVIOUS
<1> QED
  BY <1>1, <1>2, <1>3, <1>4, <1>5, <1>7, <1>8 DEF PollsAt, Reported, StillAt, Poller

\* A report is delivered, the first with the bytes there are, the next with
\* no more than those.
LEMMA ReportProceeds ==
    ASSUME NEW b
    PROVE  IInv /\ ExitIsAsked /\ [Next]_vars =>
           /\ Reported(b) => Reported(b)' \/ Counted(b)' \/ ~Still(b)'
           /\ Reported(b) /\ OnStatsDelivered => Counted(b)' \/ ~Still(b)'
           /\ Counted(b) => Counted(b)' \/ ~Still(b)'
           /\ Counted(b) /\ Reported(b) => (Counted(b)' /\ Reported(b)') \/ Silent(b)' \/ ~Still(b)'
           /\ Counted(b) /\ OnStatsDelivered => Silent(b)' \/ ~Still(b)'
           /\ Silent(b) => Silent(b)' \/ ~Still(b)'
<1> HAVE IInv /\ ExitIsAsked /\ [Next]_vars
<1>0. reports \in Nat /\ last_video_bytes_sent \in Nat /\ (Still(b) => b \in Nat)
  BY BoundsAreNat DEF IInv, TypeOK, Still
<1>1. ASSUME Still(b), OnStatsDelivered
      PROVE  /\ last_video_bytes_sent' = b \/ b = 0
             /\ (last_video_bytes_sent = b \/ b = 0) => is_sending_rtp_video' = FALSE
  <2>1. sent = b
    BY <1>1 DEF Still
  <2>2. CASE sent = 0 /\ is_sending_rtp_video' = FALSE /\ UNCHANGED last_video_bytes_sent
    BY <2>1, <2>2
  <2>3. CASE last_video_bytes_sent' = sent /\ is_sending_rtp_video' = Sending(sent, last_video_bytes_sent)
    <3>1. last_video_bytes_sent = b \/ b = 0 => (b > last_video_bytes_sent) = FALSE
      BY <1>0, <1>1
    <3>2. is_sending_rtp_video' = (b > last_video_bytes_sent)
      BY <2>1, <2>3, Zenon DEF Sending
    <3>3. last_video_bytes_sent' = b
      BY <2>1, <2>3
    <3> QED
      BY <3>1, <3>2, <3>3, Zenon
  <2> QED
    BY <1>1, <2>2, <2>3 DEF OnStatsDelivered
<1>2. ASSUME StillAt(b, "idle"), Still(b)'
      PROVE  \/ OnStatsDelivered
             \/ /\ UNCHANGED last_video_bytes_sent
                /\ is_sending_rtp_video = FALSE => is_sending_rtp_video' = FALSE
                /\ reports > 0 => reports' > 0
  <2>1. ~StartReset /\ ~StartSpawn
    BY <1>2 DEF StillAt, StartReset, StartSpawn
  <2>2. Poller \/ PollState \/ PollStats \/ UNCHANGED vars =>
          /\ UNCHANGED last_video_bytes_sent
          /\ is_sending_rtp_video = FALSE => is_sending_rtp_video' = FALSE
          /\ reports > 0 => reports' > 0
    BY <1>0 DEF Poller, PollerTest, PollUnsent, PollState, PollStats, vars, diagnosis
  <2> QED
    BY <1>2, <2>1, <2>2, StillSteps DEF StillAt
<1>3. StillAt(b, "idle") => StillAt(b, "idle")' \/ ~Still(b)'
  BY StartProceeds
<1> QED
  BY <1>1, <1>2, <1>3 DEF Reported, Counted, Silent, StillAt

\* The bytes on a link that stays up come to rest: in a run it is the bound
\* MaxBytes that sees to it, by an induction that is beyond the provers.
FlowEnds ==
    <>[](link = "connected" /\ ctl["owner"] = "idle" /\ ~terminated) => \E b \in Nat : <>[](sent = b)

LEMMA StallSeen ==
    ASSUME NEW b \in Nat, MaxReports > 0
    PROVE  FairSpec /\ []ThreadsRun /\ <>[]Still(b) => <>[](~is_sending_rtp_video)
<1> DEFINE Fair == FairSpec /\ []ThreadsRun
<1>1. ThreadsRun /\ IInv =>
         /\ StillAt(b, "reset") \/ StillAt(b, "spawn") => ENABLED <<StartReset \/ StartSpawn>>_vars
         /\ PollsAt(b, "check") \/ PollsAt(b, "unsent") => ENABLED <<Poller>>_vars
         /\ PollsAt(b, "state") => ENABLED <<PollState>>_vars
         /\ PollsAt(b, "stats") => ENABLED <<PollStats>>_vars
         /\ Reported(b) => ENABLED <<OnStatsDelivered>>_vars
  <2> SUFFICES ASSUME ThreadsRun, IInv, Still(b)
               PROVE  /\ StillAt(b, "reset") \/ StillAt(b, "spawn") => ENABLED <<StartReset \/ StartSpawn>>_vars
                      /\ PollsAt(b, "check") \/ PollsAt(b, "unsent") => ENABLED <<Poller>>_vars
                      /\ PollsAt(b, "state") => ENABLED <<PollState>>_vars
                      /\ PollsAt(b, "stats") => ENABLED <<PollStats>>_vars
                      /\ Reported(b) => ENABLED <<OnStatsDelivered>>_vars
    BY DEF PollsAt, Reported, StillAt
  <2>1. ~terminated /\ PcExists
    BY DEF Still, PcExists, IInv, WorkerServes
  <2>2. reports = 0 => reports < MaxReports
    OBVIOUS
  <2> QED
    BY <2>1, <2>2 DEF ThreadsRun, PollsAt, Reported, StillAt, SignalingFree
<1>2. Fair => /\ StillAt(b, "reset") ~> StillAt(b, "spawn") \/ ~Still(b)
              /\ StillAt(b, "spawn") ~> StillAt(b, "idle") \/ ~Still(b)
  BY <1>1, StartProceeds, Invariance, ExitAsked, PTL DEF FairSpec, Spec, Fairness
<1>3. Fair => /\ PollsAt(b, "check") ~> PollsAt(b, "state") \/ ~Still(b)
              /\ PollsAt(b, "unsent") ~> PollsAt(b, "check") \/ ~Still(b)
  BY <1>1, PollProceeds, Invariance, ExitAsked, PTL DEF FairSpec, Spec, Fairness
<1>4. Fair => /\ PollsAt(b, "state") ~> PollsAt(b, "stats") \/ ~Still(b)
              /\ PollsAt(b, "stats") ~> Reported(b) \/ ~Still(b)
  BY <1>1, PollProceeds, Invariance, ExitAsked, PTL DEF FairSpec, Spec, Fairness
<1>5. Fair => /\ Reported(b) ~> Counted(b) \/ ~Still(b)
              /\ Counted(b) /\ Reported(b) ~> Silent(b) \/ ~Still(b)
  BY <1>1, ReportProceeds, Invariance, ExitAsked, PTL DEF FairSpec, Spec, Fairness
<1>6. IInv /\ ExitIsAsked /\ Still(b) => StillAt(b, "reset") \/ StillAt(b, "spawn") \/ StillAt(b, "idle")
  BY StillPlaces DEF StillAt
<1>7. IInv /\ ExitIsAsked /\ StillAt(b, "idle") =>
         \/ Reported(b) \/ PollsAt(b, "check") \/ PollsAt(b, "state") \/ PollsAt(b, "stats") \/ PollsAt(b, "unsent")
  BY StillPlaces DEF StillAt, Reported, PollsAt, IInv, TypeOK
<1>8. Counted(b) => StillAt(b, "idle")
  BY DEF Counted
<1>9. Fair => (StillAt(b, "idle") ~> Reported(b) \/ ~Still(b))
  BY <1>3, <1>4, <1>7, Invariance, ExitAsked, PTL DEF FairSpec
<1>10. Fair => (Still(b) ~> Counted(b) \/ ~Still(b))
  BY <1>2, <1>5, <1>6, <1>9, Invariance, ExitAsked, PTL DEF FairSpec
<1>11. Fair => (Counted(b) ~> (Counted(b) /\ Reported(b)) \/ ~Still(b))
  BY <1>8, <1>9, ReportProceeds, Invariance, ExitAsked, PTL DEF FairSpec, Spec
<1>12. Fair => (Still(b) ~> Silent(b) \/ ~Still(b))
  BY <1>5, <1>10, <1>11, PTL
<1>13. Silent(b) => ~is_sending_rtp_video
  BY DEF Silent
<1>14. Fair /\ <>[]Still(b) => <>[]Silent(b)
  BY <1>12, ReportProceeds, Invariance, ExitAsked, PTL DEF FairSpec, Spec
<1> QED
  BY <1>13, <1>14, PTL

(***************************************************************************)
(* A stall is noticed on a link that stays up, once the bytes have come to *)
(* rest: the poller asks again and again, the first report then counts     *)
(* what there is, and the next one finds no more (OnStatsDelivered).       *)
(***************************************************************************)
THEOREM StallsNoticed ==
    ASSUME MaxReports > 0
    PROVE  FairSpec /\ []ThreadsRun /\ FlowEnds => StallNoticed
<1> DEFINE Up == link = "connected" /\ ctl["owner"] = "idle" /\ ~terminated
           Rests == \E b \in Nat : <>[](sent = b)
           Noticed == FairSpec /\ []ThreadsRun /\ <>[]Up => <>[](~is_sending_rtp_video)
<1>1. ASSUME NEW b \in Nat PROVE <>[](sent = b) => Noticed
  <2>1. Up /\ sent = b => Still(b)
    BY DEF Still
  <2>2. FairSpec /\ []ThreadsRun /\ <>[]Still(b) => <>[](~is_sending_rtp_video)
    BY StallSeen
  <2> QED
    BY <2>1, <2>2, PTL
<1>2. Rests => Noticed
  <2> HIDE DEF Noticed
  <2> QED
    BY <1>1, Zenon
<1>3. FlowEnds => (<>[]Up => Rests)
  BY PTL DEF FlowEnds
<1> QED
  BY <1>2, <1>3, PTL DEF StallNoticed
=============================================================================
