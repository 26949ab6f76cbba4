--------------------------- MODULE PulseAdmProofs ---------------------------
(***************************************************************************)
(* Proofs about PulseAdm, for any number of streams.  The inductive        *)
(* invariant pins down, for each point of a call, what the capture thread  *)
(* may be doing meanwhile: a thread that is still capturing is joinable    *)
(* and, outside a join, recording_ is up; one that has left its loop       *)
(* without being joined has left it by a break.                            *)
(***************************************************************************)
EXTENDS PulseAdm, TLAPS

\* While the caller is at one of these points no capture thread is active.
Quiet == caller.at \in {"spawn", "close", "members", "gone"} => ~Capturing

\* Between calls the flag says whether the capture thread is active; within
\* a call it is what the call has made it.
FlagTrue ==
    /\ caller.at = "idle" => (recording <=> Capturing)
    /\ caller.at = "spawn" => recording
    /\ caller.at \in {"join", "close", "members"} => ~recording

\* A thread that captures can be joined, and StopRecording waits for it.
Joinable ==
    /\ Capturing => joinable
    /\ joinable => loop.at # "none"
    /\ caller.at = "join" => joinable

\* A thread that is over, or about to be, and that nobody joins, broke off.
BrokeOff == joinable /\ loop.at \in {"store", "ended"} /\ caller.at # "join" => loopBroke

\* The states at which the process has not died; terminate stops everything.
Alive ==
    /\ Quiet
    /\ FlagTrue
    /\ Joinable
    /\ BrokeOff
    /\ NoFreeUnderRead

\* Until channels_ changes the stream, and the buffer of the loop, go by it.
Fits ==
    ~respecified =>
        /\ channels = spec
        /\ loop.at \in {"test", "copy", "read", "deliver"} => loop.channels = spec

IInv ==
    /\ TypeOK
    /\ Fits
    /\ NoFreeUnderRead
    /\ TerminateNeedsBreak
    /\ ~terminated => Alive

LEMMA InitInv == Init => IInv
  <1> SUFFICES ASSUME Init PROVE IInv
    OBVIOUS
  <1>1. opened \in 0..MaxStreams /\ stream \in 0..opened /\ loop \in [at : Places, stream : 0..MaxStreams, callback : BOOLEAN, channels : 0..2]
    BY MaxStreamsIsNat DEF Init, NoLoop, NoStream, Places
  <1>2. caller \in [op : Ops, at : Points]
    BY DEF Init, Idle, At, Ops, Points
  <1>3. TypeOK
    BY <1>1, <1>2 DEF Init, TypeOK
  <1>4. NoFreeUnderRead /\ TerminateNeedsBreak /\ Alive /\ Fits
    BY DEF Init, Fits, NoFreeUnderRead, TerminateNeedsBreak, Alive, Quiet, FlagTrue, Joinable, BrokeOff, Capturing, NoLoop,
       Idle, At
  <1> QED
    BY <1>3, <1>4 DEF IInv

-----------------------------------------------------------------------------
\* A stream that is opened has the next number.
LEMMA OpenTyped ==
  ASSUME TypeOK, OpenPulseStream
  PROVE  /\ opened' \in 0..MaxStreams /\ stream' \in 0..opened'
         /\ channels' \in {1, 2} /\ spec' \in {1, 2} /\ respecified' \in BOOLEAN
  <1>1. CASE UNCHANGED <<streams, format>>
    BY <1>1 DEF TypeOK, streams, format
  <1>2. CASE ~UNCHANGED <<streams, format>>
    <2>1. /\ opened < MaxStreams /\ opened' = opened + 1 /\ stream' = opened + 1
          /\ spec' = channels /\ respecified' = FALSE /\ channels' = channels
      BY <1>2 DEF OpenPulseStream
    <2>2. opened' \in 0..MaxStreams /\ stream' \in 0..opened'
      BY <2>1, MaxStreamsIsNat DEF TypeOK
    <2> QED
      BY <2>1, <2>2 DEF TypeOK
  <1> QED
    BY <1>1, <1>2

LEMMA TypeStep == TypeOK /\ [Next]_vars => TypeOK'
  <1> SUFFICES ASSUME TypeOK, [Next]_vars PROVE TypeOK'
    OBVIOUS
  <1> USE DEF TypeOK, CanCall, flags, format, At, Idle, Ops, Points
  <1>1. CASE RegisterAudioCallback
    BY <1>1 DEF RegisterAudioCallback, streams
  <1>2. CASE InitDevice
    BY <1>2 DEF InitDevice, streams
  <1>3. ASSUME InitRecordingDone
        PROVE  /\ opened' \in 0..MaxStreams /\ stream' \in 0..opened' /\ recording_initialized' = TRUE
               /\ channels' \in {1, 2} /\ spec' \in {1, 2} /\ respecified' \in BOOLEAN
    BY <1>3, OpenTyped DEF InitRecordingDone, streams
  <1>4. CASE InitRecording
    BY <1>4, <1>3 DEF InitRecording
  <1>5. CASE StartRecording
    <2>1. /\ opened' \in 0..MaxStreams /\ stream' \in 0..opened'
          /\ recording_initialized' \in BOOLEAN
          /\ channels' \in {1, 2} /\ spec' \in {1, 2} /\ respecified' \in BOOLEAN
      BY <1>5, <1>3 DEF StartRecording, streams
    <2>2. caller' \in [op : Ops, at : Points]
      BY <1>5 DEF StartRecording
    <2>3. /\ recording' = TRUE
          /\ UNCHANGED <<initialized, audio_callback, joinable, loop, loopBroke, terminated>>
      BY <1>5 DEF StartRecording
    <2> QED
      BY <2>1, <2>2, <2>3
  <1>6. CASE StopRecording
    <2>1. PICK op \in {"StopRecording", "Terminate", "Destroy"} : StopBegins(op)
      BY <1>6 DEF StopRecording
    <2>2. caller' = [op |-> op, at |-> "join"] \/ caller' = [op |-> op, at |-> "close"]
      BY <2>1 DEF StopBegins
    <2>3. caller' \in [op : Ops, at : Points]
      BY <2>2
    <2>4. recording' = FALSE
      BY <2>1 DEF StopBegins
    <2>5. UNCHANGED <<flags, streams, audio_callback, joinable, loop, loopBroke, terminated, format>>
      BY <1>6 DEF StopRecording
    <2> QED
      BY <2>3, <2>4, <2>5 DEF streams
  <1>7. CASE Spawn
    <2>1. loop' \in [at : Places, stream : 0..MaxStreams, callback : BOOLEAN, channels : 0..2]
      <3>1. loop' = loop \/ loop' = [at |-> "start", stream |-> NoStream, callback |-> FALSE, channels |-> 0]
        BY <1>7 DEF Spawn, NoLoop
      <3>2. NoStream \in 0..MaxStreams
        BY MaxStreamsIsNat DEF NoStream
      <3>3. [at |-> "start", stream |-> NoStream, callback |-> FALSE, channels |-> 0]
                \in [at : Places, stream : 0..MaxStreams, callback : BOOLEAN, channels : 0..2]
        BY <3>2 DEF Places
      <3> QED
        BY <3>1, <3>3
    <2>2. caller' = Idle /\ joinable' \in BOOLEAN /\ terminated' \in BOOLEAN
      BY <1>7 DEF Spawn
    <2>3. UNCHANGED <<flags, recording, streams, audio_callback, loopBroke, format>>
      BY <1>7 DEF Spawn
    <2> QED
      BY <2>1, <2>2, <2>3 DEF streams
  <1>8. CASE Join
    <2>1. joinable' = FALSE /\ caller' = [op |-> caller.op, at |-> "close"]
      BY <1>8 DEF Join
    <2>2. caller' \in [op : Ops, at : Points]
      BY <2>1
    <2>3. UNCHANGED <<initialized, recording_initialized, recording, opened, stream, audio_callback, loop,
                      loopBroke, terminated, channels, spec, respecified>>
      BY <1>8 DEF Join, streams
    <2> QED
      BY <2>1, <2>2, <2>3
  <1>9. CASE ClosePulseStream
    <2>1. stream' \in 0..opened' /\ opened' \in 0..MaxStreams
      BY <1>9, MaxStreamsIsNat DEF ClosePulseStream, NoStream
    <2>2. initialized' \in BOOLEAN /\ recording_initialized' \in BOOLEAN
      BY <1>9 DEF ClosePulseStream
    <2>3. caller' \in [op : Ops, at : Points]
      BY <1>9 DEF ClosePulseStream
    <2>4. UNCHANGED <<recording, audio_callback, joinable, loop, loopBroke, terminated, format>>
      BY <1>9 DEF ClosePulseStream
    <2> QED
      BY <2>1, <2>2, <2>3, <2>4
  <1>10. CASE DestroyMembers
    BY <1>10 DEF DestroyMembers, streams
  <1>11. CASE LoopTest
    BY <1>11 DEF LoopTest, Places, streams
  <1>12. CASE LoopCopy
    <2>1. stream \in 0..MaxStreams
      BY MaxStreamsIsNat
    <2>2. loop' \in [at : Places, stream : 0..MaxStreams, callback : BOOLEAN, channels : 0..2]
      BY <1>12, <2>1 DEF LoopCopy, Copied, Places
    <2>3. loopBroke' \in BOOLEAN
      BY <1>12 DEF LoopCopy
    <2>4. UNCHANGED <<flags, recording, streams, audio_callback, joinable, caller, terminated, format>>
      BY <1>12 DEF LoopCopy
    <2> QED
      BY <2>2, <2>3, <2>4 DEF streams
  <1>13. CASE LoopRead
    BY <1>13 DEF LoopRead, Places, streams
  <1>14. CASE LoopReadFails
    BY <1>14 DEF LoopReadFails, Places, streams
  <1>15. CASE LoopDeliver
    BY <1>15 DEF LoopDeliver, Places, streams
  <1>16. CASE LoopEnds
    <2>1. loop' \in [at : Places, stream : 0..MaxStreams, callback : BOOLEAN, channels : 0..2]
      <3>1. loop' = [at |-> "ended", stream |-> NoStream, callback |-> FALSE, channels |-> 0]
        BY <1>16 DEF LoopEnds, NoLoop
      <3> QED
        BY <3>1, MaxStreamsIsNat DEF NoStream, Places
    <2>2. /\ recording' = FALSE
          /\ UNCHANGED <<initialized, recording_initialized, opened, stream, audio_callback, joinable, caller,
                         loopBroke, terminated, channels, spec, respecified>>
      BY <1>16 DEF LoopEnds, StoredFlag, streams
    <2>3. /\ initialized' \in BOOLEAN /\ recording_initialized' \in BOOLEAN /\ recording' \in BOOLEAN
          /\ audio_callback' \in BOOLEAN /\ joinable' \in BOOLEAN
          /\ loopBroke' \in BOOLEAN /\ terminated' \in BOOLEAN /\ respecified' \in BOOLEAN
      BY <2>2
    <2>4. /\ opened' \in 0..MaxStreams /\ stream' \in 0..opened' /\ caller' \in [op : Ops, at : Points]
          /\ channels' \in {1, 2} /\ spec' \in {1, 2}
      BY <2>2
    <2> QED
      BY <2>1, <2>3, <2>4, Zenon
  <1>17. CASE SetStereoRecording
    BY <1>17 DEF SetStereoRecording, streams
  <1>18. CASE LoopStart
    <2>1. loop' \in [at : Places, stream : 0..MaxStreams, callback : BOOLEAN, channels : 0..2]
      <3>1. loop' = [loop EXCEPT !.at = "test", !.channels = channels]
        BY <1>18 DEF LoopStart
      <3>2. channels \in 0..2 /\ "test" \in Places
        BY DEF Places
      <3> QED
        BY <3>1, <3>2
    <2>2. UNCHANGED <<flags, recording, streams, audio_callback, joinable, caller, loopBroke, terminated, format>>
      BY <1>18 DEF LoopStart
    <2> QED
      BY <2>1, <2>2 DEF streams
  <1>19. CASE UNCHANGED vars
    BY <1>19 DEF vars, streams
  <1> QED
    BY <1>1, <1>2, <1>4, <1>5, <1>6, <1>7, <1>8, <1>9, <1>10, <1>11, <1>12, <1>13, <1>14, <1>15, <1>16, <1>17, <1>18,
       <1>19
       DEF Next, Call, Continue, CaptureLoop

-----------------------------------------------------------------------------
\* What the process does while it lives.
Safe == NoFreeUnderRead /\ TerminateNeedsBreak /\ (~terminated => Alive)

LEMMA SafeStep == IInv /\ [Next]_vars => Safe'
  <1> SUFFICES ASSUME IInv, [Next]_vars PROVE Safe'
    OBVIOUS
  <1>0. /\ NoFreeUnderRead
        /\ TerminateNeedsBreak
        /\ ~terminated => Alive
        /\ recording \in BOOLEAN /\ joinable \in BOOLEAN /\ loopBroke \in BOOLEAN /\ terminated \in BOOLEAN
        /\ loop = [at |-> loop.at, stream |-> loop.stream, callback |-> loop.callback,
                  channels |-> loop.channels]
    BY DEF IInv, TypeOK
  <1> USE <1>0 DEF Safe, NoFreeUnderRead, TerminateNeedsBreak, Alive, Quiet, FlagTrue, Joinable, BrokeOff, Capturing,
          CanCall, At, Idle, streams
  \* A call leaves the capture thread as it is.
  <1>1. CASE RegisterAudioCallback
    BY <1>1 DEF RegisterAudioCallback
  <1>2. CASE InitDevice
    BY <1>2 DEF InitDevice
  <1>3. CASE InitRecording
    BY <1>3 DEF InitRecording, InitRecordingDone
  <1>4. CASE StartRecording
    BY <1>4 DEF StartRecording, InitRecordingDone
  <1>5. CASE StopRecording
    BY <1>5 DEF StopRecording, StopBegins
  \* The caller waits for the capture thread before it frees the stream.
  <1>6. CASE Spawn
    <2>1. caller'.at = "idle" /\ UNCHANGED <<recording, stream, loopBroke>>
      BY <1>6 DEF Spawn
    <2>2. CASE joinable
      <3>1. terminated' = TRUE /\ UNCHANGED loop
        BY <1>6, <2>2 DEF Spawn
      <3>2. loopBroke
        BY <1>6, <2>2 DEF Spawn
      <3> QED
        BY <3>1, <3>2, <2>1
    <2>3. CASE ~joinable
      <3>1. loop'.at = "start" /\ joinable' = TRUE /\ UNCHANGED terminated
        BY <1>6, <2>3 DEF Spawn, NoLoop
      <3> QED
        BY <1>6, <2>1, <3>1 DEF Spawn
    <2> QED
      BY <2>2, <2>3
  <1>7. CASE Join
    BY <1>7 DEF Join
  <1>8. CASE ClosePulseStream
    <2>1. caller'.at \in {"idle", "members"} /\ UNCHANGED <<recording, joinable, loop, loopBroke, terminated>>
      BY <1>8 DEF ClosePulseStream
    <2>2. caller.at = "close" /\ ~terminated
      BY <1>8 DEF ClosePulseStream
    <2>3. ~recording
      BY <2>2
    <2> QED
      BY <2>1, <2>2, <2>3
  <1>9. CASE DestroyMembers
    <2>1. caller.at = "members" /\ ~terminated /\ caller'.at = "gone" /\ terminated' = joinable
          /\ UNCHANGED <<recording, stream, joinable, loop, loopBroke>>
      BY <1>9 DEF DestroyMembers
    <2>2. joinable => loopBroke
      BY <2>1
    <2> QED
      BY <2>1, <2>2
  <1>10. CASE LoopTest
    <2>1. loop'.at = IF recording THEN "copy" ELSE "store"
      BY <1>10 DEF LoopTest
    <2>2. caller.at \in Points
      BY DEF IInv, TypeOK
    <2>3. loop.at = "test" /\ ~terminated /\ UNCHANGED <<recording, stream, joinable, caller, loopBroke, terminated>>
      BY <1>10 DEF LoopTest
    <2> QED
      BY <2>1, <2>2, <2>3 DEF Points
  <1>11. CASE LoopCopy
    BY <1>11 DEF LoopCopy, Copied
  <1>12. CASE LoopRead
    BY <1>12 DEF LoopRead
  <1>13. CASE LoopReadFails
    BY <1>13 DEF LoopReadFails
  <1>14. CASE LoopDeliver
    BY <1>14 DEF LoopDeliver
  <1>15. CASE LoopEnds
    BY <1>15 DEF LoopEnds, StoredFlag, NoLoop
  <1>16. CASE SetStereoRecording
    BY <1>16 DEF SetStereoRecording
  <1>17. CASE LoopStart
    BY <1>17 DEF LoopStart
  <1>18. CASE UNCHANGED vars
    BY <1>18 DEF vars
  <1> QED
    BY <1>1, <1>2, <1>3, <1>4, <1>5, <1>6, <1>7, <1>8, <1>9, <1>10, <1>11, <1>12, <1>13, <1>14, <1>15, <1>16, <1>17,
       <1>18
       DEF Next, Call, Continue, CaptureLoop

\* A stream is only opened while nobody captures, and a buffer is sized by
\* channels_ as it is then.
LEMMA FitsStep == IInv /\ [Next]_vars => Fits'
  <1> SUFFICES ASSUME IInv, [Next]_vars PROVE Fits'
    OBVIOUS
  <1>0. /\ Fits /\ respecified \in BOOLEAN
        /\ loop = [at |-> loop.at, stream |-> loop.stream, callback |-> loop.callback,
                  channels |-> loop.channels]
    BY DEF IInv, TypeOK
  <1>1. ASSUME UNCHANGED format, loop'.at \in {"none", "start", "store", "ended"} \/ UNCHANGED loop PROVE Fits'
    BY <1>0, <1>1 DEF Fits, format
  <1>2. ASSUME UNCHANGED format, loop.at \in {"test", "copy", "read", "deliver"}, loop'.channels = loop.channels
        PROVE  Fits'
    BY <1>0, <1>2 DEF Fits, format
  <1>3. ASSUME CanCall, InitRecordingDone, UNCHANGED loop PROVE Fits'
    <2>1. ~Capturing
      BY <1>3 DEF CanCall, InitRecordingDone, IInv, Alive, FlagTrue, Idle, At
    <2>2. CASE UNCHANGED format
      BY <1>1, <1>3, <2>2
    <2>3. CASE spec' = channels /\ UNCHANGED channels
      BY <1>3, <2>1, <2>3 DEF Fits, Capturing
    <2> QED
      BY <1>3, <2>2, <2>3 DEF InitRecordingDone, OpenPulseStream
  <1>4. CASE RegisterAudioCallback \/ InitDevice \/ StopRecording
    BY <1>1, <1>4 DEF RegisterAudioCallback, InitDevice, StopRecording
  <1>5. CASE InitRecording \/ StartRecording
    BY <1>1, <1>3, <1>5 DEF InitRecording, StartRecording
  <1>6. CASE SetStereoRecording
    BY <1>0, <1>6 DEF SetStereoRecording, Fits
  <1>7. CASE Spawn
    BY <1>1, <1>7 DEF Spawn, NoLoop
  <1>8. CASE Join \/ ClosePulseStream \/ DestroyMembers
    BY <1>1, <1>8 DEF Join, ClosePulseStream, DestroyMembers
  <1>9. CASE LoopStart
    <2>1. loop'.channels = channels /\ UNCHANGED format
      BY <1>0, <1>9 DEF LoopStart
    <2> QED
      BY <1>0, <2>1 DEF Fits, format
  <1>10. CASE LoopTest \/ LoopCopy \/ LoopRead \/ LoopReadFails \/ LoopDeliver
    <2>1. UNCHANGED format /\ loop.at \in {"test", "copy", "read", "deliver"}
      BY <1>10 DEF LoopTest, LoopCopy, LoopRead, LoopReadFails, LoopDeliver
    <2>2. loop'.channels = loop.channels
      BY <1>0, <1>10 DEF LoopTest, LoopCopy, Copied, LoopRead, LoopReadFails, LoopDeliver
    <2> QED
      BY <1>2, <2>1, <2>2
  <1>11. CASE LoopEnds
    BY <1>1, <1>11 DEF LoopEnds, NoLoop
  <1>12. CASE UNCHANGED vars
    BY <1>1, <1>12 DEF vars
  <1> QED
    BY <1>4, <1>5, <1>6, <1>7, <1>8, <1>9, <1>10, <1>11, <1>12 DEF Next, Call, Continue, CaptureLoop

LEMMA NextInv == IInv /\ [Next]_vars => IInv'
  BY TypeStep, SafeStep, FitsStep DEF IInv, Safe

THEOREM Invariance == Spec => []IInv
  BY InitInv, NextInv, PTL DEF Spec

(***************************************************************************)
(* Type correctness of the device and its capture thread.                  *)
(***************************************************************************)
THEOREM TypeCorrect == Spec => []TypeOK
  <1>1. IInv => TypeOK
    BY DEF IInv
  <1> QED
    BY <1>1, Invariance, PTL

(***************************************************************************)
(* However the calls and the capture thread interleave, pa_simple_free     *)
(* never frees the stream that CaptureLoop is using outside the mutex.     *)
(***************************************************************************)
THEOREM StreamOutlivesRead == Spec => []NoFreeUnderRead
  <1>1. IInv => NoFreeUnderRead
    BY DEF IInv
  <1> QED
    BY <1>1, Invariance, PTL

(***************************************************************************)
(* Between two calls recording_ is up exactly while a thread captures, so  *)
(* StopRecording leaves a device that delivers nothing.                    *)
(***************************************************************************)
THEOREM StopIsQuiet == Spec => []RecordingIffCapturing
  <1>1. IInv => RecordingIffCapturing
    BY DEF IInv, Alive, FlagTrue, RecordingIffCapturing, Idle, At
  <1> QED
    BY <1>1, Invariance, PTL

(***************************************************************************)
(* The device ends the process only after a capture loop broke off.        *)
(***************************************************************************)
THEOREM OnlyBreakTerminates == Spec => []TerminateNeedsBreak
  <1>1. IInv => TerminateNeedsBreak
    BY DEF IInv
  <1> QED
    BY <1>1, Invariance, PTL

(***************************************************************************)
(* As long as SetStereoRecording has not changed channels_ since the       *)
(* stream was opened, what is delivered is what was recorded, and fills    *)
(* its buffer: however often the device is stopped, changed and opened     *)
(* again, no loop with an older buffer is left.                            *)
(***************************************************************************)
THEOREM FormatDelivered == Spec => []DeliversAsRecorded
  <1>1. IInv => DeliversAsRecorded
    BY DEF IInv, Fits, DeliversAsRecorded
  <1> QED
    BY <1>1, Invariance, PTL

-----------------------------------------------------------------------------
(***************************************************************************)
(* Liveness.  The provers know nothing of ENABLED: that a thread at one of *)
(* its steps can take it is a hypothesis, a guard for each action that has *)
(* a fairness condition.                                                   *)
(***************************************************************************)
LoopSteps == {"start", "test", "copy", "read", "deliver", "store"}

ThreadsRun ==
    /\ ~terminated /\ loop.at \in LoopSteps => ENABLED <<CaptureLoop>>_vars
    /\ /\ ~terminated
       /\ \/ caller.at \in {"close", "members"}
          \/ caller.at = "join" /\ loop.at \in {"none", "ended"}
       => ENABLED <<Continue>>_vars

\* Points of a stop: waiting for a capture thread that is at p; past that.
Joining(p) == ~terminated /\ caller.at = "join" /\ loop.at = p
Stopping(at) == ~terminated /\ caller.at = at
Returned == caller.at \in {"idle", "gone"} \/ terminated

\* Where the capture thread goes from p once recording_ is down.
After(p) ==
    CASE p = "start"   -> {"test"}
      [] p = "copy"    -> {"read", "store"}
      [] p = "read"    -> {"deliver", "test", "store"}
      [] p = "deliver" -> {"test"}
      [] p = "test"    -> {"store"}
      [] p = "store"   -> {"ended"}

\* What the threads do while the caller waits for the capture thread.
LEMMA JoinSteps ==
  ASSUME IInv, [Next]_vars, ~terminated, caller.at = "join"
  PROVE  \/ CaptureLoop
         \/ Join
         \/ UNCHANGED vars
  <1>1. ~CanCall
    BY DEF CanCall, Idle, At
  <1>2. ~Call
    BY <1>1 DEF Call, RegisterAudioCallback, InitDevice, SetStereoRecording, InitRecording, StartRecording, StopRecording
  <1>3. ~(Spawn \/ ClosePulseStream \/ DestroyMembers)
    BY DEF Spawn, ClosePulseStream, DestroyMembers
  <1> QED
    BY <1>2, <1>3 DEF Next, Continue

\* A step of the capture thread brings it nearer to its end.
LEMMA LoopProceeds ==
  ASSUME IInv, NEW p \in LoopSteps, Joining(p), CaptureLoop
  PROVE  \E q \in After(p) : Joining(q)'
  <1>1. ~recording /\ UNCHANGED <<caller, terminated>>
    BY DEF IInv, Alive, FlagTrue, Joining, CaptureLoop, LoopStart, LoopTest, LoopCopy, LoopRead, LoopReadFails,
           LoopDeliver, LoopEnds
  <1>2. loop = [at |-> p, stream |-> loop.stream, callback |-> loop.callback, channels |-> loop.channels]
    BY DEF IInv, TypeOK, Joining
  <1>3. loop'.at \in After(p)
    <2>1. LoopStart => loop'.at \in After(p)
      BY <1>2 DEF LoopStart, After
    <2>2. LoopTest => loop'.at \in After(p)
      BY <1>1, <1>2 DEF LoopTest, After
    <2>3. LoopCopy => loop'.at \in After(p)
      BY <1>2 DEF LoopCopy, Copied, After
    <2>4. LoopRead \/ LoopReadFails => loop'.at \in After(p)
      BY <1>2 DEF LoopRead, LoopReadFails, After
    <2>5. LoopDeliver => loop'.at \in After(p)
      BY <1>2 DEF LoopDeliver, After
    <2>6. LoopEnds => loop'.at \in After(p)
      BY <1>2 DEF LoopEnds, NoLoop, After
    <2> QED
      BY <2>1, <2>2, <2>3, <2>4, <2>5, <2>6 DEF CaptureLoop
  <1> QED
    BY <1>1, <1>3 DEF Joining

LEMMA JoinWaits ==
  ASSUME IInv, [Next]_vars, NEW p \in LoopSteps, Joining(p)
  PROVE  Joining(p)' \/ \E q \in After(p) : Joining(q)'
  <1>1. CASE CaptureLoop
    BY <1>1, LoopProceeds
  <1>2. CASE UNCHANGED vars
    BY <1>2 DEF Joining, vars
  <1>3. ~Join
    BY DEF Join, Joining, LoopSteps
  <1> QED
    BY <1>1, <1>2, <1>3, JoinSteps DEF Joining

\* The caller of a stop that has joined, or had nothing to join.
LEMMA StopProceeds ==
  ASSUME IInv, [Next]_vars
  PROVE  /\ Joining("ended") => Joining("ended")' \/ Stopping("close")'
         /\ Joining("none") => Joining("none")' \/ Stopping("close")'
         /\ Joining("ended") /\ Continue => Stopping("close")'
         /\ Joining("none") /\ Continue => Stopping("close")'
         /\ Stopping("close") => Stopping("close")' \/ Stopping("members")' \/ Returned'
         /\ Stopping("close") /\ Continue => Stopping("members")' \/ Returned'
         /\ Stopping("members") => Stopping("members")' \/ Returned'
         /\ Stopping("members") /\ Continue => Returned'
  <1>1. ASSUME Joining("ended") \/ Joining("none")
        PROVE  /\ Continue => Stopping("close")'
               /\ UNCHANGED <<caller, loop, terminated>> \/ Stopping("close")'
    <2>1. Join => Stopping("close")'
      BY DEF Join, Stopping, At
    <2>2. ~CaptureLoop
      BY <1>1 DEF CaptureLoop, LoopStart, LoopTest, LoopCopy, LoopRead, LoopReadFails, LoopDeliver, LoopEnds, Joining
    <2>3. Continue => Join
      BY <1>1 DEF Continue, Spawn, ClosePulseStream, DestroyMembers, Joining
    <2> QED
      BY <1>1, <2>1, <2>2, <2>3, JoinSteps DEF Joining, vars
  <1>2. ASSUME ~terminated, caller.at \in {"close", "members"}
        PROVE  ClosePulseStream \/ DestroyMembers \/ (~Continue /\ UNCHANGED <<caller, terminated>>)
    <2>1. ~CanCall
      BY <1>2 DEF CanCall, Idle, At
    <2>2. ~Call
      BY <2>1 DEF Call, RegisterAudioCallback, InitDevice, SetStereoRecording, InitRecording, StartRecording,
                  StopRecording
    <2>3. ~Spawn /\ ~Join
      BY <1>2 DEF Spawn, Join
    <2>4. CaptureLoop => UNCHANGED <<caller, terminated>>
      BY DEF CaptureLoop, LoopStart, LoopTest, LoopCopy, LoopRead, LoopReadFails, LoopDeliver, LoopEnds
    <2>5. Continue => ClosePulseStream \/ DestroyMembers
      BY <2>3 DEF Continue
    <2> QED
      BY <2>2, <2>4, <2>5 DEF Next, vars
  <1>3. ClosePulseStream => caller.at = "close" /\ (Stopping("members")' \/ Returned')
    BY DEF ClosePulseStream, Stopping, Returned, At, Idle
  <1>4. DestroyMembers => caller.at = "members" /\ Returned'
    BY DEF DestroyMembers, Returned, At
  <1>5. /\ Joining("ended") => Joining("ended")' \/ Stopping("close")'
        /\ Joining("none") => Joining("none")' \/ Stopping("close")'
    BY <1>1 DEF Joining
  <1>6. /\ Stopping("close") => Stopping("close")' \/ Stopping("members")' \/ Returned'
        /\ Stopping("close") /\ Continue => Stopping("members")' \/ Returned'
        /\ Stopping("members") => Stopping("members")' \/ Returned'
        /\ Stopping("members") /\ Continue => Returned'
    BY <1>2, <1>3, <1>4 DEF Stopping
  <1> QED
    BY <1>1, <1>5, <1>6

(***************************************************************************)
(* StopRecording, Terminate and the destructor return: with recording_     *)
(* down the capture thread they join has no way back to its loop.          *)
(***************************************************************************)
THEOREM StopsReturn == FairSpec /\ []ThreadsRun => StopReturns
  <1> DEFINE Runs(p) == Joining(p) => ENABLED <<CaptureLoop>>_vars
  <1>1. ThreadsRun => \A p \in LoopSteps : Runs(p)
    BY DEF ThreadsRun, Joining
  <1>2. ThreadsRun => /\ Joining("ended") \/ Joining("none") => ENABLED <<Continue>>_vars
                      /\ Stopping("close") \/ Stopping("members") => ENABLED <<Continue>>_vars
    BY DEF ThreadsRun, Joining, Stopping
  <1>3. /\ IInv /\ Joining("start") /\ [Next]_vars => Joining("start")' \/ Joining("test")'
        /\ IInv /\ Joining("copy") /\ [Next]_vars => Joining("copy")' \/ Joining("read")' \/ Joining("store")'
        /\ IInv /\ Joining("read") /\ [Next]_vars
              => Joining("read")' \/ Joining("deliver")' \/ Joining("test")' \/ Joining("store")'
        /\ IInv /\ Joining("deliver") /\ [Next]_vars => Joining("deliver")' \/ Joining("test")'
        /\ IInv /\ Joining("test") /\ [Next]_vars => Joining("test")' \/ Joining("store")'
        /\ IInv /\ Joining("store") /\ [Next]_vars => Joining("store")' \/ Joining("ended")'
    BY JoinWaits DEF LoopSteps, After
  <1>4. /\ IInv /\ Joining("start") /\ CaptureLoop => Joining("test")'
        /\ IInv /\ Joining("copy") /\ CaptureLoop => Joining("read")' \/ Joining("store")'
        /\ IInv /\ Joining("read") /\ CaptureLoop => Joining("deliver")' \/ Joining("test")' \/ Joining("store")'
        /\ IInv /\ Joining("deliver") /\ CaptureLoop => Joining("test")'
        /\ IInv /\ Joining("test") /\ CaptureLoop => Joining("store")'
        /\ IInv /\ Joining("store") /\ CaptureLoop => Joining("ended")'
    BY LoopProceeds DEF LoopSteps, After
  <1>5. ThreadsRun => /\ Runs("start") /\ Runs("copy") /\ Runs("read")
                      /\ Runs("deliver") /\ Runs("test") /\ Runs("store")
    BY <1>1 DEF LoopSteps
  <1>6. FairSpec /\ []ThreadsRun =>
           /\ Joining("store") ~> Joining("ended")
           /\ Joining("test") ~> Joining("store")
           /\ Joining("deliver") ~> Joining("test")
           /\ Joining("start") ~> Joining("test")
    BY <1>3, <1>4, <1>5, Invariance, PTL DEF FairSpec, Spec, Fairness
  <1>7. FairSpec /\ []ThreadsRun =>
           /\ Joining("read") ~> Joining("deliver") \/ Joining("test") \/ Joining("store")
           /\ Joining("copy") ~> Joining("read") \/ Joining("store")
    BY <1>3, <1>4, <1>5, Invariance, PTL DEF FairSpec, Spec, Fairness
  <1>8. /\ IInv /\ [Next]_vars =>
             /\ Joining("ended") => Joining("ended")' \/ Stopping("close")'
             /\ Joining("none") => Joining("none")' \/ Stopping("close")'
             /\ Stopping("close") => Stopping("close")' \/ Stopping("members")' \/ Returned'
             /\ Stopping("members") => Stopping("members")' \/ Returned'
        /\ IInv /\ [Next]_vars /\ Continue =>
             /\ Joining("ended") => Stopping("close")'
             /\ Joining("none") => Stopping("close")'
             /\ Stopping("close") => Stopping("members")' \/ Returned'
             /\ Stopping("members") => Returned'
    BY StopProceeds
  <1>9. FairSpec /\ []ThreadsRun =>
           /\ Joining("ended") ~> Stopping("close")
           /\ Joining("none") ~> Stopping("close")
    BY <1>2, <1>8, Invariance, PTL DEF FairSpec, Spec, Fairness
  <1>10. FairSpec /\ []ThreadsRun =>
           /\ Stopping("close") ~> Stopping("members") \/ Returned
           /\ Stopping("members") ~> Returned
    BY <1>2, <1>8, Invariance, PTL DEF FairSpec, Spec, Fairness
  <1>11. IInv /\ caller.at \in {"join", "close", "members"} =>
            \/ Returned \/ Stopping("close") \/ Stopping("members")
            \/ Joining("start") \/ Joining("copy") \/ Joining("read") \/ Joining("deliver")
            \/ Joining("test") \/ Joining("store") \/ Joining("ended") \/ Joining("none")
    <2>1. IInv => loop.at \in Places
      BY DEF IInv, TypeOK
    <2> QED
      BY <2>1 DEF Returned, Stopping, Joining, Places
  <1>12. FairSpec /\ []ThreadsRun => (caller.at \in {"join", "close", "members"} ~> Returned)
    BY <1>6, <1>7, <1>9, <1>10, <1>11, Invariance, PTL DEF FairSpec
  <1> QED
    BY <1>12, PTL DEF StopReturns, Returned
=============================================================================
