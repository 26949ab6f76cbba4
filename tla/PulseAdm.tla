------------------------------ MODULE PulseAdm ------------------------------
(***************************************************************************)
(* The PulseAudio loopback capture device                                  *)
(* (module/pulse_loopback_audio_device_module.cpp).  One thread of WebRTC  *)
(* calls the device, one call at a time but in any order; each recording   *)
(* has a capture thread that reads the stream and delivers to the audio    *)
(* callback.  They share recording_ (atomic), stream_ and audio_callback_  *)
(* (under mutex_, whose critical sections are single steps here), and       *)
(* channels_, which nothing guards.                                        *)
(***************************************************************************)
EXTENDS Naturals

CONSTANT MaxStreams     \* bound on the streams opened in a run

ASSUME MaxStreamsIsNat == MaxStreams \in Nat

VARIABLES
    initialized, recording_initialized, recording,
    stream,         \* number of the open pa_simple, NoStream for null
    opened,         \* how many have been opened
    audio_callback, \* whether one is registered
    joinable,       \* capture_thread_.joinable()
    caller,         \* where the calling thread is: in which call, and where
    loop,           \* where the capture thread is, with its stream and callback
    loopBroke,      \* history: some capture loop ended by a break
    terminated,     \* std::terminate has been called
    channels,       \* channels_
    spec,           \* the channels of the stream opened last
    respecified     \* history: channels_ has changed since that stream was opened

format == <<channels, spec, respecified>>
flags == <<initialized, recording_initialized>>
streams == <<stream, opened>>
vars == <<flags, recording, streams, audio_callback, joinable, caller, loop, loopBroke, terminated, format>>

NoStream == 0

At(op, at) == [op |-> op, at |-> at]
Idle == At("none", "idle")
NoLoop == [at |-> "none", stream |-> NoStream, callback |-> FALSE, channels |-> 0]

Init ==
    /\ initialized = FALSE /\ recording_initialized = FALSE /\ recording = FALSE
    /\ stream = NoStream /\ opened = 0 /\ audio_callback = FALSE
    /\ joinable = FALSE /\ caller = Idle /\ loop = NoLoop
    /\ loopBroke = FALSE /\ terminated = FALSE
    /\ channels = 2 /\ spec = 2 /\ respecified = FALSE

CanCall == caller = Idle /\ ~terminated

-----------------------------------------------------------------------------
RegisterAudioCallback ==
    /\ CanCall
    /\ audio_callback' \in BOOLEAN
    /\ UNCHANGED <<flags, recording, streams, joinable, caller, loop, loopBroke, terminated, format>>

InitDevice ==
    /\ CanCall
    /\ initialized' = TRUE
    /\ UNCHANGED <<recording_initialized, recording, streams, audio_callback, joinable, caller, loop, loopBroke,
                   terminated, format>>

\* Without the mutex; frames_per_buffer_ is set to what it was.
SetStereoRecording ==
    /\ CanCall
    /\ channels' \in {1, 2}
    /\ respecified' = (respecified \/ channels' # channels)
    /\ UNCHANGED <<flags, recording, streams, audio_callback, joinable, caller, loop, loopBroke, terminated, spec>>

\* OpenPulseStreamLocked, which keeps a stream that is open; pa_simple_new may fail.
OpenPulseStream ==
    IF stream # NoStream THEN UNCHANGED <<streams, format>>
    ELSE /\ opened < MaxStreams /\ opened' = opened + 1 /\ stream' = opened + 1
         /\ spec' = channels /\ respecified' = FALSE /\ UNCHANGED channels

\* The body of InitRecording where it returns 0.
InitRecordingDone ==
    /\ initialized /\ ~recording
    /\ IF recording_initialized THEN UNCHANGED <<streams, format>> ELSE OpenPulseStream
    /\ recording_initialized' = TRUE

InitRecording ==
    /\ CanCall
    /\ InitRecordingDone
    /\ UNCHANGED <<initialized, recording, audio_callback, joinable, caller, loop, loopBroke, terminated>>

\* StartRecording up to recording_.exchange(true).
StartRecording ==
    /\ CanCall
    /\ IF recording_initialized THEN UNCHANGED <<recording_initialized, streams, format>> ELSE InitRecordingDone
    /\ recording' = TRUE
    /\ caller' = IF recording THEN Idle ELSE At("StartRecording", "spawn")
    /\ UNCHANGED <<initialized, audio_callback, joinable, loop, loopBroke, terminated>>

\* capture_thread_ = std::thread(...), which may not overwrite a joinable one.
Spawn ==
    /\ caller.at = "spawn" /\ ~terminated
    /\ caller' = Idle
    /\ IF joinable
       THEN terminated' = TRUE /\ UNCHANGED <<joinable, loop>>
       ELSE joinable' = TRUE /\ loop' = [NoLoop EXCEPT !.at = "start"] /\ UNCHANGED terminated
    /\ UNCHANGED <<flags, recording, streams, audio_callback, loopBroke, format>>

\* Mutants of StopBegins: the join is left out; the flag is read, not cleared.
StopBegins_NoJoin(op) ==
    /\ recording' = FALSE
    /\ caller' = At(op, "close")

StopBegins_FlagLeft(op) ==
    /\ UNCHANGED recording
    /\ caller' = At(op, IF recording /\ joinable THEN "join" ELSE "close")

\* StopRecording up to the test of recording_.exchange(false).
StopBegins(op) ==
    /\ recording' = FALSE
    /\ caller' = At(op, IF recording /\ joinable THEN "join" ELSE "close")

\* StopRecording itself, Terminate and the destructor all begin with it.
StopRecording ==
    /\ CanCall
    /\ \E op \in {"StopRecording", "Terminate", "Destroy"} : StopBegins(op)
    /\ UNCHANGED <<flags, streams, audio_callback, joinable, loop, loopBroke, terminated, format>>

Join ==
    /\ caller.at = "join" /\ loop.at \in {"none", "ended"} /\ ~terminated
    /\ joinable' = FALSE
    /\ caller' = At(caller.op, "close")
    /\ UNCHANGED <<flags, recording, streams, audio_callback, loop, loopBroke, terminated, format>>

\* ClosePulseStreamLocked, and what Terminate and the destructor do after it.
ClosePulseStream ==
    /\ caller.at = "close" /\ ~terminated
    /\ stream' = NoStream
    /\ IF caller.op = "StopRecording" THEN UNCHANGED flags
       ELSE initialized' = FALSE /\ recording_initialized' = FALSE
    /\ caller' = IF caller.op = "Destroy" THEN At("Destroy", "members") ELSE Idle
    /\ UNCHANGED <<recording, opened, audio_callback, joinable, loop, loopBroke, terminated, format>>

\* ~std::thread, at the end of the destructor.
DestroyMembers ==
    /\ caller.at = "members" /\ ~terminated
    /\ terminated' = joinable
    /\ caller' = At("Destroy", "gone")
    /\ UNCHANGED <<flags, recording, streams, audio_callback, joinable, loop, loopBroke, format>>

-----------------------------------------------------------------------------
\* The buffer is sized before the loop.
LoopStart ==
    /\ loop.at = "start" /\ ~terminated
    /\ loop' = [loop EXCEPT !.at = "test", !.channels = channels]
    /\ UNCHANGED <<flags, recording, streams, audio_callback, joinable, caller, loopBroke, terminated, format>>

\* while (recording_.load())
LoopTest ==
    /\ loop.at = "test" /\ ~terminated
    /\ loop' = [loop EXCEPT !.at = IF recording THEN "copy" ELSE "store"]
    /\ UNCHANGED <<flags, recording, streams, audio_callback, joinable, caller, loopBroke, terminated, format>>

Copied == [loop EXCEPT !.at = "read", !.stream = stream, !.callback = audio_callback]

\* The block under mutex_; without a stream the loop breaks.
LoopCopy ==
    /\ loop.at = "copy" /\ ~terminated
    /\ loop' = IF stream = NoStream THEN [loop EXCEPT !.at = "store"] ELSE Copied
    /\ loopBroke' = (loopBroke \/ stream = NoStream)
    /\ UNCHANGED <<flags, recording, streams, audio_callback, joinable, caller, terminated, format>>

\* pa_simple_read blocks until there is a buffer; without callback it is dropped.
LoopRead ==
    /\ loop.at = "read" /\ ~terminated
    /\ loop' = [loop EXCEPT !.at = IF loop.callback THEN "deliver" ELSE "test"]
    /\ UNCHANGED <<flags, recording, streams, audio_callback, joinable, caller, loopBroke, terminated, format>>

LoopReadFails ==
    /\ loop.at = "read" /\ ~terminated
    /\ loop' = [loop EXCEPT !.at = "store"]
    /\ loopBroke' = TRUE
    /\ UNCHANGED <<flags, recording, streams, audio_callback, joinable, caller, terminated, format>>

\* pa_simple_get_latency and RecordedDataIsAvailable, which is told channels_.
LoopDeliver ==
    /\ loop.at = "deliver" /\ ~terminated
    /\ loop' = [loop EXCEPT !.at = "test"]
    /\ UNCHANGED <<flags, recording, streams, audio_callback, joinable, caller, loopBroke, terminated, format>>

\* Mutant of StoredFlag: recording_.store(false) is missing after the loop.
StoredFlag_Kept == recording

StoredFlag == FALSE

\* recording_.store(false), the end of the thread.
LoopEnds ==
    /\ loop.at = "store" /\ ~terminated
    /\ recording' = StoredFlag
    /\ loop' = [NoLoop EXCEPT !.at = "ended"]
    /\ UNCHANGED <<flags, streams, audio_callback, joinable, caller, loopBroke, terminated, format>>

-----------------------------------------------------------------------------
Call == RegisterAudioCallback \/ InitDevice \/ SetStereoRecording \/ InitRecording \/ StartRecording \/ StopRecording

Continue == Spawn \/ Join \/ ClosePulseStream \/ DestroyMembers

CaptureLoop == LoopStart \/ LoopTest \/ LoopCopy \/ LoopRead \/ LoopReadFails \/ LoopDeliver \/ LoopEnds

Next == Call \/ Continue \/ CaptureLoop

\* Threads run, and a read of an open stream returns.
Fairness == WF_vars(Continue) /\ WF_vars(CaptureLoop)

Spec == Init /\ [][Next]_vars
FairSpec == Spec /\ Fairness

-----------------------------------------------------------------------------
Places == {"none", "start", "test", "copy", "read", "deliver", "store", "ended"}
Ops == {"none", "StartRecording", "StopRecording", "Terminate", "Destroy"}
Points == {"idle", "spawn", "join", "close", "members", "gone"}

TypeOK ==
    /\ initialized \in BOOLEAN /\ recording_initialized \in BOOLEAN /\ recording \in BOOLEAN
    /\ audio_callback \in BOOLEAN /\ joinable \in BOOLEAN
    /\ loopBroke \in BOOLEAN /\ terminated \in BOOLEAN
    /\ opened \in 0..MaxStreams /\ stream \in 0..opened
    /\ caller \in [op : Ops, at : Points]
    /\ loop \in [at : Places, stream : 0..MaxStreams, callback : BOOLEAN, channels : 0..2]
    /\ channels \in {1, 2} /\ spec \in {1, 2} /\ respecified \in BOOLEAN

Capturing == loop.at \notin {"none", "ended"}

(***************************************************************************)
(* The stream the capture thread is reading is not freed under it: stream_ *)
(* is copied under the mutex and used outside it.                          *)
(***************************************************************************)
NoFreeUnderRead == loop.at \in {"read", "deliver"} => stream # NoStream /\ stream = loop.stream

(***************************************************************************)
(* Between calls recording_ tells the truth: after StopRecording nothing   *)
(* is read or delivered any more, and Recording() is not true of a device  *)
(* whose capture thread has ended.                                         *)
(***************************************************************************)
RecordingIffCapturing == caller = Idle /\ ~terminated => (recording <=> Capturing)

(***************************************************************************)
(* std::terminate - a capture thread started over, or destroyed with, one  *)
(* that was not joined - takes a capture loop that ended by itself, on a   *)
(* read error or without a stream.                                         *)
(***************************************************************************)
TerminateNeedsBreak == terminated => loopBroke

(***************************************************************************)
(* StopRecording, Terminate and the destructor return: the capture thread  *)
(* that they join always gets to its end.                                  *)
(***************************************************************************)
StopReturns == (caller.at \in {"join", "close", "members"}) ~> (caller.at \in {"idle", "gone"} \/ terminated)

(***************************************************************************)
(* What is delivered as mono or stereo was recorded as that and fills its  *)
(* buffer, unless SetStereoRecording has changed channels_ since the       *)
(* stream was opened: stream, buffer and the delivery each take it from    *)
(* channels_ at a time of their own (:508, :556, :600), without a lock.    *)
(***************************************************************************)
DeliversAsRecorded ==
    loop.at = "deliver" /\ ~respecified => channels = spec /\ loop.channels = spec
=============================================================================
