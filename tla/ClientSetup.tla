---------------------------- MODULE ClientSetup ----------------------------
(***************************************************************************)
(* Init of one push client after the other, in a process started on any    *)
(* desktop, while PulseAudio's sources come and go: CaptureEnvironment up  *)
(* to the open audio stream, MediaConfig from there.                       *)
(***************************************************************************)
EXTENDS CaptureEnvironment, MediaConfig

vars == <<envVars, mediaVars>>

Init == EnvInit /\ MediaInit

Next ==
    \/ EnvStep /\ UNCHANGED mediaVars
    \/ \E c \in Clients : OpenPulseStream(c) /\ MediaStart
    \/ MediaStep /\ UNCHANGED envVars
    \/ \E c \in Clients : MediaFails /\ InitEnds(c, "refused")
    \/ \E c \in Clients : MediaDone /\ InitEnds(c, "ready")

Spec == Init /\ [][Next]_vars

-----------------------------------------------------------------------------
TypeOK ==
    /\ qt_platform \in QtPlatforms /\ session_type \in SessionTypes /\ wayland_display \in BOOLEAN
    /\ pulse_source \in Sources \cup {None}
    /\ xthreads \in BOOLEAN /\ runtime \in {"starting", "running", "refused"}
    /\ sources \subseteq Sources
    /\ stage \in [Clients -> {"new", "video", "module", "tracks", "ready", "refused"}]
    /\ backend \in [Clients -> {"none", "x11", "pipewire"}]
    /\ source_name \in [Clients -> Sources \cup {None}]
    /\ recorded \in [Clients -> Sources \cup {None}]
    /\ user \in [qt_platform : QtPlatforms, pulse_source : Sources \cup {None}]
    /\ alone \subseteq Clients /\ lost \in BOOLEAN /\ missed \subseteq Clients
    /\ step \in {"off", "video", "audio", "codecs", "parameters"}
    /\ codecs \in CodecLists
    /\ at \in 1..(Len(codecs) + 1)
    /\ preferred \in Seq(Nat)

(***************************************************************************)
(* main.cpp:44 wants Xlib's threads initialised before X11 is used, but    *)
(* goes by Qt's platform; the capture goes by the session and by WebRTC    *)
(* (pushclient.cpp:190, :221).  So the screen is captured through X11      *)
(* without XInitThreads, but only where the user set Qt to Wayland or left *)
(* it open on a desktop with a sign of Wayland: on no other desktop, and   *)
(* for no user who chose another platform.                                 *)
(***************************************************************************)
WaylandSigned ==
    \/ user.qt_platform = "wayland"
    \/ user.qt_platform = "" /\ (session_type = "wayland" \/ wayland_display)

BareX11OnlyIfWaylandSigned ==
    \A c \in Clients : backend[c] = "x11" /\ ~xthreads => WaylandSigned

(***************************************************************************)
(* All push clients whose audio device module was given a name record the  *)
(* same source, however the sources change (pushclient.cpp:130).           *)
(***************************************************************************)
SameSource ==
    \A c, d \in Clients :
        /\ source_name[c] # None /\ recorded[c] # None
        /\ source_name[d] # None /\ recorded[d] # None
        => recorded[c] = recorded[d]

(***************************************************************************)
(* Something that is no monitor, a microphone, is recorded only if the     *)
(* user named it, or pactl listed no monitor when the audio device module  *)
(* was made (pushclient.cpp:140).                                          *)
(***************************************************************************)
MicrophoneOnlyIfAlone ==
    \A c \in Clients :
        recorded[c] \in Sources \ Monitors => c \in alone \/ user.pulse_source # None

(***************************************************************************)
(* A push client is refused for its audio while there is a monitor only if *)
(* the user named the source, or the source that was found first has been  *)
(* away since: PULSE_SOURCE is not set again (pushclient.cpp:131).         *)
(***************************************************************************)
RefusedOnlyIfLost == missed # {} => lost \/ user.pulse_source # None

(***************************************************************************)
(* When the loop is over, every codec WebRTC can send is among the         *)
(* preferences, once; Opus comes first, the last entry of it foremost, and *)
(* the others follow in their order (pushclient.cpp:1070).                 *)
(***************************************************************************)
Opus(i) == codecs[i] = "opus"

Precedes(i, j) ==
    \/ Opus(i) /\ ~Opus(j)
    \/ Opus(i) /\ Opus(j) /\ i > j
    \/ ~Opus(i) /\ ~Opus(j) /\ i < j

OpusFirst ==
    step \in {"codecs", "parameters"} /\ at > Len(codecs) =>
        /\ Len(preferred) = Len(codecs)
        /\ \A i \in 1..Len(codecs) : \E k \in DOMAIN preferred : preferred[k] = i
        /\ \A k, l \in DOMAIN preferred : k < l => Precedes(preferred[k], preferred[l])
=============================================================================
