------------------------ MODULE CaptureEnvironment ------------------------
(***************************************************************************)
(* What the sender makes of the desktop it runs on: Qt's platform and      *)
(* Xlib's threads (InitializePlatformRuntime, main.cpp), the backends that *)
(* a screen capture may use (IsWaylandSession, pushclient.cpp), the source *)
(* of the system's audio, which is named once for the whole process by     *)
(* PULSE_SOURCE while PulseAudio's sources come and go.                    *)
(*                                                                         *)
(* The module has actions and no specification of its own: ClientSetup     *)
(* puts it together with MediaConfig.                                      *)
(***************************************************************************)
CONSTANTS
    Clients,    \* push clients
    Sources,    \* sources PulseAudio may have
    Monitors,   \* those that pactl lists with "monitor" in their line
    None,       \* no source: an empty name
    HasPactl    \* whether pactl can be run

ASSUME MonitorsAreSources == Monitors \subseteq Sources
ASSUME NoneIsNoSource == None \notin Sources
ASSUME PactlOrNot == HasPactl \in BOOLEAN

VARIABLES
    qt_platform,    \* QT_QPA_PLATFORM
    session_type,   \* XDG_SESSION_TYPE
    wayland_display,\* whether WAYLAND_DISPLAY is set to something
    pulse_source,   \* PULSE_SOURCE
    xthreads,       \* whether XInitThreads has succeeded
    runtime,        \* "starting", "running", or "refused" (main returns 3)
    sources,        \* the sources PulseAudio has now
    stage,          \* push client -> how far its Init is
    backend,        \* push client -> how WebRTC captures the screen for it
    source_name,    \* push client -> source_name_ of its audio device module
    recorded,       \* push client -> the source its stream is connected to
    user,           \* history: QT_QPA_PLATFORM and PULSE_SOURCE as the user set them
    alone,          \* history: push clients whose module was made while pactl listed no monitor
    lost,           \* history: the source in PULSE_SOURCE has gone since it was put there
    missed          \* history: push clients refused for their audio while there was a monitor

desktop == <<qt_platform, session_type, wayland_display, pulse_source, xthreads, runtime, user>>
audio == <<source_name, recorded, alone, missed>>
envVars == <<desktop, sources, lost, stage, backend, audio>>

\* Unset and "other" differ for main only; an unset session is like any other.
QtPlatforms == {"", "xcb", "wayland", "other"}
SessionTypes == {"x11", "wayland", "other"}

EnvInit ==
    /\ qt_platform \in QtPlatforms /\ session_type \in SessionTypes /\ wayland_display \in BOOLEAN
    /\ pulse_source \in Sources \cup {None}
    /\ xthreads = FALSE /\ runtime = "starting"
    /\ sources \in SUBSET Sources
    /\ stage = [c \in Clients |-> "new"]
    /\ backend = [c \in Clients |-> "none"]
    /\ source_name = [c \in Clients |-> None]
    /\ recorded = [c \in Clients |-> None]
    /\ user = [qt_platform |-> qt_platform, pulse_source |-> pulse_source]
    /\ alone = {} /\ lost = FALSE /\ missed = {}

-----------------------------------------------------------------------------
\* Mutant of PlatformName: the session is not looked at.
PlatformName_PluginOnly(autostart, plugin) ==
    IF ~autostart /\ qt_platform = "" /\ plugin THEN "wayland" ELSE qt_platform

\* QT_QPA_PLATFORM after main has looked at the session and for Qt's plugin.
PlatformName(autostart, plugin) ==
    IF /\ ~autostart /\ qt_platform = "" /\ plugin
       /\ session_type = "wayland" \/ wayland_display
    THEN "wayland" ELSE qt_platform

InitializePlatformRuntime(autostart, plugin) ==
    /\ runtime = "starting"
    /\ qt_platform' = PlatformName(autostart, plugin)
    /\ \/ qt_platform' = "wayland" /\ runtime' = "running" /\ xthreads' = FALSE
       \/ qt_platform' # "wayland" /\ runtime' = "running" /\ xthreads' = TRUE
       \/ qt_platform' # "wayland" /\ runtime' = "refused" /\ xthreads' = FALSE
    /\ UNCHANGED <<session_type, wayland_display, pulse_source, user, sources, lost, stage, backend, audio>>

IsWaylandSession ==
    /\ qt_platform # "xcb"
    /\ session_type = "wayland" \/ (session_type # "x11" /\ wayland_display)

\* Push clients are set up by the Qt thread, one after the other.
Idle == runtime = "running" /\ \A c \in Clients : stage[c] \in {"new", "ready", "refused"}

\* set_allow_pipewire permits PipeWire; CreateScreenCapturer has its own idea of
\* the session and may choose X11 all the same.
Backends == {"x11"} \cup (IF IsWaylandSession THEN {"pipewire"} ELSE {})

\* PrepareDesktopVideoSource; without a capturer, for want of PipeWire or for
\* another reason, Init is over.
PrepareVideo(c) ==
    /\ Idle /\ stage[c] = "new"
    /\ \/ /\ \E b \in Backends : backend' = [backend EXCEPT ![c] = b]
          /\ stage' = [stage EXCEPT ![c] = "video"]
       \/ /\ stage' = [stage EXCEPT ![c] = "refused"]
          /\ UNCHANGED backend
    /\ UNCHANGED <<desktop, sources, lost, audio>>

\* Mutant of MonitorFound: the first line is taken, whatever it says.
MonitorFound_AnyLine == IF HasPactl THEN sources ELSE {}

\* The sources of which pactl lists a monitor first; the order is not known.
MonitorFound == IF HasPactl THEN sources \cap Monitors ELSE {}

\* Mutant of NewPulseSource: the source is looked for again for each client.
NewPulseSource_Again == IF MonitorFound = {} THEN {None} ELSE MonitorFound

\* OverridePulseSourceWithMonitorIfAvailable.
NewPulseSource ==
    IF pulse_source # None THEN {pulse_source}
    ELSE IF MonitorFound = {} THEN {None} ELSE MonitorFound

\* CreatePlatformAudioDeviceModule, in a build with PulseAudio's simple API.
MakeAudioModule(c) ==
    /\ stage[c] = "video"
    /\ pulse_source' \in NewPulseSource
    /\ source_name' = [source_name EXCEPT ![c] = pulse_source']
    /\ stage' = [stage EXCEPT ![c] = "module"]
    /\ alone' = IF sources \cap Monitors = {} \/ ~HasPactl THEN alone \cup {c} ELSE alone
    /\ UNCHANGED <<qt_platform, session_type, wayland_display, xthreads, runtime, user,
                   sources, lost, backend, recorded, missed>>

\* Mutant of Connectable: the stream asks for the name the device is shown by.
Connectable_Label(c) == IF source_name[c] = None THEN sources ELSE {}

\* What pa_simple_new may connect to; an empty name is PulseAudio's default.
Connectable(c) ==
    IF source_name[c] = None THEN sources ELSE sources \cap {source_name[c]}

\* The end of ConfigureAudioCaptureDevice: InitRecording, OpenPulseStreamLocked.
\* The module has one device, which is always available and named a monitor.
OpenPulseStream(c) ==
    /\ stage[c] = "module" /\ Connectable(c) # {}
    /\ \E s \in Connectable(c) : recorded' = [recorded EXCEPT ![c] = s]
    /\ stage' = [stage EXCEPT ![c] = "tracks"]
    /\ UNCHANGED <<desktop, sources, lost, backend, source_name, alone, missed>>

OpenFails(c) ==
    /\ stage[c] = "module" /\ Connectable(c) = {}
    /\ stage' = [stage EXCEPT ![c] = "refused"]
    /\ missed' = IF sources \cap Monitors # {} THEN missed \cup {c} ELSE missed
    /\ UNCHANGED <<desktop, sources, lost, backend, source_name, recorded, alone>>

\* Sinks are plugged in and out, and their monitors with them.
SourceComes(s) ==
    /\ s \notin sources
    /\ sources' = sources \cup {s}
    /\ UNCHANGED <<desktop, lost, stage, backend, audio>>

SourceGoes(s) ==
    /\ s \in sources
    /\ sources' = sources \ {s}
    /\ lost' = (lost \/ s = pulse_source)
    /\ UNCHANGED <<desktop, stage, backend, audio>>

\* Init is over: the client is kept, or refused and dropped.
InitEnds(c, how) ==
    /\ stage[c] = "tracks"
    /\ stage' = [stage EXCEPT ![c] = how]
    /\ UNCHANGED <<desktop, sources, lost, backend, audio>>

EnvStep ==
    \/ \E autostart, plugin \in BOOLEAN : InitializePlatformRuntime(autostart, plugin)
    \/ \E c \in Clients : PrepareVideo(c) \/ MakeAudioModule(c) \/ OpenFails(c)
    \/ \E s \in Sources : SourceComes(s) \/ SourceGoes(s)
=============================================================================
