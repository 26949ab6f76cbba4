------------------------- MODULE ClientSetupProofs -------------------------
(***************************************************************************)
(* The properties of ClientSetup hold for any number of push clients and   *)
(* sources, and for capability lists of any length.  One invariant each    *)
(* carries them: for X11, where XInitThreads was left out and why; for the *)
(* audio, that a name given to a module is the one PULSE_SOURCE has kept,  *)
(* and what it may be; for the codecs, a loop invariant.                   *)
(***************************************************************************)
EXTENDS ClientSetup, TLAPS

\* XInitThreads is left out only for Qt's Wayland platform, for which the
\* user asked, or the session.
Threads ==
    /\ runtime = "starting" => qt_platform = user.qt_platform /\ \A c \in Clients : backend[c] = "none"
    /\ runtime = "running" =>
          \/ xthreads
          \/ /\ qt_platform = "wayland"
             /\ WaylandSigned

\* PULSE_SOURCE is a monitor that is there, or has been away, or what the user set.
Pinned ==
    pulse_source # None /\ user.pulse_source = None =>
        pulse_source \in Monitors /\ (pulse_source \in sources \/ lost)

\* The names that modules have been given, and what they have been given for.
Named ==
    \A c \in Clients :
        /\ source_name[c] # None => source_name[c] = pulse_source
        /\ stage[c] \in {"new", "video"} => source_name[c] = None
        /\ stage[c] \in {"new", "video", "module"} => recorded[c] = None
        /\ stage[c] = "module" /\ source_name[c] = None => c \in alone \/ user.pulse_source # None
        /\ recorded[c] # None =>
              \/ source_name[c] # None /\ recorded[c] = source_name[c]
              \/ source_name[c] = None /\ (c \in alone \/ user.pulse_source # None)

\* What the loop has put in order before entry at.
Loop ==
    /\ Len(preferred) = at - 1
    /\ \A k \in DOMAIN preferred : preferred[k] \in 1..(at - 1)
    /\ \A i \in 1..(at - 1) : \E k \in DOMAIN preferred : preferred[k] = i
    /\ \A k, l \in DOMAIN preferred : k < l => Precedes(preferred[k], preferred[l])

IInv == TypeOK /\ Threads /\ BareX11OnlyIfWaylandSigned /\ Pinned /\ Named /\ RefusedOnlyIfLost /\ Loop

-----------------------------------------------------------------------------
LEMMA CodecListsAreSequences ==
    ASSUME NEW q \in CodecLists
    PROVE  q \in Seq(Codec) /\ Len(q) \in Nat /\ DOMAIN q = 1..Len(q)
<1>1. PICK n \in 0..MaxCodecs : q \in [1..n -> Codec]
  BY DEF CodecLists
<1>2. n \in Nat
  BY <1>1, CodecBound
<1>3. q \in Seq(Codec)
  BY <1>1, <1>2
<1> QED
  BY <1>3

LEMMA EmptyIsAList == <<>> \in CodecLists
<1>1. <<>> \in [1..0 -> Codec]
  OBVIOUS
<1> QED
  BY <1>1, CodecBound DEF CodecLists

LEMMA SetupInit == Init => IInv
<1> SUFFICES ASSUME Init PROVE IInv
  OBVIOUS
<1>1. TypeOK
  <2>1. codecs \in CodecLists /\ at \in 1..(Len(codecs) + 1) /\ preferred \in Seq(Nat)
    BY EmptyIsAList DEF Init, MediaInit
  <2>2. user \in [qt_platform : QtPlatforms, pulse_source : Sources \cup {None}]
    BY DEF Init, EnvInit
  <2> QED
    BY <2>1, <2>2 DEF Init, EnvInit, MediaInit, TypeOK
<1>2. Threads /\ BareX11OnlyIfWaylandSigned
  BY DEF Init, EnvInit, Threads, BareX11OnlyIfWaylandSigned
<1>3. Pinned /\ Named /\ RefusedOnlyIfLost
  BY DEF Init, EnvInit, Pinned, Named, RefusedOnlyIfLost
<1>4. Loop
  BY DEF Init, MediaInit, Loop
<1> QED
  BY <1>1, <1>2, <1>3, <1>4 DEF IInv

-----------------------------------------------------------------------------
EnvTypes ==
    /\ qt_platform \in QtPlatforms /\ session_type \in SessionTypes /\ wayland_display \in BOOLEAN
    /\ pulse_source \in Sources \cup {None}
    /\ xthreads \in BOOLEAN /\ runtime \in {"starting", "running", "refused"}
    /\ sources \subseteq Sources
    /\ stage \in [Clients -> {"new", "video", "module", "tracks", "ready", "refused"}]
    /\ backend \in [Clients -> {"none", "x11", "pipewire"}]
    /\ source_name \in [Clients -> Sources \cup {None}]
    /\ recorded \in [Clients -> Sources \cup {None}]
    /\ user \in [qt_platform : QtPlatforms, pulse_source : Sources \cup {None}]
    /\ alone \subseteq Clients /\ lost \in BOOLEAN /\ missed \subseteq Clients

MediaTypes ==
    /\ step \in {"off", "video", "audio", "codecs", "parameters"}
    /\ codecs \in CodecLists
    /\ at \in 1..(Len(codecs) + 1)
    /\ preferred \in Seq(Nat)

EInv == EnvTypes /\ Threads /\ BareX11OnlyIfWaylandSigned /\ Pinned /\ Named /\ RefusedOnlyIfLost

MInv == MediaTypes /\ Loop

LEMMA TwoParts == IInv <=> EInv /\ MInv
BY DEF IInv, EInv, MInv, TypeOK, EnvTypes, MediaTypes

\* A step of one push client that leaves the desktop and the sources alone.
LEMMA ClientStep ==
    ASSUME EInv, NEW c \in Clients,
           PrepareVideo(c) \/ MakeAudioModule(c) \/ OpenPulseStream(c) \/ OpenFails(c)
              \/ InitEnds(c, "refused") \/ InitEnds(c, "ready")
    PROVE  EInv'
<1> USE DEF EInv
<1>1. CASE PrepareVideo(c)
  <2>0. /\ stage' \in [Clients -> {"new", "video", "module", "tracks", "ready", "refused"}]
        /\ backend' \in [Clients -> {"none", "x11", "pipewire"}]
    <3>1. Backends \subseteq {"x11", "pipewire"}
      BY DEF Backends
    <3> QED
      BY <1>1, <3>1 DEF PrepareVideo, EnvTypes
  <2>1. EnvTypes'
    BY <1>1, <2>0 DEF PrepareVideo, EnvTypes, desktop, audio
  <2>2. Threads' /\ Pinned' /\ RefusedOnlyIfLost'
    BY <1>1 DEF PrepareVideo, Threads, WaylandSigned, Pinned, RefusedOnlyIfLost, desktop, audio, Idle
  <2>3. Named'
    BY <1>1 DEF PrepareVideo, Named, desktop, audio, EnvTypes
  <2>4. BareX11OnlyIfWaylandSigned'
    <3>1. (WaylandSigned' <=> WaylandSigned) /\ xthreads' = xthreads
      BY <1>1 DEF PrepareVideo, WaylandSigned, desktop
    <3>2. xthreads \/ WaylandSigned
      BY <1>1 DEF PrepareVideo, Idle, Threads
    <3> QED
      BY <3>1, <3>2 DEF BareX11OnlyIfWaylandSigned
  <2> QED
    BY <2>1, <2>2, <2>3, <2>4
<1>2. CASE MakeAudioModule(c)
  <2>1. /\ stage[c] = "video" /\ stage' = [stage EXCEPT ![c] = "module"]
        /\ pulse_source' \in NewPulseSource
        /\ source_name' = [source_name EXCEPT ![c] = pulse_source']
        /\ alone' = IF sources \cap Monitors = {} \/ ~HasPactl THEN alone \cup {c} ELSE alone
        /\ UNCHANGED <<qt_platform, session_type, wayland_display, xthreads, runtime, user,
                       sources, lost, backend, recorded, missed>>
    BY <1>2 DEF MakeAudioModule, audio
  <2>2. /\ pulse_source # None => pulse_source' = pulse_source
        /\ pulse_source = None /\ pulse_source' # None => pulse_source' \in sources \cap Monitors
        /\ pulse_source' = None => pulse_source = None /\ c \in alone'
        /\ pulse_source' \in Sources \cup {None}
    <3>1. MonitorFound \subseteq sources \cap Monitors
      BY DEF MonitorFound
    <3>2. MonitorFound = {} => c \in alone'
      BY <2>1 DEF MonitorFound
    <3>3. None \notin MonitorFound /\ MonitorFound \subseteq Sources
      BY <3>1, NoneIsNoSource DEF EnvTypes
    <3>4. CASE pulse_source # None
      BY <2>1, <3>4 DEF NewPulseSource, EnvTypes
    <3>5. CASE pulse_source = None
      BY <2>1, <3>1, <3>2, <3>3, <3>5 DEF NewPulseSource
    <3> QED
      BY <3>4, <3>5
  <2>3. EnvTypes'
    BY <2>1, <2>2 DEF EnvTypes
  <2>4. Threads' /\ BareX11OnlyIfWaylandSigned' /\ RefusedOnlyIfLost'
    BY <2>1 DEF Threads, BareX11OnlyIfWaylandSigned, WaylandSigned, RefusedOnlyIfLost
  <2>5. Pinned'
    BY <2>1, <2>2 DEF Pinned
  <2>6. Named'
    <3>1. \A d \in Clients : d # c => source_name'[d] = source_name[d] /\ stage'[d] = stage[d]
      BY <2>1 DEF EnvTypes
    <3>2. source_name'[c] = pulse_source' /\ stage'[c] = "module" /\ recorded'[c] = None
      BY <2>1 DEF EnvTypes, Named
    <3>3. \A d \in Clients : source_name[d] # None => source_name[d] = pulse_source'
      BY <2>2 DEF Named
    <3>4. alone \subseteq alone'
      BY <2>1
    <3> QED
      BY <2>1, <2>2, <3>1, <3>2, <3>3, <3>4 DEF Named
  <2> QED
    BY <2>3, <2>4, <2>5, <2>6
<1>3. CASE OpenPulseStream(c)
  <2>1. PICK s \in Connectable(c) : recorded' = [recorded EXCEPT ![c] = s]
    BY <1>3 DEF OpenPulseStream
  <2>2. s \in Sources /\ s # None /\ (source_name[c] # None => s = source_name[c])
    BY <2>1, NoneIsNoSource DEF Connectable, EnvTypes
  <2>3. /\ stage[c] = "module" /\ stage' = [stage EXCEPT ![c] = "tracks"]
        /\ UNCHANGED <<desktop, sources, lost, backend, source_name, alone, missed>>
    BY <1>3 DEF OpenPulseStream
  <2>4. EnvTypes'
    BY <2>1, <2>2, <2>3 DEF EnvTypes, desktop
  <2>5. Threads' /\ BareX11OnlyIfWaylandSigned' /\ RefusedOnlyIfLost' /\ Pinned'
    BY <2>3 DEF Threads, BareX11OnlyIfWaylandSigned, WaylandSigned, RefusedOnlyIfLost, Pinned, desktop
  <2>6. Named'
    <3>1. \A d \in Clients : d # c => recorded'[d] = recorded[d] /\ stage'[d] = stage[d]
      BY <2>1, <2>3 DEF EnvTypes
    <3>2. recorded'[c] = s /\ stage'[c] = "tracks"
      BY <2>1, <2>3 DEF EnvTypes
    <3> QED
      BY <2>2, <2>3, <3>1, <3>2 DEF Named, desktop
  <2> QED
    BY <2>4, <2>5, <2>6
<1>4. CASE OpenFails(c)
  <2>1. /\ stage[c] = "module" /\ stage' = [stage EXCEPT ![c] = "refused"] /\ Connectable(c) = {}
        /\ missed' = IF sources \cap Monitors # {} THEN missed \cup {c} ELSE missed
        /\ UNCHANGED <<desktop, sources, lost, backend, source_name, recorded, alone>>
    BY <1>4 DEF OpenFails
  <2>2. EnvTypes'
    BY <2>1 DEF EnvTypes, desktop
  <2>3. Threads' /\ BareX11OnlyIfWaylandSigned' /\ Pinned'
    BY <2>1 DEF Threads, BareX11OnlyIfWaylandSigned, WaylandSigned, Pinned, desktop
  <2>4. Named'
    BY <2>1 DEF Named, EnvTypes, desktop
  <2>5. RefusedOnlyIfLost'
    <3>1. sources \cap Monitors # {} => source_name[c] # None /\ pulse_source # None /\ pulse_source \notin sources
      BY <2>1 DEF Connectable, Named
    <3> QED
      BY <2>1, <3>1 DEF RefusedOnlyIfLost, Pinned, desktop
  <2> QED
    BY <2>2, <2>3, <2>4, <2>5
<1>5. ASSUME NEW how \in {"ready", "refused"}, InitEnds(c, how) PROVE EInv'
  <2>1. /\ stage[c] = "tracks" /\ stage' = [stage EXCEPT ![c] = how]
        /\ UNCHANGED <<desktop, sources, lost, backend, audio>>
    BY <1>5 DEF InitEnds
  <2>2. EnvTypes'
    BY <2>1 DEF EnvTypes, desktop, audio
  <2>3. Threads' /\ BareX11OnlyIfWaylandSigned' /\ RefusedOnlyIfLost' /\ Pinned'
    BY <2>1 DEF Threads, BareX11OnlyIfWaylandSigned, WaylandSigned, RefusedOnlyIfLost, Pinned, desktop, audio
  <2>4. Named'
    BY <2>1 DEF Named, EnvTypes, desktop, audio
  <2> QED
    BY <2>2, <2>3, <2>4
<1> QED
  BY <1>1, <1>2, <1>3, <1>4, <1>5

\* Steps of the desktop.
LEMMA DesktopStep ==
    ASSUME EInv,
           \/ \E autostart, plugin \in BOOLEAN : InitializePlatformRuntime(autostart, plugin)
           \/ \E s \in Sources : SourceComes(s) \/ SourceGoes(s)
    PROVE  EInv'
<1> USE DEF EInv
<1>1. ASSUME NEW autostart \in BOOLEAN, NEW plugin \in BOOLEAN, InitializePlatformRuntime(autostart, plugin)
      PROVE  EInv'
  <2>1. /\ runtime = "starting"
        /\ UNCHANGED <<session_type, wayland_display, pulse_source, user, sources, lost, stage, backend, audio>>
        /\ qt_platform' = PlatformName(autostart, plugin)
        /\ runtime' = "running" => xthreads' \/ qt_platform' = "wayland"
        /\ runtime' \in {"running", "refused"} /\ xthreads' \in BOOLEAN
    BY <1>1 DEF InitializePlatformRuntime
  <2>2. /\ qt_platform' \in QtPlatforms
        /\ qt_platform' = "wayland" => WaylandSigned'
    BY <2>1 DEF PlatformName, EnvTypes, QtPlatforms, Threads, WaylandSigned
  <2>3. EnvTypes'
    BY <2>1, <2>2 DEF EnvTypes, audio
  <2>4. Threads'
    BY <2>1, <2>2 DEF Threads
  <2>5. BareX11OnlyIfWaylandSigned'
    BY <2>1 DEF Threads, BareX11OnlyIfWaylandSigned
  <2>6. Pinned' /\ Named' /\ RefusedOnlyIfLost'
    BY <2>1 DEF Pinned, Named, RefusedOnlyIfLost, audio
  <2> QED
    BY <2>3, <2>4, <2>5, <2>6
<1>2. ASSUME NEW s \in Sources, SourceComes(s) \/ SourceGoes(s) PROVE EInv'
  <2>1. /\ UNCHANGED <<desktop, stage, backend, audio>>
        /\ \/ sources' = sources \cup {s} /\ lost' = lost
           \/ sources' = sources \ {s} /\ lost' = (lost \/ s = pulse_source)
    BY <1>2 DEF SourceComes, SourceGoes
  <2>2. EnvTypes'
    <3>1. sources' \subseteq Sources
      BY <2>1 DEF EnvTypes
    <3>3. lost' \in BOOLEAN
      BY <2>1, Zenon DEF EnvTypes
    <3>2. UNCHANGED <<desktop, stage, backend, audio>>
      BY <2>1
    <3> QED
      BY <3>1, <3>2, <3>3 DEF EnvTypes, desktop, audio
  <2>3. Threads' /\ BareX11OnlyIfWaylandSigned' /\ Named'
    BY <2>1 DEF Threads, BareX11OnlyIfWaylandSigned, WaylandSigned, Named, desktop, audio
  <2>4. Pinned' /\ RefusedOnlyIfLost'
    BY <2>1 DEF Pinned, RefusedOnlyIfLost, desktop, audio
  <2> QED
    BY <2>2, <2>3, <2>4
<1> QED
  BY <1>1, <1>2

-----------------------------------------------------------------------------
\* What one round of the loop makes of the list.
LEMMA PreferFacts ==
    ASSUME NEW q \in Seq(Nat), NEW n \in Nat
    PROVE  /\ Append(q, n) \in Seq(Nat) /\ Len(Append(q, n)) = Len(q) + 1
           /\ \A k \in DOMAIN Append(q, n) :
                 (k \in DOMAIN q /\ Append(q, n)[k] = q[k]) \/ (k = Len(q) + 1 /\ Append(q, n)[k] = n)
           /\ \A k \in DOMAIN q : k \in DOMAIN Append(q, n) /\ Append(q, n)[k] = q[k]
           /\ Len(q) + 1 \in DOMAIN Append(q, n) /\ Append(q, n)[Len(q) + 1] = n
           /\ <<n>> \o q \in Seq(Nat) /\ Len(<<n>> \o q) = Len(q) + 1
           /\ \A k \in DOMAIN (<<n>> \o q) :
                 (k - 1 \in DOMAIN q /\ (<<n>> \o q)[k] = q[k - 1]) \/ (k = 1 /\ (<<n>> \o q)[k] = n)
           /\ \A k \in DOMAIN q : k + 1 \in DOMAIN (<<n>> \o q) /\ (<<n>> \o q)[k + 1] = q[k]
           /\ 1 \in DOMAIN (<<n>> \o q) /\ (<<n>> \o q)[1] = n
BY SMTT(20)

LEMMA LoopStep ==
    ASSUME MInv, NextCodec
    PROVE  MInv'
<1> DEFINE n == Len(codecs)
<1>1. codecs \in CodecLists /\ n \in Nat /\ at \in 1..n /\ at \in Nat /\ preferred \in Seq(Nat)
  BY CodecListsAreSequences DEF MInv, MediaTypes, NextCodec
<1>2. /\ codecs' = codecs /\ step' = step /\ at' = at + 1
      /\ preferred' = IF Opus(at) THEN <<at>> \o preferred ELSE Append(preferred, at)
  BY DEF NextCodec, Prefer, Opus
<1>3. /\ Len(preferred) = at - 1
      /\ \A k \in DOMAIN preferred : preferred[k] \in 1..(at - 1)
      /\ \A i \in 1..(at - 1) : \E k \in DOMAIN preferred : preferred[k] = i
      /\ \A k, l \in DOMAIN preferred : k < l => Precedes(preferred[k], preferred[l])
      /\ DOMAIN preferred \subseteq Nat
  BY <1>1 DEF MInv, Loop
<1>4. MediaTypes'
  <2>1. preferred' \in Seq(Nat)
    BY <1>1, <1>2, PreferFacts
  <2>2. at' \in 1..(Len(codecs') + 1)
    BY <1>1, <1>2
  <2> QED
    BY <1>2, <2>1, <2>2 DEF MInv, MediaTypes
<1>5. \A i, j : Precedes(i, j)' <=> Precedes(i, j)
  BY <1>2 DEF Precedes, Opus
<1>6. CASE Opus(at)
  <2> DEFINE p == <<at>> \o preferred
  <2>1. /\ Len(p) = Len(preferred) + 1
        /\ \A k \in DOMAIN p : (k - 1 \in DOMAIN preferred /\ p[k] = preferred[k - 1]) \/ (k = 1 /\ p[k] = at)
        /\ \A k \in DOMAIN preferred : k + 1 \in DOMAIN p /\ p[k + 1] = preferred[k]
        /\ 1 \in DOMAIN p /\ p[1] = at
        /\ DOMAIN p \subseteq Nat
    BY <1>1, PreferFacts
  <2> HIDE DEF p
  <2>2. Len(p) = at
    BY <1>1, <1>3, <2>1
  <2>3. \A k \in DOMAIN p : p[k] \in 1..at
    BY <1>1, <1>3, <2>1
  <2>4. ASSUME NEW i \in 1..at PROVE \E k \in DOMAIN p : p[k] = i
    <3>1. CASE i = at
      BY <2>1, <3>1
    <3>2. CASE i # at
      <4>1. PICK k \in DOMAIN preferred : preferred[k] = i
        BY <1>1, <1>3, <2>4, <3>2
      <4> QED
        BY <2>1, <4>1
    <3> QED
      BY <3>1, <3>2
  <2>5. ASSUME NEW k \in DOMAIN p, NEW l \in DOMAIN p, k < l PROVE Precedes(p[k], p[l])
    <3>1. l - 1 \in DOMAIN preferred /\ p[l] = preferred[l - 1]
      BY <1>3, <2>1, <2>5
    <3>2. CASE k = 1
      <4>1. p[k] = at
        BY <2>1, <3>2
      <4>2. p[l] \in 1..(at - 1)
        BY <1>3, <3>1
      <4>3. p[l] < at
        BY <1>1, <4>2
      <4> QED
        BY <1>6, <4>1, <4>3 DEF Precedes
    <3>3. CASE k # 1
      <4>1. k - 1 \in DOMAIN preferred /\ p[k] = preferred[k - 1] /\ k - 1 < l - 1
        BY <1>3, <2>1, <2>5, <3>3
      <4> QED
        BY <1>3, <3>1, <4>1
    <3> QED
      BY <3>2, <3>3
  <2>6. preferred' = p /\ at' - 1 = at
    BY <1>1, <1>2, <1>6 DEF p
  <2>7. Loop'
    BY <1>5, <2>2, <2>3, <2>4, <2>5, <2>6 DEF Loop
  <2> QED
    BY <1>4, <2>7 DEF MInv
<1>7. CASE ~Opus(at)
  <2> DEFINE p == Append(preferred, at)
  <2>1. /\ Len(p) = Len(preferred) + 1
        /\ \A k \in DOMAIN p :
              (k \in DOMAIN preferred /\ p[k] = preferred[k]) \/ (k = Len(preferred) + 1 /\ p[k] = at)
        /\ \A k \in DOMAIN preferred : k \in DOMAIN p /\ p[k] = preferred[k]
        /\ Len(preferred) + 1 \in DOMAIN p /\ p[Len(preferred) + 1] = at
        /\ DOMAIN p = 1..(Len(preferred) + 1) /\ DOMAIN preferred = 1..Len(preferred)
    BY <1>1, PreferFacts
  <2> HIDE DEF p
  <2>2. Len(p) = at
    BY <1>1, <1>3, <2>1
  <2>3. \A k \in DOMAIN p : p[k] \in 1..at
    BY <1>1, <1>3, <2>1
  <2>4. ASSUME NEW i \in 1..at PROVE \E k \in DOMAIN p : p[k] = i
    <3>1. CASE i = at
      BY <2>1, <3>1
    <3>2. CASE i # at
      <4>1. PICK k \in DOMAIN preferred : preferred[k] = i
        BY <1>1, <1>3, <2>4, <3>2
      <4> QED
        BY <2>1, <4>1
    <3> QED
      BY <3>1, <3>2
  <2>5. ASSUME NEW k \in DOMAIN p, NEW l \in DOMAIN p, k < l PROVE Precedes(p[k], p[l])
    <3>1. k \in DOMAIN preferred /\ p[k] = preferred[k]
      BY <1>1, <1>3, <2>1, <2>5
    <3>2. CASE l = Len(preferred) + 1
      <4>1. p[l] = at
        BY <2>1, <3>2
      <4>2. p[k] \in 1..(at - 1)
        BY <1>3, <3>1
      <4>3. p[k] < at
        BY <1>1, <4>2
      <4> QED
        BY <1>7, <4>1, <4>3 DEF Precedes
    <3>3. CASE l # Len(preferred) + 1
      <4>1. l \in DOMAIN preferred /\ p[l] = preferred[l]
        BY <2>1, <3>3
      <4> QED
        BY <1>3, <2>5, <3>1, <4>1
    <3> QED
      BY <3>2, <3>3
  <2>6. preferred' = p /\ at' - 1 = at
    BY <1>1, <1>2, <1>7 DEF p
  <2>7. Loop'
    BY <1>5, <2>2, <2>3, <2>4, <2>5, <2>6 DEF Loop
  <2> QED
    BY <1>4, <2>7 DEF MInv
<1> QED
  BY <1>6, <1>7

LEMMA MediaKept ==
    ASSUME MInv, MediaStart \/ MediaStep \/ MediaFails \/ MediaDone
    PROVE  MInv'
<1>1. ASSUME codecs' \in CodecLists, at' = 1, preferred' = <<>>, step' \in {"off", "video"} PROVE MInv'
  <2>1. Len(codecs') \in Nat
    BY <1>1, CodecListsAreSequences
  <2>2. MediaTypes'
    BY <1>1, <2>1 DEF MediaTypes
  <2>3. Len(preferred') = 0 /\ DOMAIN preferred' = {} /\ at' - 1 = 0
    BY <1>1
  <2>4. Loop'
    BY <2>3 DEF Loop
  <2> QED
    BY <2>2, <2>4 DEF MInv
<1>2. ASSUME UNCHANGED <<codecs, at, preferred>>, step' \in {"off", "video", "audio", "codecs", "parameters"} PROVE MInv'
  BY <1>2 DEF MInv, MediaTypes, Loop, Precedes, Opus
<1>3. CASE NextCodec
  BY <1>3, LoopStep
<1>4. CASE AddDesktopVideo \/ AddLocalAudio \/ SetCodecPreferences
  BY <1>2, <1>4 DEF AddDesktopVideo, AddLocalAudio, SetCodecPreferences
<1>5. CASE MediaStart
  BY <1>1, <1>5 DEF MediaStart
<1>6. CASE MediaFails \/ MediaDone
  BY <1>1, <1>6, EmptyIsAList DEF MediaFails, MediaDone, MediaReset
<1> QED
  BY <1>3, <1>4, <1>5, <1>6 DEF MediaStep

LEMMA SetupNext == IInv /\ [Next]_vars => IInv'
<1>0. IInv' <=> EInv' /\ MInv'
  BY DEF IInv, EInv, MInv, TypeOK, EnvTypes, MediaTypes
<1> SUFFICES ASSUME EInv, MInv, [Next]_vars PROVE EInv' /\ MInv'
  BY <1>0, TwoParts
<1>1. ASSUME UNCHANGED envVars PROVE EInv'
  BY <1>1 DEF envVars, desktop, audio, EInv, EnvTypes, Threads, BareX11OnlyIfWaylandSigned, WaylandSigned, Pinned, Named, RefusedOnlyIfLost
<1>2. ASSUME UNCHANGED mediaVars PROVE MInv'
  BY <1>2 DEF mediaVars, MInv, MediaTypes, Loop, Precedes, Opus
<1>3. CASE EnvStep /\ UNCHANGED mediaVars
  BY <1>2, <1>3, ClientStep, DesktopStep DEF EnvStep
<1>4. ASSUME NEW c \in Clients, OpenPulseStream(c), MediaStart PROVE EInv' /\ MInv'
  BY <1>4, ClientStep, MediaKept
<1>5. CASE MediaStep /\ UNCHANGED envVars
  BY <1>1, <1>5, MediaKept
<1>6. ASSUME NEW c \in Clients, (MediaFails /\ InitEnds(c, "refused")) \/ (MediaDone /\ InitEnds(c, "ready"))
      PROVE  EInv' /\ MInv'
  BY <1>6, ClientStep, MediaKept
<1>7. CASE UNCHANGED vars
  BY <1>1, <1>2, <1>7 DEF vars
<1> QED
  BY <1>3, <1>4, <1>5, <1>6, <1>7 DEF Next

LEMMA InvHolds == Spec => []IInv
BY SetupInit, SetupNext, PTL DEF Spec

-----------------------------------------------------------------------------
(***************************************************************************)
(* Types, of the desktop (main.cpp:40) and of the loop over the codecs     *)
(* (pushclient.cpp:1067).                                                  *)
(***************************************************************************)
THEOREM TypeCorrect == Spec => []TypeOK
<1>1. IInv => TypeOK
  BY DEF IInv
<1> QED
  BY <1>1, InvHolds, PTL

(***************************************************************************)
(* Whatever main and the capture make of the session, and whichever back   *)
(* end WebRTC takes, Xlib is used by a capture without XInitThreads only   *)
(* where the user or the desktop spoke of Wayland (main.cpp:44).           *)
(***************************************************************************)
THEOREM BareX11IsWaylandSigned == Spec => []BareX11OnlyIfWaylandSigned
<1>1. IInv => BareX11OnlyIfWaylandSigned
  BY DEF IInv
<1> QED
  BY <1>1, InvHolds, PTL

(***************************************************************************)
(* Push clients with a named source record the same one, for any number of *)
(* them and any changes of PulseAudio's sources (pushclient.cpp:130).      *)
(***************************************************************************)
THEOREM OneSource == Spec => []SameSource
<1>1. IInv => SameSource
  BY DEF IInv, Named, SameSource
<1> QED
  BY <1>1, InvHolds, PTL

(***************************************************************************)
(* No microphone is recorded unless the user asked for it or no monitor    *)
(* was listed (pushclient.cpp:140).                                        *)
(***************************************************************************)
THEOREM NoMicrophone == Spec => []MicrophoneOnlyIfAlone
<1>1. IInv => MicrophoneOnlyIfAlone
  BY NoneIsNoSource DEF IInv, Named, Pinned, MicrophoneOnlyIfAlone
<1> QED
  BY <1>1, InvHolds, PTL

(***************************************************************************)
(* A push client misses a monitor only if the source that was found first  *)
(* has been away (pushclient.cpp:131).                                     *)
(***************************************************************************)
THEOREM MissedOnlyIfLost == Spec => []RefusedOnlyIfLost
<1>1. IInv => RefusedOnlyIfLost
  BY DEF IInv
<1> QED
  BY <1>1, InvHolds, PTL

(***************************************************************************)
(* The preferences are all the codecs, Opus first, for capability lists of *)
(* any length (pushclient.cpp:1070).                                       *)
(***************************************************************************)
THEOREM OpusPreferred == Spec => []OpusFirst
<1>1. ASSUME IInv, step \in {"codecs", "parameters"}, at > Len(codecs)
      PROVE  /\ Len(preferred) = Len(codecs)
             /\ \A i \in 1..Len(codecs) : \E k \in DOMAIN preferred : preferred[k] = i
             /\ \A k, l \in DOMAIN preferred : k < l => Precedes(preferred[k], preferred[l])
  <2>1. at - 1 = Len(codecs) /\ Len(codecs) \in Nat
    BY <1>1, CodecListsAreSequences DEF IInv, TypeOK
  <2> QED
    BY <1>1, <2>1 DEF IInv, Loop
<1>2. IInv => OpusFirst
  BY <1>1 DEF OpusFirst
<1> QED
  BY <1>2, InvHolds, PTL
=============================================================================
