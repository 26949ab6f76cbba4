-------------------------- MODULE PushClientProofs --------------------------
(* The life of a push client, for any number of requests and ids. *)
EXTENDS PushClient, TLAPS

Rest == {"idle", "call", "closing", "gone"}

\* The push client that the Qt thread is building or destroying.
Busy(c) == handler.client = c /\ handler.at \notin Rest

\* What a push client holds when Init comes to a step, and where it captures.
HeldAt(at) ==
    CASE at = "prepare" -> {"threads"}
      [] at = "adm" -> {"threads", "source"}
      [] at = "connect" -> {"threads", "source", "adm"}
      [] at = "video" -> {"threads", "source", "adm", "factory", "pc"}
      [] at = "audio" -> {"threads", "source", "adm", "factory", "pc", "video"}
      [] OTHER -> Resources

Silent == {"prepare", "adm", "connect", "video"}
Started == {"audio", "offer", "register"}
Going == {"destroy", "close", "threads", "join"}

Quiet(c) == asked[c] = 0 /\ offers[c] = 0 /\ errors[c] = 0

Fresh(c) == held[c] = {} /\ capture[c] = "none" /\ Quiet(c)
Complete(c) == held[c] = Resources /\ ~Ended(c) /\ running[c] /\ errors[c] = 0
Dead(c) == held[c] = {} /\ Ended(c) /\ asked[c] = 0

Building(c) ==
    /\ handler.at \in Silent \cup Started => held[c] = HeldAt(handler.at) /\ errors[c] = 0
    /\ handler.at \in Silent => capture[c] = "none"
    /\ handler.at \in Started => ~Ended(c) /\ running[c]
    /\ handler.at \in Silent \cup {"audio", "offer"} => Quiet(c)

Dying(c) ==
    /\ handler.at \in Going /\ ~Ended(c) => "source" \in held[c]
    /\ handler.at \in {"threads", "join"} => asked[c] = 0 /\ held[c] \subseteq {"threads", "source"}
    /\ handler.at = "join" => "threads" \notin held[c]

ObjectInv(c) ==
    /\ c > made => Fresh(c) /\ ~Busy(c)
    /\ Registered(c) => Complete(c) /\ ~Busy(c)
    /\ ~(c > made) /\ ~Registered(c) /\ ~Busy(c) => Dead(c)
    /\ Busy(c) => Building(c) /\ Dying(c)
    /\ asked[c] > 0 => offers[c] = 0 /\ errors[c] = 0
    /\ errors[c] > 0 => offers[c] = 0

MapInv ==
    /\ handler.at \notin Rest => handler.client # NoClient
    /\ \A i, j \in Ids : (clients[i] = clients[j] /\ i # j) => clients[i] = NoClient

IInv == TypeOK /\ MapInv /\ \A c \in Objects : ObjectInv(c)

USE MaxClientsIsNat

LEMMA InitInv == Init => IInv
<1> SUFFICES ASSUME Init PROVE IInv
    OBVIOUS
<1>1. TypeOK
    BY DEF Init, TypeOK, Objects, Resources, NoClient, At, Steps
<1>2. MapInv
    BY DEF Init, MapInv, Rest, At, NoClient
<1>3. \A c \in Objects : ObjectInv(c)
    BY DEF Init, ObjectInv, Fresh, Quiet, Busy, Rest, At, NoClient, Objects, Registered
<1> QED
    BY <1>1, <1>2, <1>3 DEF IInv

LEMMA ConstructInv == ASSUME IInv, NEW id \in Ids, Construct(id) PROVE IInv'
<1>1. TypeOK'
    BY DEF IInv, TypeOK, Construct, capturing, signalled, At, Steps, Objects, Resources, Waits
<1>2. MapInv'
    BY DEF IInv, TypeOK, MapInv, Construct, At, Rest, NoClient
<1>3. ASSUME NEW c \in Objects PROVE ObjectInv(c)'
  <2>1. ObjectInv(c) /\ (c # made + 1 => held'[c] = held[c])
      BY DEF IInv, TypeOK, Construct, Objects
  <2>2. made' = made + 1 /\ handler' = At("prepare", id, made + 1, "idle") /\ clients' = clients
        /\ running' = running /\ capture' = capture /\ asked' = asked /\ offers' = offers /\ errors' = errors /\ hung' = hung
        /\ handler.at = "idle"
      BY DEF Construct, capturing, signalled, Waits
  <2>3. Registered(c)' <=> Registered(c)
      BY <2>2 DEF Registered
  <2>4. Registered(c) => c <= made
      BY DEF Registered, IInv, TypeOK, Objects
  <2>5. CASE c = made + 1
    <3>1. Fresh(c) /\ ~Registered(c)
        BY <2>1, <2>4, <2>5 DEF ObjectInv, Objects, IInv, TypeOK
    <3>2. held'[c] = {"threads"} /\ Busy(c)' /\ handler'.at = "prepare"
        BY <2>2, <2>5 DEF Construct, IInv, TypeOK, Busy, At, Rest
    <3> QED
        BY <2>2, <2>3, <2>5, <3>1, <3>2
        DEF ObjectInv, Building, Dying, Fresh, Quiet, Silent, Started, Going, HeldAt, IInv, TypeOK
  <2>6. CASE c # made + 1
    <3>1. ~Busy(c)' /\ ~Busy(c)
        BY <2>2, <2>6 DEF Busy, At, Rest
    <3>2. (Fresh(c) <=> Fresh(c)') /\ (Complete(c) <=> Complete(c)') /\ (Dead(c) <=> Dead(c)')
        BY <2>1, <2>2, <2>6 DEF Fresh, Complete, Dead, Quiet, Ended
    <3> QED
        BY <2>1, <2>2, <2>3, <2>6, <3>1, <3>2 DEF ObjectInv, IInv, TypeOK, Objects
  <2> QED
      BY <2>5, <2>6
<1> QED
    BY <1>1, <1>2, <1>3 DEF IInv

-----------------------------------------------------------------------------
LEMMA Untouched ==
    ASSUME NEW c \in Objects, ObjectInv(c), made' = made, ~Busy(c), ~Busy(c)', Registered(c)' <=> Registered(c),
           held'[c] = held[c], running'[c] = running[c], capture'[c] = capture[c],
           asked'[c] = asked[c], offers'[c] = offers[c], errors'[c] = errors[c]
    PROVE  ObjectInv(c)'
<1>1. (Fresh(c) <=> Fresh(c)') /\ (Complete(c) <=> Complete(c)') /\ (Dead(c) <=> Dead(c)')
    BY DEF Fresh, Complete, Dead, Quiet, Ended
<1> QED
    BY <1>1 DEF ObjectInv

LEMMA Current ==
    ASSUME IInv, handler.at \notin Rest
    PROVE  /\ handler.client \in Objects /\ handler.client <= made
           /\ Busy(handler.client) /\ ~Registered(handler.client)
           /\ \A c \in Objects \ {handler.client} : ~Busy(c)
BY DEF IInv, TypeOK, MapInv, Busy, ObjectInv, Objects, NoClient

\* A step of Init that succeeds.
LEMMA SucceedsType ==
    ASSUME IInv, NEW step \in Silent \cup {"audio", "offer"}, NEW taken \in SUBSET Resources, NEW next \in Steps,
           Succeeds(step, taken, next)
    PROVE  /\ handler.at = step /\ handler.at \notin Rest
           /\ held' \in [Objects -> SUBSET Resources]
           /\ held'[handler.client] = held[handler.client] \cup taken
           /\ \A c \in Objects \ {handler.client} : held'[c] = held[c]
           /\ made' = made /\ clients' = clients
           /\ handler' \in [at : Steps, id : Ids, client : 0..made, after : {"idle", "closing"}]
           /\ handler'.at = next /\ handler'.client = handler.client
<1> DEFINE h == handler.client
<1>1. handler.at = step /\ step \notin Rest /\ h \in Objects
    BY Current DEF Succeeds, Waits, Silent, Rest
<1>2. held' = [held EXCEPT ![h] = @ \cup taken] /\ held \in [Objects -> SUBSET Resources]
    BY DEF Succeeds, IInv, TypeOK
<1>3. /\ held' \in [Objects -> SUBSET Resources]
      /\ held'[h] = held[h] \cup taken
      /\ \A c \in Objects \ {h} : held'[c] = held[c]
    BY <1>1, <1>2
<1>4. handler' = [handler EXCEPT !.at = next]
      /\ handler \in [at : Steps, id : Ids, client : 0..made, after : {"idle", "closing"}]
    BY DEF Succeeds, IInv, TypeOK
<1>5. /\ handler' \in [at : Steps, id : Ids, client : 0..made, after : {"idle", "closing"}]
      /\ handler'.at = next /\ handler'.client = h
    BY <1>4
<1> QED
    BY <1>1, <1>3, <1>5 DEF Succeeds

\* The steps that only take something.
LEMMA TakesInv ==
    ASSUME IInv, NEW step \in Silent \cup {"audio"}, step # "video",
           NEW taken \in SUBSET Resources, NEW next \in Silent \cup {"audio", "offer"}, next # "audio",
           Succeeds(step, taken, next), UNCHANGED <<capturing, signalled>>,
           HeldAt(next) = HeldAt(step) \cup taken, step \in Silent <=> next \in Silent
    PROVE  IInv'
<1> DEFINE h == handler.client
<1>1. /\ handler.at = step /\ handler.at \notin Rest
      /\ held' \in [Objects -> SUBSET Resources]
      /\ held'[h] = held[h] \cup taken
      /\ \A c \in Objects \ {h} : held'[c] = held[c]
      /\ made' = made /\ clients' = clients
      /\ handler' \in [at : Steps, id : Ids, client : 0..made, after : {"idle", "closing"}]
      /\ handler'.at = next /\ handler'.client = h
  <2>1. next \in Steps
      BY DEF Steps, Silent
  <2> QED
      BY <2>1, SucceedsType
<1>2. running' = running /\ capture' = capture /\ asked' = asked /\ offers' = offers /\ errors' = errors /\ hung' = hung
    BY DEF capturing, signalled
<1>3. TypeOK'
    BY <1>1, <1>2 DEF IInv, TypeOK
<1>4. MapInv'
    BY <1>1 DEF IInv, MapInv
<1>5. ASSUME NEW c \in Objects PROVE ObjectInv(c)'
  <2>1. Registered(c)' <=> Registered(c)
      BY <1>1 DEF Registered
  <2>2. ObjectInv(c)
      BY DEF IInv
  <2>3. next \notin Rest
      BY DEF Silent, Rest
  <2>4. CASE c = h
    <3>1. Busy(c) /\ Busy(c)' /\ ~Registered(c) /\ ~(c > made)
        BY <1>1, <2>3, <2>4, Current DEF Busy, Objects, IInv, TypeOK
    <3>2. held[c] = HeldAt(step) /\ Quiet(c)
        BY <1>1, <2>2, <3>1 DEF ObjectInv, Building, Silent, Started
    <3>3. held'[c] = HeldAt(next) /\ Quiet(c)'
        BY <1>1, <1>2, <2>4, <3>2 DEF Quiet
    <3>4. next \in Silent => (capture[c] = "none")'
        BY <1>1, <1>2, <2>2, <3>1 DEF ObjectInv, Building
    <3>5. next \in Started => (~Ended(c) /\ running[c])'
        BY <1>1, <1>2, <2>2, <3>1 DEF ObjectInv, Building, Silent, Started, Ended
    <3>6. Building(c)'
        BY <1>1, <3>3, <3>4, <3>5 DEF Building, Quiet
    <3>7. Dying(c)'
        BY <1>1 DEF Dying, Silent, Going
    <3>8. (asked[c] > 0 => offers[c] = 0 /\ errors[c] = 0)' /\ (errors[c] > 0 => offers[c] = 0)'
        BY <3>3 DEF Quiet
    <3> QED
        BY <1>1, <2>1, <3>1, <3>6, <3>7, <3>8 DEF ObjectInv
  <2>5. CASE c # h
      BY <1>1, <1>2, <2>1, <2>2, <2>5, Untouched, Current DEF Busy
  <2> QED
      BY <2>4, <2>5
<1> QED
    BY <1>3, <1>4, <1>5 DEF IInv

LEMMA PrepareInv == IInv /\ PrepareDesktopVideoSource => IInv'
<1>1. HeldAt("adm") = HeldAt("prepare") \cup {"source"}
    BY DEF HeldAt
<1> QED
    BY <1>1, TakesInv DEF PrepareDesktopVideoSource, Silent, Resources

LEMMA DeviceInv == IInv /\ CreateAudioDevice => IInv'
<1>1. HeldAt("connect") = HeldAt("adm") \cup {"adm"}
    BY DEF HeldAt
<1> QED
    BY <1>1, TakesInv DEF CreateAudioDevice, Silent, Resources

LEMMA ConnectionInv == IInv /\ CreatePeerConnection => IInv'
<1>1. HeldAt("video") = HeldAt("connect") \cup {"factory", "pc"}
    BY DEF HeldAt
<1> QED
    BY <1>1, TakesInv DEF CreatePeerConnection, Silent, Resources

LEMMA LocalAudioInv == IInv /\ AddLocalAudio => IInv'
<1>1. HeldAt("offer") = HeldAt("audio") \cup {"audio"}
    BY DEF HeldAt, Resources
<1> QED
    BY <1>1, TakesInv DEF AddLocalAudio, Silent, Resources

LEMMA VideoInv == ASSUME IInv, AddDesktopVideo PROVE IInv'
<1> DEFINE h == handler.client
<1>0. "video" \in Silent \cup {"audio", "offer"} /\ {"video"} \in SUBSET Resources /\ "audio" \in Steps
    BY DEF Silent, Resources, Steps
<1>1. /\ handler.at = "video" /\ handler.at \notin Rest
      /\ held' \in [Objects -> SUBSET Resources]
      /\ held'[h] = held[h] \cup {"video"}
      /\ \A c \in Objects \ {h} : held'[c] = held[c]
      /\ made' = made /\ clients' = clients
      /\ handler' \in [at : Steps, id : Ids, client : 0..made, after : {"idle", "closing"}]
      /\ handler'.at = "audio" /\ handler'.client = h
    BY <1>0, SucceedsType DEF AddDesktopVideo
<1>2. running' = [running EXCEPT ![h] = TRUE] /\ capture' = [capture EXCEPT ![h] = "begin"]
      /\ asked' = asked /\ offers' = offers /\ errors' = errors /\ hung' = hung /\ h \in Objects
    BY <1>1, Current DEF AddDesktopVideo, Start, signalled
<1>3. /\ running' \in [Objects -> BOOLEAN]
      /\ capture' \in [Objects -> {"none", "begin", "test", "frame", "ended"}]
      /\ running'[h] /\ capture'[h] = "begin"
      /\ \A c \in Objects \ {h} : running'[c] = running[c] /\ capture'[c] = capture[c]
    BY <1>2 DEF IInv, TypeOK
<1>4. TypeOK'
    BY <1>1, <1>2, <1>3 DEF IInv, TypeOK
<1>5. MapInv'
    BY <1>1 DEF IInv, MapInv, Rest
<1>6. ASSUME NEW c \in Objects PROVE ObjectInv(c)'
  <2>1. (Registered(c)' <=> Registered(c)) /\ ObjectInv(c)
      BY <1>1 DEF Registered, IInv
  <2>2. CASE c = h
    <3>1. Busy(c) /\ Busy(c)' /\ ~Registered(c) /\ ~(c > made)
        BY <1>1, <2>2, Current DEF Busy, Rest, Objects, IInv, TypeOK
    <3>2. held[c] = {"threads", "source", "adm", "factory", "pc"} /\ Quiet(c)
        BY <1>1, <2>1, <3>1 DEF ObjectInv, Building, Silent, Started, HeldAt
    <3>3. held'[c] = HeldAt("audio") /\ Quiet(c)'
        BY <1>1, <1>2, <2>2, <3>2 DEF Quiet, HeldAt
    <3>4. Building(c)' /\ Dying(c)'
        BY <1>1, <1>3, <2>2, <3>3 DEF Building, Dying, Quiet, Silent, Started, Going, Ended
    <3> QED
        BY <1>1, <2>1, <3>1, <3>3, <3>4 DEF ObjectInv, Quiet
  <2>3. CASE c # h
      BY <1>1, <1>2, <1>3, <2>1, <2>3, Untouched, Current DEF Busy
  <2> QED
      BY <2>2, <2>3
<1> QED
    BY <1>4, <1>5, <1>6 DEF IInv

LEMMA OfferInv == ASSUME IInv, CreateAndSendOffer PROVE IInv'
<1> DEFINE h == handler.client
<1>0. "offer" \in Silent \cup {"audio", "offer"} /\ {} \in SUBSET Resources /\ "register" \in Steps
    BY DEF Steps
<1>1. /\ handler.at = "offer" /\ handler.at \notin Rest
      /\ held' \in [Objects -> SUBSET Resources]
      /\ held'[h] = held[h] \cup {}
      /\ \A c \in Objects \ {h} : held'[c] = held[c]
      /\ made' = made /\ clients' = clients
      /\ handler' \in [at : Steps, id : Ids, client : 0..made, after : {"idle", "closing"}]
      /\ handler'.at = "register" /\ handler'.client = h
    BY <1>0, SucceedsType DEF CreateAndSendOffer
<1>2. running' = running /\ capture' = capture /\ offers' = offers /\ errors' = errors /\ hung' = hung /\ h \in Objects
      /\ asked' = [asked EXCEPT ![h] = @ + 1] /\ asked \in [Objects -> 0..1]
    BY <1>1, Current DEF CreateAndSendOffer, capturing, IInv, TypeOK
<1>3. Busy(h) /\ Building(h) /\ ~Registered(h) /\ h <= made
    BY <1>1, Current DEF IInv, ObjectInv
<1>4. held[h] = Resources /\ Quiet(h) /\ ~Ended(h) /\ running[h]
    BY <1>1, <1>3 DEF Building, Silent, Started, HeldAt
<1>5. asked' \in [Objects -> 0..1] /\ asked'[h] = 1 /\ \A c \in Objects \ {h} : asked'[c] = asked[c]
    BY <1>2, <1>4 DEF Quiet
<1>6. TypeOK'
    BY <1>1, <1>2, <1>5 DEF IInv, TypeOK
<1>7. MapInv'
    BY <1>1 DEF IInv, MapInv, Rest
<1>8. ASSUME NEW c \in Objects PROVE ObjectInv(c)'
  <2>1. (Registered(c)' <=> Registered(c)) /\ ObjectInv(c)
      BY <1>1 DEF Registered, IInv
  <2>2. CASE c = h
    <3>1. Busy(c)' /\ ~(c > made)
        BY <1>1, <1>3, <2>2 DEF Busy, Rest, Objects, IInv, TypeOK
    <3>2. Building(c)' /\ Dying(c)'
        BY <1>1, <1>2, <1>4, <2>2 DEF Building, Dying, Quiet, Silent, Started, Going, Ended, HeldAt
    <3> QED
        BY <1>1, <1>2, <1>3, <1>4, <2>1, <2>2, <3>1, <3>2 DEF ObjectInv, Quiet
  <2>3. CASE c # h
      BY <1>1, <1>2, <1>5, <2>1, <2>3, Untouched, Current DEF Busy
  <2> QED
      BY <2>2, <2>3
<1> QED
    BY <1>6, <1>7, <1>8 DEF IInv

LEMMA FailsInv == ASSUME IInv, InitFails PROVE IInv'
<1> DEFINE h == handler.client
<1>1. /\ handler.at \in Silent \cup {"audio"} /\ handler.at \notin Rest
      /\ made' = made /\ clients' = clients /\ running' = running /\ capture' = capture
      /\ asked' = asked /\ offers' = offers /\ hung' = hung /\ errors' = [errors EXCEPT ![h] = @ + 1]
      /\ handler' = [handler EXCEPT !.at = "destroy"]
    BY DEF InitFails, Failed, capturing, Silent, Rest
<1>2. h \in Objects /\ Busy(h) /\ ~Registered(h) /\ h <= made /\ Building(h)
    BY <1>1, Current DEF IInv, ObjectInv
<1>3. Quiet(h) /\ held[h] = HeldAt(handler.at)
    BY <1>1, <1>2 DEF Building, Silent, Started
<1>4. PICK left \in SUBSET Remains(handler.at) : held' = [held EXCEPT ![h] = @ \cup left]
    BY DEF InitFails
<1>5. Remains(handler.at) \subseteq Resources
    BY DEF Remains, Resources
<1>6. /\ held' \in [Objects -> SUBSET Resources] /\ held'[h] = held[h] \cup left
      /\ \A c \in Objects \ {h} : held'[c] = held[c]
    BY <1>2, <1>4, <1>5 DEF IInv, TypeOK
<1>7. /\ errors' \in [Objects -> 0..1] /\ errors'[h] = 1
      /\ \A c \in Objects \ {h} : errors'[c] = errors[c]
    BY <1>1, <1>2, <1>3 DEF IInv, TypeOK, Quiet
<1>8. /\ handler' \in [at : Steps, id : Ids, client : 0..made, after : {"idle", "closing"}]
      /\ handler'.at = "destroy" /\ handler'.client = h
  <2>1. handler \in [at : Steps, id : Ids, client : 0..made, after : {"idle", "closing"}] /\ "destroy" \in Steps
      BY DEF IInv, TypeOK, Steps
  <2> QED
      BY <1>1, <2>1
<1>9. TypeOK'
    BY <1>1, <1>6, <1>7, <1>8 DEF IInv, TypeOK
<1>10. MapInv'
    BY <1>1, <1>8 DEF IInv, MapInv, Rest
<1>11. ~Ended(h) => "source" \in held[h]
    BY <1>1, <1>2, <1>3 DEF Building, HeldAt, Silent, Ended
<1>12. ASSUME NEW c \in Objects PROVE ObjectInv(c)'
  <2>1. (Registered(c)' <=> Registered(c)) /\ ObjectInv(c)
      BY <1>1 DEF Registered, IInv
  <2>2. CASE c = h
    <3>1. Busy(c)' /\ ~(c > made)
        BY <1>8, <1>2, <2>2 DEF Busy, Rest, Objects, IInv, TypeOK
    <3>2. Building(c)' /\ Dying(c)'
        BY <1>1, <1>6, <1>8, <1>11, <2>2 DEF Building, Dying, Silent, Started, Going, Ended
    <3>3. asked'[c] = 0 /\ offers'[c] = 0
        BY <1>1, <1>3, <2>2 DEF Quiet
    <3>4. ~Registered(c)' /\ ~(c > made')
        BY <1>1, <1>2, <2>1, <2>2, <3>1
    <3> QED
        BY <3>1, <3>2, <3>3, <3>4 DEF ObjectInv
  <2>3. CASE c # h
      BY <1>1, <1>6, <1>7, <1>8, <2>1, <2>3, Untouched, Current DEF Busy
  <2> QED
      BY <2>2, <2>3
<1> QED
    BY <1>9, <1>10, <1>12 DEF IInv

-----------------------------------------------------------------------------
HandlerType == [at : Steps, id : Ids, client : 0..made, after : {"idle", "closing"}]

LEMMA RegisterInv == ASSUME IInv, Register PROVE IInv'
<1> DEFINE h == handler.client
           old == clients[handler.id]
<1>1. /\ handler.at = "register" /\ handler.at \notin Rest
      /\ clients' = [clients EXCEPT ![handler.id] = h]
      /\ made' = made /\ held' = held /\ running' = running /\ capture' = capture
      /\ asked' = asked /\ offers' = offers /\ errors' = errors /\ hung' = hung
      /\ handler' = IF old = NoClient THEN [handler EXCEPT !.at = "idle"]
                    ELSE [handler EXCEPT !.at = "destroy", !.client = old]
    BY DEF Register, Waits, Rest, capturing, signalled
<1>2. handler \in HandlerType /\ clients \in [Ids -> 0..made] /\ made \in Nat
    BY DEF IInv, TypeOK, HandlerType
<1>3. h \in Objects /\ h \in 1..made /\ Busy(h) /\ ~Registered(h) /\ Building(h)
    BY <1>1, <1>2, Current DEF IInv, ObjectInv, Objects
<1>4. Complete(h)
    BY <1>1, <1>3 DEF Building, Complete, Silent, Started, HeldAt
<1>5. /\ clients' \in [Ids -> 0..made] /\ clients'[handler.id] = h
      /\ \A i \in Ids \ {handler.id} : clients'[i] = clients[i]
    BY <1>1, <1>2, <1>3 DEF HandlerType
<1>6. /\ handler' \in HandlerType
      /\ old = NoClient => handler'.at = "idle"
      /\ old # NoClient => handler'.at = "destroy" /\ handler'.client = old
  <2>1. "idle" \in Steps /\ "destroy" \in Steps /\ old \in 0..made
      BY <1>2 DEF Steps, HandlerType
  <2>2. CASE old = NoClient
      BY <1>1, <1>2, <2>1, <2>2 DEF HandlerType
  <2>3. CASE old # NoClient
      BY <1>1, <1>2, <2>1, <2>3 DEF HandlerType
  <2> QED
      BY <2>2, <2>3
<1>7. TypeOK'
    BY <1>1, <1>5, <1>6 DEF IInv, TypeOK, HandlerType
<1>8. \A i \in Ids : clients[i] # h
    BY <1>3 DEF Registered
<1>9. MapInv'
    BY <1>1, <1>2, <1>5, <1>6, <1>8 DEF IInv, MapInv, Rest, HandlerType
<1>10. ASSUME NEW c \in Objects PROVE ObjectInv(c)'
  <2>1. ObjectInv(c) /\ c # NoClient
      BY DEF IInv, Objects, NoClient
  <2>2. CASE c = h
    <3>1. Registered(c)'
        BY <1>2, <1>5, <2>2 DEF Registered, HandlerType
    <3>2. ~Busy(c)'
        BY <1>2, <1>6, <1>8, <2>2 DEF Busy, Rest, HandlerType
    <3>3. Complete(c)'
        BY <1>1, <1>4, <2>2 DEF Complete, Ended
    <3>4. ~(c > made')
        BY <1>1, <1>2, <1>3, <2>2
    <3>5. (asked[c] > 0 => offers[c] = 0 /\ errors[c] = 0)' /\ (errors[c] > 0 => offers[c] = 0)'
        BY <1>1, <2>1 DEF ObjectInv
    <3> QED
        BY <3>1, <3>2, <3>3, <3>4, <3>5 DEF ObjectInv
  <2>3. CASE c # h /\ c = old
    <3>1. Registered(c) /\ Complete(c)
        BY <1>2, <2>1, <2>3 DEF Registered, ObjectInv, HandlerType
    <3>2. \A i \in Ids : clients'[i] # c
        BY <1>2, <1>5, <2>1, <2>3 DEF IInv, MapInv, HandlerType
    <3>3. ~Registered(c)'
        BY <3>2 DEF Registered
    <3>4. Busy(c)' /\ handler'.at = "destroy"
        BY <1>6, <2>1, <2>3 DEF Busy, Rest
    <3>5. Building(c)'
        BY <3>4 DEF Building, Silent, Started
    <3>6. Dying(c)'
        BY <1>1, <3>1, <3>4 DEF Dying, Complete, Resources
    <3>7. ~(c > made')
        BY <1>1, <1>2, <2>3 DEF HandlerType
    <3>8. (asked[c] > 0 => offers[c] = 0 /\ errors[c] = 0)' /\ (errors[c] > 0 => offers[c] = 0)'
        BY <1>1, <2>1 DEF ObjectInv
    <3> QED
        BY <3>3, <3>4, <3>5, <3>6, <3>7, <3>8 DEF ObjectInv
  <2>4. CASE c # h /\ c # old
    <3>1. Registered(c)' <=> Registered(c)
        BY <1>2, <1>5, <2>4 DEF Registered, HandlerType
    <3>2. ~Busy(c)
        BY <2>4 DEF Busy
    <3>3. ~Busy(c)'
        BY <1>6, <2>1, <2>4 DEF Busy, Rest
    <3> QED
        BY <1>1, <2>1, <3>1, <3>2, <3>3, Untouched
  <2> QED
      BY <2>2, <2>3, <2>4
<1> QED
    BY <1>7, <1>9, <1>10 DEF IInv

LEMMA ShutdownInv == ASSUME IInv, Shutdown PROVE IInv'
<1>1. /\ handler.at = "idle" /\ handler' = [handler EXCEPT !.at = "closing"]
      /\ made' = made /\ held' = held /\ running' = running /\ capture' = capture /\ clients' = clients
      /\ asked' = asked /\ offers' = offers /\ errors' = errors /\ hung' = hung
    BY DEF Shutdown, Waits, capturing, signalled
<1>2. handler' \in HandlerType /\ handler'.at = "closing"
    BY <1>1 DEF IInv, TypeOK, HandlerType, Steps
<1>3. TypeOK'
    BY <1>1, <1>2 DEF IInv, TypeOK, HandlerType
<1>4. MapInv'
    BY <1>1, <1>2 DEF IInv, MapInv, Rest
<1>5. ASSUME NEW c \in Objects PROVE ObjectInv(c)'
  <2>1. (Registered(c)' <=> Registered(c)) /\ ObjectInv(c) /\ ~Busy(c) /\ ~Busy(c)'
      BY <1>1, <1>2 DEF Registered, IInv, Busy, Rest
  <2> QED
      BY <1>1, <2>1, Untouched
<1> QED
    BY <1>3, <1>4, <1>5 DEF IInv

LEMMA CallInv == ASSUME IInv, NEW id \in Ids, CallHung(id) PROVE IInv'
<1>1. /\ handler.at = "idle" /\ handler' = At("call", id, NoClient, "idle")
      /\ made' = made /\ held' = held /\ running' = running /\ capture' = capture /\ clients' = clients
      /\ asked' = asked /\ offers' = offers /\ errors' = errors /\ hung' = hung
    BY DEF CallHung, Waits, capturing, signalled
<1>2. handler' \in HandlerType /\ handler'.at = "call"
    BY <1>1 DEF IInv, TypeOK, HandlerType, Steps, At, NoClient
<1>3. TypeOK'
    BY <1>1, <1>2 DEF IInv, TypeOK, HandlerType
<1>4. MapInv'
    BY <1>1, <1>2 DEF IInv, MapInv, Rest
<1>5. ASSUME NEW c \in Objects PROVE ObjectInv(c)'
  <2>1. (Registered(c)' <=> Registered(c)) /\ ObjectInv(c) /\ ~Busy(c) /\ ~Busy(c)'
      BY <1>1, <1>2 DEF Registered, IInv, Busy, Rest
  <2> QED
      BY <1>1, <2>1, Untouched
<1> QED
    BY <1>3, <1>4, <1>5 DEF IInv

LEMMA ClearInv == ASSUME IInv, ClearClients PROVE IInv'
<1>1. /\ handler.at = "closing"
      /\ made' = made /\ held' = held /\ running' = running /\ capture' = capture
      /\ asked' = asked /\ offers' = offers /\ errors' = errors /\ hung' = hung
    BY DEF ClearClients, Waits, capturing, signalled
<1>2. handler \in HandlerType /\ clients \in [Ids -> 0..made] /\ made \in Nat
    BY DEF IInv, TypeOK, HandlerType
<1>3. CASE handler' = [handler EXCEPT !.at = "gone"] /\ clients' = clients
  <2>1. handler' \in HandlerType /\ handler'.at = "gone"
      BY <1>2, <1>3 DEF HandlerType, Steps
  <2>2. TypeOK'
      BY <1>1, <1>3, <2>1 DEF IInv, TypeOK, HandlerType
  <2>3. MapInv'
      BY <1>3, <2>1 DEF IInv, MapInv, Rest
  <2>4. ASSUME NEW c \in Objects PROVE ObjectInv(c)'
    <3>1. (Registered(c)' <=> Registered(c)) /\ ObjectInv(c) /\ ~Busy(c) /\ ~Busy(c)'
        BY <1>1, <1>3, <2>1 DEF Registered, IInv, Busy, Rest
    <3> QED
        BY <1>1, <3>1, Untouched
  <2> QED
      BY <2>2, <2>3, <2>4 DEF IInv
<1>4. ASSUME NEW i \in Ids, clients[i] # NoClient, clients' = [clients EXCEPT ![i] = NoClient],
             handler' = At("destroy", i, clients[i], "closing")
      PROVE  IInv'
  <2>1. handler' \in HandlerType /\ handler'.at = "destroy" /\ handler'.client = clients[i]
      BY <1>2, <1>4 DEF HandlerType, Steps, At
  <2>2. /\ clients' \in [Ids -> 0..made] /\ clients'[i] = NoClient
        /\ \A j \in Ids \ {i} : clients'[j] = clients[j]
      BY <1>2, <1>4 DEF NoClient
  <2>3. TypeOK'
      BY <1>1, <2>1, <2>2 DEF IInv, TypeOK, HandlerType
  <2>4. MapInv'
      BY <1>4, <2>1, <2>2 DEF IInv, MapInv
  <2>5. ASSUME NEW c \in Objects PROVE ObjectInv(c)'
    <3>1. ObjectInv(c) /\ c # NoClient /\ ~Busy(c)
        BY <1>1 DEF IInv, Objects, NoClient, Busy, Rest
    <3>2. CASE c = clients[i]
      <4>1. Complete(c)
          BY <3>1, <3>2 DEF Registered, ObjectInv
      <4>2. ~Registered(c)'
        <5>1. \A j \in Ids : clients'[j] # c
            BY <2>2, <3>1, <3>2 DEF IInv, MapInv
        <5> QED
            BY <5>1 DEF Registered
      <4>3. Busy(c)' /\ Building(c)'
          BY <2>1, <3>2 DEF Busy, Rest, Building, Silent, Started
      <4>4. Dying(c)'
          BY <1>1, <2>1, <4>1 DEF Dying, Complete, Resources
      <4>5. ~(c > made')
          BY <1>1, <1>2, <3>2
      <4>6. (asked[c] > 0 => offers[c] = 0 /\ errors[c] = 0)' /\ (errors[c] > 0 => offers[c] = 0)'
          BY <1>1, <3>1 DEF ObjectInv
      <4> QED
          BY <4>2, <4>3, <4>4, <4>5, <4>6 DEF ObjectInv
    <3>3. CASE c # clients[i]
      <4>1. (Registered(c)' <=> Registered(c)) /\ ~Busy(c)'
          BY <2>1, <2>2, <3>1, <3>3 DEF Registered, Busy
      <4> QED
          BY <1>1, <3>1, <4>1, Untouched
    <3> QED
        BY <3>2, <3>3
  <2> QED
      BY <2>3, <2>4, <2>5 DEF IInv
<1> QED
    BY <1>3, <1>4 DEF ClearClients

-----------------------------------------------------------------------------
LEMMA PollerStopInv == ASSUME IInv, StopRtpSendStatsPolling PROVE IInv'
<1> DEFINE h == handler.client
<1>1. /\ handler.at = "destroy" /\ handler.at \notin Rest
      /\ handler' = [handler EXCEPT !.at = "close"]
      /\ made' = made /\ held' = held /\ running' = running /\ capture' = capture /\ clients' = clients
      /\ asked' = asked /\ offers' = offers /\ errors' = errors /\ hung' = hung
    BY DEF StopRtpSendStatsPolling, Waits, Rest, capturing, signalled
<1>2. h \in Objects /\ Busy(h) /\ ~Registered(h) /\ ~(h > made) /\ Dying(h)
    BY <1>1, Current DEF IInv, ObjectInv, TypeOK, Objects
<1>3. handler' \in HandlerType /\ handler'.at = "close" /\ handler'.client = h
    BY <1>1 DEF IInv, TypeOK, HandlerType, Steps
<1>4. TypeOK'
    BY <1>1, <1>3 DEF IInv, TypeOK, HandlerType
<1>5. MapInv'
    BY <1>1, <1>3 DEF IInv, MapInv, Rest
<1>6. ASSUME NEW c \in Objects PROVE ObjectInv(c)'
  <2>1. (Registered(c)' <=> Registered(c)) /\ ObjectInv(c)
      BY <1>1 DEF Registered, IInv
  <2>2. CASE c = h
    <3>1. Busy(c)' /\ Building(c)'
        BY <1>3, <2>2 DEF Busy, Rest, Building, Silent, Started
    <3>2. Dying(c)'
        BY <1>1, <1>2, <1>3, <2>2 DEF Dying, Going, Ended
    <3>3. ~Registered(c)' /\ ~(c > made') /\ (errors[c] > 0 => offers[c] = 0)'
          /\ (asked[c] > 0 => offers[c] = 0 /\ errors[c] = 0)'
        BY <1>1, <1>2, <2>1, <2>2 DEF ObjectInv
    <3> QED
        BY <3>1, <3>2, <3>3 DEF ObjectInv
  <2>3. CASE c # h
      BY <1>1, <1>3, <2>1, <2>3, Untouched, Current DEF Busy
  <2> QED
      BY <2>2, <2>3
<1> QED
    BY <1>4, <1>5, <1>6 DEF IInv

LEMMA CloseInv == ASSUME IInv, ClosePeerConnection PROVE IInv'
<1> DEFINE h == handler.client
<1>1. /\ handler.at = "close" /\ handler.at \notin Rest
      /\ held' = [held EXCEPT ![h] = @ \ Closed] /\ asked' = [asked EXCEPT ![h] = 0]
      /\ handler' = [handler EXCEPT !.at = "threads"]
      /\ made' = made /\ running' = running /\ capture' = capture
      /\ offers' = offers /\ errors' = errors /\ hung' = hung /\ clients' = clients
    BY DEF ClosePeerConnection, Waits, Rest, capturing
<1>2. h \in Objects /\ Busy(h) /\ ~Registered(h) /\ ~(h > made) /\ Dying(h)
    BY <1>1, Current DEF IInv, ObjectInv, TypeOK, Objects
<1>3. handler' \in HandlerType /\ handler'.at = "threads" /\ handler'.client = h
    BY <1>1 DEF IInv, TypeOK, HandlerType, Steps
<1>4. /\ held' \in [Objects -> SUBSET Resources] /\ held'[h] = held[h] \ Closed
      /\ asked' \in [Objects -> 0..1] /\ asked'[h] = 0
      /\ \A c \in Objects \ {h} : held'[c] = held[c] /\ asked'[c] = asked[c]
    BY <1>1, <1>2 DEF IInv, TypeOK
<1>5. TypeOK'
    BY <1>1, <1>3, <1>4 DEF IInv, TypeOK, HandlerType
<1>6. MapInv'
    BY <1>1, <1>3 DEF IInv, MapInv, Rest
<1>7. held[h] \subseteq Resources
    BY <1>2 DEF IInv, TypeOK
<1>8. ASSUME NEW c \in Objects PROVE ObjectInv(c)'
  <2>1. (Registered(c)' <=> Registered(c)) /\ ObjectInv(c)
      BY <1>1 DEF Registered, IInv
  <2>2. CASE c = h
    <3>1. Busy(c)' /\ Building(c)'
        BY <1>3, <2>2 DEF Busy, Rest, Building, Silent, Started
    <3>2. held'[c] \subseteq {"threads", "source"}
        BY <1>4, <1>7, <2>2 DEF Closed, Resources
    <3>3. (~Ended(c) => "source" \in held[c])'
        BY <1>1, <1>2, <1>4, <2>2 DEF Dying, Ended, Closed, Going
    <3>4. Dying(c)'
        BY <1>3, <1>4, <2>2, <3>2, <3>3 DEF Dying
    <3>5. ~Registered(c)' /\ ~(c > made') /\ (errors[c] > 0 => offers[c] = 0)'
        BY <1>1, <1>2, <2>1, <2>2 DEF ObjectInv
    <3>6. ~(asked'[c] > 0)
        BY <1>4, <2>2
    <3> QED
        BY <3>1, <3>4, <3>5, <3>6 DEF ObjectInv
  <2>3. CASE c # h
      BY <1>1, <1>3, <1>4, <2>1, <2>3, Untouched, Current DEF Busy
  <2> QED
      BY <2>2, <2>3
<1> QED
    BY <1>5, <1>6, <1>8 DEF IInv

LEMMA StopInv == ASSUME IInv, StopThreads PROVE IInv'
<1> DEFINE h == handler.client
<1>1. /\ handler.at = "threads" /\ handler.at \notin Rest
      /\ held' = [held EXCEPT ![h] = @ \ {"threads"}] /\ running' = [running EXCEPT ![h] = FALSE]
      /\ handler' = [handler EXCEPT !.at = "join"]
      /\ made' = made /\ capture' = capture /\ asked' = asked
      /\ offers' = offers /\ errors' = errors /\ hung' = hung /\ clients' = clients
    BY DEF StopThreads, Released, Waits, Rest, signalled
<1>2. h \in Objects /\ Busy(h) /\ ~Registered(h) /\ ~(h > made) /\ Dying(h)
    BY <1>1, Current DEF IInv, ObjectInv, TypeOK, Objects
<1>3. handler' \in HandlerType /\ handler'.at = "join" /\ handler'.client = h
    BY <1>1 DEF IInv, TypeOK, HandlerType, Steps
<1>4. /\ held' \in [Objects -> SUBSET Resources] /\ held'[h] = held[h] \ {"threads"}
      /\ running' \in [Objects -> BOOLEAN]
      /\ \A c \in Objects \ {h} : held'[c] = held[c] /\ running'[c] = running[c]
    BY <1>1, <1>2 DEF IInv, TypeOK
<1>5. TypeOK'
    BY <1>1, <1>3, <1>4 DEF IInv, TypeOK, HandlerType
<1>6. MapInv'
    BY <1>1, <1>3 DEF IInv, MapInv, Rest
<1>7. ASSUME NEW c \in Objects PROVE ObjectInv(c)'
  <2>1. (Registered(c)' <=> Registered(c)) /\ ObjectInv(c)
      BY <1>1 DEF Registered, IInv
  <2>2. CASE c = h
    <3>1. Busy(c)' /\ Building(c)'
        BY <1>3, <2>2 DEF Busy, Rest, Building, Silent, Started
    <3>2. asked[c] = 0 /\ held[c] \subseteq {"threads", "source"} /\ (~Ended(c) => "source" \in held[c])
        BY <1>1, <1>2, <2>2 DEF Dying, Going
    <3>3. Dying(c)'
        BY <1>1, <1>3, <1>4, <2>2, <3>2 DEF Dying, Ended
    <3>4. ~Registered(c)' /\ ~(c > made') /\ (errors[c] > 0 => offers[c] = 0)'
          /\ (asked[c] > 0 => offers[c] = 0 /\ errors[c] = 0)'
        BY <1>1, <1>2, <2>1, <2>2 DEF ObjectInv
    <3> QED
        BY <3>1, <3>3, <3>4 DEF ObjectInv
  <2>3. CASE c # h
      BY <1>1, <1>3, <1>4, <2>1, <2>3, Untouched, Current DEF Busy
  <2> QED
      BY <2>2, <2>3
<1> QED
    BY <1>5, <1>6, <1>7 DEF IInv

LEMMA ReleaseInv == ASSUME IInv, ReleaseSource PROVE IInv'
<1> DEFINE h == handler.client
<1>1. /\ handler.at = "join" /\ handler.at \notin Rest /\ Ended(h)
      /\ held' = [held EXCEPT ![h] = @ \ {"source"}]
      /\ handler' = [handler EXCEPT !.at = handler.after, !.client = NoClient]
      /\ made' = made /\ capture' = capture /\ running' = running /\ asked' = asked
      /\ offers' = offers /\ errors' = errors /\ hung' = hung /\ clients' = clients
    BY DEF ReleaseSource, Joined, Waits, Rest, signalled, capturing
<1>2. h \in Objects /\ Busy(h) /\ ~Registered(h) /\ ~(h > made) /\ Dying(h)
    BY <1>1, Current DEF IInv, ObjectInv, TypeOK, Objects
<1>3. handler' \in HandlerType /\ handler'.at \in Rest
  <2>1. handler \in HandlerType /\ NoClient \in 0..made
      BY DEF IInv, TypeOK, HandlerType, NoClient
  <2>2. handler.after \in Steps \cap Rest
      BY <2>1 DEF HandlerType, Steps, Rest
  <2> QED
      BY <1>1, <2>1, <2>2 DEF HandlerType
<1>4. /\ held' \in [Objects -> SUBSET Resources] /\ held'[h] = held[h] \ {"source"}
      /\ \A c \in Objects \ {h} : held'[c] = held[c]
    BY <1>1, <1>2 DEF IInv, TypeOK
<1>5. TypeOK'
    BY <1>1, <1>3, <1>4 DEF IInv, TypeOK, HandlerType
<1>6. MapInv'
    BY <1>1, <1>3 DEF IInv, MapInv
<1>7. ASSUME NEW c \in Objects PROVE ObjectInv(c)'
  <2>1. (Registered(c)' <=> Registered(c)) /\ ObjectInv(c)
      BY <1>1 DEF Registered, IInv
  <2>2. CASE c = h
    <3>1. ~Busy(c)'
        BY <1>3 DEF Busy
    <3>2. Dead(c)'
      <4>1. asked[c] = 0 /\ held[c] \subseteq {"source"}
          BY <1>1, <1>2, <2>2 DEF Dying
      <4> QED
          BY <1>1, <1>4, <2>2, <4>1 DEF Dead, Ended
    <3>3. ~Registered(c)' /\ ~(c > made') /\ (errors[c] > 0 => offers[c] = 0)'
          /\ (asked[c] > 0 => offers[c] = 0 /\ errors[c] = 0)'
        BY <1>1, <1>2, <2>1, <2>2 DEF ObjectInv
    <3> QED
        BY <3>1, <3>2, <3>3 DEF ObjectInv
  <2>3. CASE c # h
    <3>1. ~Busy(c) /\ ~Busy(c)'
        BY <1>3, <2>3 DEF Busy
    <3> QED
        BY <1>1, <1>4, <2>1, <2>3, <3>1, Untouched
  <2> QED
      BY <2>2, <2>3
<1> QED
    BY <1>5, <1>6, <1>7 DEF IInv

\* A capture thread only ends where running_ has been cleared.
LEMMA CaptureInv == ASSUME IInv, NEW d \in Objects, CaptureThread(d) PROVE IInv'
<1>1. /\ made' = made /\ held' = held /\ running' = running /\ clients' = clients /\ handler' = handler
      /\ asked' = asked /\ offers' = offers /\ errors' = errors /\ hung' = hung
    BY DEF CaptureThread, CaptureBegins, CaptureTest, CaptureFrame, Captures, signalled
<1>2. /\ capture' \in [Objects -> {"none", "begin", "test", "frame", "ended"}]
      /\ \A c \in Objects \ {d} : capture'[c] = capture[c]
      /\ capture[d] # "none" /\ ~Ended(d)
      /\ running[d] => ~Ended(d)'
    BY DEF CaptureThread, CaptureBegins, CaptureTest, CaptureFrame, Captures, IInv, TypeOK, Ended
<1>3. TypeOK'
    BY <1>1, <1>2 DEF IInv, TypeOK
<1>4. MapInv'
    BY <1>1 DEF IInv, MapInv
<1>5. ASSUME NEW c \in Objects PROVE ObjectInv(c)'
  <2>1. (Registered(c)' <=> Registered(c)) /\ (Busy(c)' <=> Busy(c)) /\ ObjectInv(c)
      BY <1>1 DEF Registered, Busy, IInv
  <2>2. Ended(c) => Ended(c)' /\ capture'[c] = capture[c]
      BY <1>2 DEF Ended
  <2>3. ~Ended(c) /\ running[c] => ~Ended(c)'
      BY <1>2 DEF Ended
  <2>4. (Fresh(c) => Fresh(c)') /\ (Complete(c) => Complete(c)') /\ (Dead(c) => Dead(c)')
      BY <1>1, <2>2, <2>3 DEF Fresh, Complete, Dead, Quiet, Ended
  <2>5. Building(c) => Building(c)'
    <3>1. capture[c] = "none" => capture'[c] = "none"
        BY <2>2 DEF Ended
    <3> QED
        BY <1>1, <2>3, <3>1 DEF Building, Quiet
  <2>6. Dying(c) => Dying(c)'
      BY <1>1, <2>2 DEF Dying
  <2> QED
      BY <1>1, <2>1, <2>4, <2>5, <2>6 DEF ObjectInv
<1> QED
    BY <1>3, <1>4, <1>5 DEF IInv

LEMMA CreatedInv == ASSUME IInv, NEW d \in Objects, OfferCreated(d) PROVE IInv'
<1>1. /\ made' = made /\ held' = held /\ running' = running /\ clients' = clients /\ handler' = handler
      /\ capture' = capture /\ errors' = errors /\ hung' = hung
      /\ asked[d] > 0 /\ asked' = [asked EXCEPT ![d] = @ - 1]
      /\ offers' \in {offers, [offers EXCEPT ![d] = @ + 1]}
    BY DEF OfferCreated, capturing
<1>2. ObjectInv(d) /\ asked[d] \in 0..1 /\ asked[d] = 1 /\ offers[d] = 0 /\ errors[d] = 0
  <2>1. ObjectInv(d) /\ asked[d] \in 0..1
      BY DEF IInv, TypeOK
  <2>2. asked[d] = 1
      BY <1>1, <2>1
  <2> QED
      BY <1>1, <2>1, <2>2 DEF ObjectInv
<1>3. /\ asked' \in [Objects -> 0..1] /\ offers' \in [Objects -> 0..1]
      /\ asked'[d] = 0
      /\ \A c \in Objects \ {d} : asked'[c] = asked[c] /\ offers'[c] = offers[c]
  <2>1. asked \in [Objects -> 0..1] /\ offers \in [Objects -> 0..1]
      BY DEF IInv, TypeOK
  <2>2. CASE offers' = offers
      BY <1>1, <1>2, <2>1, <2>2
  <2>3. CASE offers' = [offers EXCEPT ![d] = @ + 1]
      BY <1>1, <1>2, <2>1, <2>3
  <2> QED
      BY <1>1, <2>2, <2>3
<1>4. TypeOK'
    BY <1>1, <1>3 DEF IInv, TypeOK
<1>5. MapInv'
    BY <1>1 DEF IInv, MapInv
<1>6. ASSUME NEW c \in Objects PROVE ObjectInv(c)'
  <2>1. (Registered(c)' <=> Registered(c)) /\ (Busy(c)' <=> Busy(c)) /\ ObjectInv(c)
      BY <1>1 DEF Registered, Busy, IInv
  <2>2. CASE c = d
    <3>1. ~(c > made) /\ (Busy(c) => handler.at \notin Silent \cup {"audio", "offer", "threads", "join"})
        BY <1>2, <2>1, <2>2 DEF ObjectInv, Fresh, Quiet, Building, Dying
    <3>2. (Registered(c) => Complete(c)) /\ (Registered(c) \/ Busy(c))
        BY <1>2, <2>1, <2>2, <3>1 DEF ObjectInv, Dead
    <3>3. Complete(c) => Complete(c)'
        BY <1>1 DEF Complete, Ended
    <3>4. Busy(c) => Building(c)' /\ Dying(c)'
        BY <1>1, <2>1, <3>1 DEF ObjectInv, Building, Dying, Ended
    <3>5. ~(asked'[c] > 0) /\ ~(errors'[c] > 0) /\ ~(c > made')
        BY <1>1, <1>2, <1>3, <2>2, <3>1
    <3> QED
        BY <2>1, <3>2, <3>3, <3>4, <3>5 DEF ObjectInv
  <2>3. CASE c # d
    <3>1. (Fresh(c) <=> Fresh(c)') /\ (Complete(c) <=> Complete(c)') /\ (Dead(c) <=> Dead(c)')
          /\ (Building(c) <=> Building(c)') /\ (Dying(c) <=> Dying(c)')
        BY <1>1, <1>3, <2>3 DEF Fresh, Complete, Dead, Building, Dying, Quiet, Ended
    <3> QED
        BY <1>1, <1>3, <2>1, <2>3, <3>1 DEF ObjectInv
  <2> QED
      BY <2>2, <2>3
<1> QED
    BY <1>4, <1>5, <1>6 DEF IInv

\* Where a signalling thread hangs is no business of what the clients hold.
LEMMA HangInv == ASSUME IInv, NEW d \in Objects, Hangs(d) PROVE IInv'
<1>1. /\ made' = made /\ held' = held /\ running' = running /\ capture' = capture /\ clients' = clients
      /\ handler' = handler /\ asked' = asked /\ offers' = offers /\ errors' = errors
      /\ hung' = hung \cup {d}
    BY DEF Hangs, capturing
<1>2. TypeOK'
    BY <1>1 DEF IInv, TypeOK
<1>3. MapInv' /\ \A c \in Objects : ObjectInv(c)'
    BY <1>1 DEF IInv, MapInv, ObjectInv, Fresh, Complete, Dead, Building, Dying, Quiet, Ended, Busy, Registered
<1> QED
    BY <1>2, <1>3 DEF IInv

LEMMA StutterInv == IInv /\ UNCHANGED vars => IInv'
BY DEF vars, capturing, signalled, IInv, TypeOK, MapInv, ObjectInv, Fresh, Complete, Dead, Building, Dying,
       Quiet, Ended, Busy, Registered

-----------------------------------------------------------------------------
LEMMA NextInv == ASSUME IInv, [Next]_vars PROVE IInv'
<1>1. ASSUME NEW id \in Ids, Construct(id) PROVE IInv'
    BY <1>1, ConstructInv
<1>2. CASE Shutdown
    BY <1>2, ShutdownInv
<1>3. CASE InitSucceeds
    BY <1>3, PrepareInv, DeviceInv, ConnectionInv, VideoInv, LocalAudioInv, OfferInv DEF InitSucceeds
<1>4. CASE InitFails \/ Register \/ ClearClients
    BY <1>4, FailsInv, RegisterInv, ClearInv
<1>5. CASE Destructor
    BY <1>5, PollerStopInv, CloseInv, StopInv, ReleaseInv DEF Destructor
<1>6. ASSUME NEW c \in Objects, CaptureThread(c) PROVE IInv'
    BY <1>6, CaptureInv
<1>7. ASSUME NEW c \in Objects, OfferCreated(c) PROVE IInv'
    BY <1>7, CreatedInv
<1>8. ASSUME NEW id \in Ids, CallHung(id) PROVE IInv'
    BY <1>8, CallInv
<1>9. ASSUME NEW c \in Objects, Hangs(c) PROVE IInv'
    BY <1>9, HangInv
<1>10. CASE UNCHANGED vars
    BY <1>10, StutterInv
<1> QED
    BY <1>1, <1>2, <1>3, <1>4, <1>5, <1>6, <1>7, <1>8, <1>9, <1>10 DEF Next, Handles

(***************************************************************************)
(* Every push client is fresh, being built, registered, being destroyed or *)
(* dead, and holds what belongs to that stage.                             *)
(***************************************************************************)
THEOREM Invariance == Spec => []IInv
BY InitInv, NextInv, PTL DEF Spec

(***************************************************************************)
(* Type correctness, with at most one offer and one error per push client. *)
(***************************************************************************)
THEOREM TypeCorrect == Spec => []TypeOK
BY Invariance, PTL DEF IInv

(***************************************************************************)
(* No capture thread outlives the source whose this it uses.               *)
(***************************************************************************)
THEOREM ThreadsJoined == Spec => []SourceOutlivesThread
<1>1. IInv => SourceOutlivesThread
  <2> SUFFICES ASSUME IInv, NEW c \in Objects, ~Ended(c) PROVE "source" \in held[c]
      BY DEF SourceOutlivesThread
  <2>1. ObjectInv(c) /\ capture[c] # "none"
      BY DEF IInv, Ended
  <2>2. CASE Registered(c)
      BY <2>1, <2>2 DEF ObjectInv, Complete, Resources
  <2>3. CASE Busy(c) /\ ~Registered(c)
    <3>1. Building(c) /\ Dying(c) /\ handler.at \in Steps \ Rest
        BY <2>1, <2>3 DEF ObjectInv, Busy, IInv, TypeOK
    <3> QED
        BY <2>1, <3>1
        DEF Building, Dying, Silent, Started, Going, HeldAt, Resources, Steps, Rest
  <2> QED
      BY <2>1, <2>2, <2>3 DEF ObjectInv, Dead, Fresh
<1> QED
    BY <1>1, Invariance, PTL

(***************************************************************************)
(* Failed and replaced push clients hold nothing, registered ones all.     *)
(***************************************************************************)
THEOREM NoLeaks == Spec => []NothingLeaks
<1>1. IInv => NothingLeaks
  <2> SUFFICES ASSUME IInv, handler.at \in Rest, NEW c \in Objects
               PROVE  held[c] = IF Registered(c) THEN Resources ELSE {}
      BY DEF NothingLeaks, Rest
  <2>1. ObjectInv(c) /\ ~Busy(c)
      BY DEF IInv, Busy
  <2> QED
      BY <2>1 DEF ObjectInv, Complete, Fresh, Dead
<1> QED
    BY <1>1, Invariance, PTL

(***************************************************************************)
(* At rest the registered push clients are those that capture.             *)
(***************************************************************************)
THEOREM CapturersRegistered == Spec => []RegisteredCaptures
<1>1. IInv => RegisteredCaptures
  <2> SUFFICES ASSUME IInv, handler.at \in Rest, NEW c \in Objects PROVE Registered(c) <=> ~Ended(c)
      BY DEF RegisteredCaptures, Rest
  <2>1. ObjectInv(c) /\ ~Busy(c)
      BY DEF IInv, Busy
  <2> QED
      BY <2>1 DEF ObjectInv, Complete, Fresh, Dead, Ended
<1> QED
    BY <1>1, Invariance, PTL

(***************************************************************************)
(* A request that is told of an error is not sent an offer.                *)
(***************************************************************************)
THEOREM ErrorOrOffer == Spec => []NoOfferAfterError
<1>1. IInv => NoOfferAfterError
  <2> SUFFICES ASSUME IInv, NEW c \in Objects, errors[c] > 0 PROVE offers[c] = 0 /\ asked[c] = 0
      BY DEF NoOfferAfterError
  <2>1. ObjectInv(c) /\ asked[c] \in 0..1 /\ errors[c] \in 0..1
      BY DEF IInv, TypeOK
  <2> QED
      BY <2>1 DEF ObjectInv
<1> QED
    BY <1>1, Invariance, PTL

(***************************************************************************)
(* Only a complete push client takes over an id.                           *)
(***************************************************************************)
THEOREM CompleteTakesOver == Spec => GivesWayToComplete
<1> DEFINE Step == \A i \in Ids : clients'[i] \notin {clients[i], NoClient} =>
                      LET c == clients'[i] IN held[c] = Resources /\ errors[c] = 0 /\ ~Ended(c)
<1>1. IInv /\ [Next]_vars => [Step]_vars
  <2> SUFFICES ASSUME IInv, Next, NEW i \in Ids, clients'[i] \notin {clients[i], NoClient}
               PROVE  LET c == clients'[i] IN held[c] = Resources /\ errors[c] = 0 /\ ~Ended(c)
      OBVIOUS
  <2>1. clients \in [Ids -> 0..made]
      BY DEF IInv, TypeOK
  <2>2. Register
      BY <2>1 DEF Next, Construct, Shutdown, Handles, InitSucceeds, PrepareDesktopVideoSource, CreateAudioDevice,
                  CreatePeerConnection, AddDesktopVideo, AddLocalAudio, CreateAndSendOffer, Succeeds, InitFails,
                  ClearClients, CallHung, Destructor, StopRtpSendStatsPolling, ClosePeerConnection, StopThreads,
                  ReleaseSource, CaptureThread, CaptureBegins, CaptureTest, CaptureFrame, Captures, OfferCreated,
                  Hangs
  <2>3. clients'[i] = handler.client /\ handler.at = "register"
      BY <2>1, <2>2 DEF Register, Waits
  <2>4. Building(handler.client)
      BY <2>3, Current DEF Rest, IInv, ObjectInv
  <2> QED
      BY <2>3, <2>4 DEF Building, Silent, Started, HeldAt
<1> QED
    BY <1>1, Invariance, PTL DEF Spec, GivesWayToComplete

-----------------------------------------------------------------------------
(***************************************************************************)
(* Liveness.  The provers know nothing of ENABLED: that the Qt thread and  *)
(* the capture threads can take the steps they stand at is a hypothesis, a *)
(* guard for each action that has a fairness condition.                    *)
(***************************************************************************)
ThreadsRun ==
    /\ /\ handler.at \notin {"idle", "gone"} /\ ~HeldByHang
       /\ handler.at = "join" => Ended(handler.client)
       => ENABLED <<Handles>>_vars
    /\ \A c \in Objects : ~Ended(c) => ENABLED <<CaptureThread(c)>>_vars

On(c, at) == handler.client = c /\ handler.at = at

\* The destructor of c waits for a signalling thread that hangs.
Held(c) == handler.client = c /\ handler.at \in {"destroy", "close"} /\ c \in hung

\* Joining a capture thread that is at p.
Joining(c, p) == On(c, "join") /\ capture[c] = p

\* Where the Qt thread goes next with c, if it does not let go of it.
After(c, at) ==
    CASE at = "prepare" -> On(c, "adm") \/ On(c, "destroy")
      [] at = "adm" -> On(c, "connect") \/ On(c, "destroy")
      [] at = "connect" -> On(c, "video") \/ On(c, "destroy")
      [] at = "video" -> On(c, "audio") \/ On(c, "destroy")
      [] at = "audio" -> On(c, "offer") \/ On(c, "destroy")
      [] at = "offer" -> On(c, "register")
      [] at = "destroy" -> On(c, "close")
      [] at = "close" -> On(c, "threads")
      [] at = "threads" -> On(c, "join")
      [] OTHER -> ~Busy(c)

Stages == Silent \cup Started \cup {"destroy", "close", "threads"}

\* The capture thread that is joined has been told to stop.
Stopped == handler.at = "join" => ~running[handler.client]

LEMMA HandlerMoves ==
    ASSUME NEW c \in Objects, NEW at \in Stages
    PROVE  /\ IInv /\ On(c, at) /\ [Next]_vars => On(c, at)' \/ After(c, at)'
           /\ IInv /\ On(c, at) /\ Handles => After(c, at)'
<1> SUFFICES ASSUME IInv, On(c, at), [Next]_vars \/ Handles
             PROVE  /\ [Next]_vars => On(c, at)' \/ After(c, at)'
                    /\ Handles => After(c, at)'
  OBVIOUS
<1>1. handler \in HandlerType /\ handler.client = c /\ handler.at = at /\ at \notin Rest
  BY DEF IInv, TypeOK, HandlerType, On, Stages, Silent, Started, Rest
<1>2. ~Registered(c) /\ c # NoClient
  BY <1>1, Current DEF Objects, NoClient
<1>3. ASSUME NEW next \in Steps, handler' = [handler EXCEPT !.at = next] PROVE On(c, next)'
  BY <1>1, <1>3 DEF On, HandlerType
<1>4. /\ InitSucceeds => After(c, at)'
      /\ InitFails => After(c, at)'
      /\ Destructor => After(c, at)'
  <2>1. ASSUME NEW step, NEW taken, NEW next \in Steps, Succeeds(step, taken, next)
        PROVE  at = step /\ On(c, next)'
    BY <1>1, <1>3, <2>1 DEF Succeeds, Waits
  <2>2. "adm" \in Steps /\ "connect" \in Steps /\ "video" \in Steps /\ "audio" \in Steps /\ "offer" \in Steps
        /\ "register" \in Steps /\ "destroy" \in Steps /\ "close" \in Steps /\ "threads" \in Steps
        /\ "join" \in Steps
    BY DEF Steps
  <2>3. InitSucceeds => After(c, at)'
    BY <2>1, <2>2 DEF InitSucceeds, PrepareDesktopVideoSource, CreateAudioDevice, CreatePeerConnection,
                      AddDesktopVideo, AddLocalAudio, CreateAndSendOffer, After
  <2>4. InitFails => at \in {"prepare", "adm", "connect", "video", "audio"} /\ On(c, "destroy")'
    BY <1>1, <1>3, <2>2 DEF InitFails, Failed
  <2>8. StopRtpSendStatsPolling => at = "destroy" /\ On(c, "close")'
    BY <1>1, <1>3, <2>2 DEF StopRtpSendStatsPolling, Waits
  <2>5. ClosePeerConnection => at = "close" /\ On(c, "threads")'
    BY <1>1, <1>3, <2>2 DEF ClosePeerConnection, Waits
  <2>6. StopThreads => at = "threads" /\ On(c, "join")'
    BY <1>1, <1>3, <2>2 DEF StopThreads, Waits
  <2>7. ~ReleaseSource
    BY <1>1 DEF ReleaseSource, Waits, Stages, Silent, Started
  <2> QED
    BY <2>3, <2>4, <2>5, <2>6, <2>7, <2>8 DEF Destructor, After
<1>5. Register => After(c, at)'
  <2> SUFFICES ASSUME Register PROVE After(c, at)'
    OBVIOUS
  <2>1. at = "register"
    BY <1>1 DEF Register, Waits
  <2>2. handler.id \in Ids /\ clients[handler.id] # c
    BY <1>1, <1>2 DEF Registered, HandlerType
  <2>3. handler'.at = "idle" \/ handler'.client # c
    BY <1>1, <2>2 DEF Register, HandlerType
  <2> QED
    BY <2>1, <2>3 DEF After, Busy, Rest
<1>6. ~ClearClients
  BY <1>1 DEF ClearClients, Waits, Rest
<1>7. Handles => After(c, at)'
  BY <1>4, <1>5, <1>6 DEF Handles
<1>8. ASSUME handler' = handler PROVE On(c, at)'
  BY <1>8 DEF On
<1>9. ~Shutdown /\ \A id \in Ids : ~Construct(id) /\ ~CallHung(id)
  BY <1>1 DEF Shutdown, Construct, CallHung, Waits, Rest
<1>10. ASSUME NEW d \in Objects, CaptureThread(d) \/ OfferCreated(d) \/ Hangs(d) PROVE On(c, at)'
  BY <1>8, <1>10 DEF CaptureThread, CaptureBegins, CaptureTest, CaptureFrame, Captures, OfferCreated, Hangs
<1> QED
  BY <1>7, <1>8, <1>9, <1>10 DEF Next, vars

LEMMA StoppedKept == IInv /\ Stopped /\ [Next]_vars => Stopped'
<1> SUFFICES ASSUME IInv, Stopped, [Next]_vars, handler'.at = "join" PROVE ~running'[handler'.client]
  BY DEF Stopped
<1>1. handler \in HandlerType /\ handler.after \in Rest
  BY DEF IInv, TypeOK, HandlerType, Rest
<1>2. CASE StopThreads
  <2>1. handler.at = "threads" /\ running' = [running EXCEPT ![handler.client] = FALSE]
        /\ handler' = [handler EXCEPT !.at = "join"]
    BY <1>2 DEF StopThreads, Waits, Released
  <2>2. handler.client \in Objects /\ handler'.client = handler.client
    BY <1>1, <2>1, Current DEF Rest, HandlerType
  <2> QED
    BY <2>1, <2>2 DEF IInv, TypeOK
<1>3. CASE UNCHANGED <<handler, running>>
  BY <1>3 DEF Stopped
<1>4. CASE Handles /\ ~StopThreads
  <2>1. ASSUME NEW step, NEW taken, NEW next, next # "join", Succeeds(step, taken, next) PROVE FALSE
    BY <1>1, <2>1 DEF Succeeds, HandlerType
  <2>2. ~InitSucceeds
    BY <2>1 DEF InitSucceeds, PrepareDesktopVideoSource, CreateAudioDevice, CreatePeerConnection,
                AddDesktopVideo, AddLocalAudio, CreateAndSendOffer
  <2>3. ~InitFails /\ ~StopRtpSendStatsPolling /\ ~ClosePeerConnection
    BY <1>1 DEF InitFails, Failed, StopRtpSendStatsPolling, ClosePeerConnection, HandlerType
  <2>4. ~Register
    BY <1>1 DEF Register, HandlerType
  <2>5. ~ClearClients
    <3>1. ASSUME NEW i, handler' = At("destroy", i, clients[i], "closing") PROVE FALSE
      BY <3>1 DEF At
    <3>2. handler' # [handler EXCEPT !.at = "gone"]
      BY <1>1 DEF HandlerType
    <3> QED
      BY <3>1, <3>2 DEF ClearClients
  <2>6. ~ReleaseSource
    BY <1>1 DEF ReleaseSource, HandlerType, Rest
  <2> QED
    BY <1>4, <2>2, <2>3, <2>4, <2>5, <2>6 DEF Handles, Destructor
<1>5. ~Shutdown /\ \A id \in Ids : ~Construct(id) /\ ~CallHung(id)
  BY <1>1 DEF Shutdown, Construct, CallHung, At, HandlerType
<1>6. ASSUME NEW d \in Objects, CaptureThread(d) \/ OfferCreated(d) \/ Hangs(d) PROVE UNCHANGED <<handler, running>>
  BY <1>6 DEF CaptureThread, CaptureBegins, CaptureTest, CaptureFrame, Captures, OfferCreated, Hangs, capturing
<1>7. UNCHANGED vars => UNCHANGED <<handler, running>>
  BY DEF vars, capturing
<1> QED
  BY <1>2, <1>3, <1>4, <1>5, <1>6, <1>7 DEF Next

LEMMA StoppedHolds == Spec => []Stopped
<1>1. Init => Stopped
  BY DEF Init, Stopped, At
<1> QED
  BY <1>1, StoppedKept, Invariance, PTL DEF Spec

\* The capture thread that is joined comes to its test and ends there.
LEMMA JoinMoves ==
    ASSUME NEW c \in Objects
    PROVE  IInv /\ Stopped /\ [Next]_vars =>
           /\ Joining(c, "begin") => Joining(c, "begin")' \/ Joining(c, "test")'
           /\ Joining(c, "frame") => Joining(c, "frame")' \/ Joining(c, "test")'
           /\ Joining(c, "test") => Joining(c, "test")' \/ Joining(c, "ended")'
           /\ Joining(c, "ended") => Joining(c, "ended")' \/ ~Busy(c)'
           /\ Joining(c, "none") => Joining(c, "none")' \/ ~Busy(c)'
           /\ (Joining(c, "begin") \/ Joining(c, "frame")) /\ CaptureThread(c) => Joining(c, "test")'
           /\ Joining(c, "test") /\ CaptureThread(c) => Joining(c, "ended")'
           /\ (Joining(c, "ended") \/ Joining(c, "none")) /\ Handles => ~Busy(c)'
<1> SUFFICES ASSUME IInv, Stopped, [Next]_vars, On(c, "join")
             PROVE  /\ Joining(c, "begin") => Joining(c, "begin")' \/ Joining(c, "test")'
                    /\ Joining(c, "frame") => Joining(c, "frame")' \/ Joining(c, "test")'
                    /\ Joining(c, "test") => Joining(c, "test")' \/ Joining(c, "ended")'
                    /\ Joining(c, "ended") => Joining(c, "ended")' \/ ~Busy(c)'
                    /\ Joining(c, "none") => Joining(c, "none")' \/ ~Busy(c)'
                    /\ (Joining(c, "begin") \/ Joining(c, "frame")) /\ CaptureThread(c) => Joining(c, "test")'
                    /\ Joining(c, "test") /\ CaptureThread(c) => Joining(c, "ended")'
                    /\ (Joining(c, "ended") \/ Joining(c, "none")) /\ Handles => ~Busy(c)'
  BY DEF Joining
<1>1. handler.at = "join" /\ handler.client = c /\ ~running[c] /\ capture \in [Objects -> {"none", "begin", "test", "frame", "ended"}]
  BY DEF On, Stopped, IInv, TypeOK
<1>2. ASSUME NEW d \in Objects, CaptureThread(d)
      PROVE  /\ handler' = handler
             /\ d # c => capture'[c] = capture[c]
             /\ d = c => \/ capture[c] \in {"begin", "frame"} /\ capture'[c] = "test"
                         \/ capture[c] = "test" /\ capture'[c] = "ended"
  <2>1. handler' = handler
    BY <1>2 DEF CaptureThread, CaptureBegins, CaptureTest, CaptureFrame, Captures
  <2>2. d # c => capture'[c] = capture[c]
    BY <1>1, <1>2 DEF CaptureThread, CaptureBegins, CaptureTest, CaptureFrame, Captures
  <2>3. ASSUME d = c
        PROVE  \/ capture[c] \in {"begin", "frame"} /\ capture'[c] = "test"
               \/ capture[c] = "test" /\ capture'[c] = "ended"
    <3>1. ASSUME NEW from, NEW to, Captures(c, from, to) PROVE capture[c] = from /\ capture'[c] = to
      BY <1>1, <3>1 DEF Captures
    <3>2. CASE CaptureBegins(c) \/ CaptureFrame(c)
      BY <3>1, <3>2 DEF CaptureBegins, CaptureFrame
    <3>3. CASE CaptureTest(c)
      <4>1. (IF running[c] THEN "frame" ELSE "ended") = "ended"
        BY <1>1, Zenon
      <4> QED
        BY <3>1, <3>3, <4>1 DEF CaptureTest
    <3> QED
      BY <1>2, <2>3, <3>2, <3>3 DEF CaptureThread
  <2> QED
    BY <2>1, <2>2, <2>3
<1>3. Handles => ~Busy(c)' /\ Ended(c)
  <2>0. ASSUME ReleaseSource PROVE ~Busy(c)' /\ Ended(c)
    <3>1. handler' = [handler EXCEPT !.at = handler.after, !.client = NoClient]
          /\ handler \in HandlerType /\ Ended(c)
      BY <1>1, <2>0 DEF ReleaseSource, Joined, IInv, TypeOK, HandlerType
    <3>2. handler'.at \in Rest
      BY <3>1 DEF HandlerType, Rest
    <3> QED
      BY <3>1, <3>2 DEF Busy
  <2>1. ~InitSucceeds
    BY <1>1 DEF InitSucceeds, PrepareDesktopVideoSource, CreateAudioDevice, CreatePeerConnection,
                AddDesktopVideo, AddLocalAudio, CreateAndSendOffer, Succeeds, Waits
  <2>2. ~InitFails /\ ~Register /\ ~ClearClients
    BY <1>1 DEF InitFails, Register, ClearClients, Waits
  <2>3. ~StopRtpSendStatsPolling /\ ~ClosePeerConnection /\ ~StopThreads
    BY <1>1 DEF StopRtpSendStatsPolling, ClosePeerConnection, StopThreads, Waits
  <2> QED
    BY <2>0, <2>1, <2>2, <2>3 DEF Handles, Destructor
<1>4. Handles \/ (handler' = handler /\ capture'[c] = capture[c]) \/ \E d \in Objects : CaptureThread(d)
  <2>1. ~Shutdown /\ \A id \in Ids : ~Construct(id) /\ ~CallHung(id)
    BY <1>1 DEF Shutdown, Construct, CallHung, Waits
  <2>2. ASSUME NEW d \in Objects, OfferCreated(d) \/ Hangs(d) PROVE handler' = handler /\ capture' = capture
    BY <2>2 DEF OfferCreated, Hangs, capturing
  <2>3. UNCHANGED vars => handler' = handler /\ capture' = capture
    BY DEF vars, capturing
  <2> QED
    BY <2>1, <2>2, <2>3 DEF Next
<1>5. \A p : Joining(c, p) <=> capture[c] = p
  BY DEF Joining
<1>6. handler' = handler => \A p : Joining(c, p)' <=> capture'[c] = p
  BY DEF Joining, On
<1>7. CaptureThread(c) \/ (\E d \in Objects : CaptureThread(d)) => handler' = handler
  BY <1>2
<1>8. CaptureThread(c) => \/ capture[c] \in {"begin", "frame"} /\ Joining(c, "test")'
                          \/ capture[c] = "test" /\ Joining(c, "ended")'
  BY <1>2, <1>6
<1>9. \/ Handles /\ ~Busy(c)' /\ Ended(c)
      \/ CaptureThread(c)
      \/ \A p : Joining(c, p) => Joining(c, p)'
  BY <1>2, <1>3, <1>4, <1>5, <1>6
<1> QED
  BY <1>3, <1>5, <1>8, <1>9 DEF Ended

LEMMA HandlerLeaves ==
    ASSUME NEW c \in Objects, NEW at \in Stages
    PROVE  FairSpec /\ []ThreadsRun => (On(c, at) ~> After(c, at) \/ Held(c))
<1>1. ThreadsRun => (On(c, at) /\ ~Held(c) => ENABLED <<Handles>>_vars)
  <2>1. at \notin {"idle", "gone", "join", "call"}
    BY DEF Stages, Silent, Started
  <2> QED
    BY <2>1 DEF ThreadsRun, On, Held, HeldByHang, Waits
<1>2. /\ IInv /\ On(c, at) /\ [Next]_vars => On(c, at)' \/ After(c, at)'
      /\ IInv /\ On(c, at) /\ Handles => After(c, at)'
  BY HandlerMoves
<1> QED
  BY <1>1, <1>2, Invariance, PTL DEF FairSpec, Spec, Fairness

LEMMA JoinReturns ==
    ASSUME NEW c \in Objects
    PROVE  FairSpec /\ []ThreadsRun => (On(c, "join") ~> ~Busy(c))
<1>1. ThreadsRun => /\ Joining(c, "begin") \/ Joining(c, "frame") \/ Joining(c, "test") => ENABLED <<CaptureThread(c)>>_vars
                    /\ Joining(c, "ended") \/ Joining(c, "none") => ENABLED <<Handles>>_vars
  BY DEF ThreadsRun, Joining, On, Ended, HeldByHang, Waits
<1>2. Fairness => WF_vars(Handles) /\ CaptureReturns(c)
  <2>1. CapturesReturn => CaptureReturns(c)
    BY Zenon DEF CapturesReturn
  <2> QED
    BY <2>1, PTL DEF Fairness
<1>3. FairSpec /\ []ThreadsRun => /\ Joining(c, "begin") ~> Joining(c, "test")
                                  /\ Joining(c, "frame") ~> Joining(c, "test")
                                  /\ Joining(c, "test") ~> Joining(c, "ended")
  BY <1>1, <1>2, JoinMoves, Invariance, StoppedHolds, PTL DEF FairSpec, Spec, CaptureReturns
<1>4. FairSpec /\ []ThreadsRun => /\ Joining(c, "ended") ~> ~Busy(c)
                                  /\ Joining(c, "none") ~> ~Busy(c)
  BY <1>1, <1>2, JoinMoves, Invariance, StoppedHolds, PTL DEF FairSpec, Spec
<1>5. IInv /\ On(c, "join") => \/ Joining(c, "begin") \/ Joining(c, "frame") \/ Joining(c, "test")
                               \/ Joining(c, "ended") \/ Joining(c, "none")
  BY DEF IInv, TypeOK, Joining
<1> QED
  BY <1>3, <1>4, <1>5, Invariance, PTL DEF FairSpec

(***************************************************************************)
(* The Qt thread lets go of every push client it builds or destroys, or    *)
(* the destructor waits at pushclient.cpp:720 or :723 for a signalling     *)
(* thread that hangs: each step of Init is followed by another or by the   *)
(* destructor, which clears running_ before it joins the capture thread.   *)
(***************************************************************************)
THEOREM ClientLetGo ==
    FairSpec /\ []ThreadsRun => \A c \in Objects : Busy(c) ~> ~Busy(c) \/ Held(c)
<1> SUFFICES ASSUME NEW c \in Objects
             PROVE  FairSpec /\ []ThreadsRun => (Busy(c) ~> ~Busy(c) \/ Held(c))
  BY Zenon
<1> DEFINE Fair == FairSpec /\ []ThreadsRun
           Leaves(at) == Fair => (On(c, at) ~> After(c, at) \/ Held(c))
<1>1. \A at \in Stages : Leaves(at)
  BY HandlerLeaves, Zenon
<1>2. /\ After(c, "prepare") => On(c, "adm") \/ On(c, "destroy")
      /\ After(c, "adm") => On(c, "connect") \/ On(c, "destroy")
      /\ After(c, "connect") => On(c, "video") \/ On(c, "destroy")
      /\ After(c, "video") => On(c, "audio") \/ On(c, "destroy")
      /\ After(c, "audio") => On(c, "offer") \/ On(c, "destroy")
      /\ After(c, "offer") => On(c, "register")
      /\ After(c, "register") => ~Busy(c)
      /\ After(c, "destroy") => On(c, "close")
      /\ After(c, "close") => On(c, "threads")
      /\ After(c, "threads") => On(c, "join")
  BY DEF After
<1>3. IInv /\ Busy(c) => \/ On(c, "prepare") \/ On(c, "adm") \/ On(c, "connect") \/ On(c, "video")
                         \/ On(c, "audio") \/ On(c, "offer") \/ On(c, "register")
                         \/ On(c, "destroy") \/ On(c, "close") \/ On(c, "threads") \/ On(c, "join")
  BY DEF IInv, TypeOK, Busy, On, Steps, Rest
<1>4. /\ Leaves("prepare") /\ Leaves("adm") /\ Leaves("connect") /\ Leaves("video") /\ Leaves("audio")
      /\ Leaves("offer") /\ Leaves("register") /\ Leaves("destroy") /\ Leaves("close") /\ Leaves("threads")
  <2> HIDE DEF Leaves
  <2> QED
    BY <1>1 DEF Stages, Silent, Started
<1>5. Fair => (On(c, "close") ~> ~Busy(c) \/ Held(c))
  BY <1>2, <1>4, JoinReturns, PTL
<1>6. Fair => (On(c, "destroy") ~> ~Busy(c) \/ Held(c))
  BY <1>2, <1>4, <1>5, PTL
<1>7. Fair => (On(c, "video") ~> ~Busy(c) \/ Held(c))
  BY <1>2, <1>4, <1>6, PTL
<1>8. Fair => (On(c, "prepare") ~> ~Busy(c) \/ Held(c))
  BY <1>2, <1>4, <1>6, <1>7, PTL
<1> QED
  BY <1>2, <1>3, <1>4, <1>5, <1>6, <1>7, <1>8, JoinReturns, Invariance, PTL DEF FairSpec
=============================================================================
