---------------------------- MODULE MediaConfig ----------------------------
(***************************************************************************)
(* How a push client sets up its two tracks (AddDesktopVideo and           *)
(* AddLocalAudio, pushclient.cpp), the codec preferences of the audio      *)
(* entry by entry.  A codec is reduced to whether it is Opus, in any case  *)
(* of its letters, and the list of preferences to the places its entries   *)
(* have in the list of capabilities.  One client is set up at a time.      *)
(***************************************************************************)
EXTENDS Naturals, Sequences

CONSTANT MaxCodecs  \* bound on the number of codecs WebRTC offers

ASSUME CodecBound == MaxCodecs \in Nat

VARIABLES
    step,       \* what is done next
    codecs,     \* the sender's capabilities
    at,         \* the entry the loop is at
    preferred   \* the preferences so far

mediaVars == <<step, codecs, at, preferred>>

Codec == {"opus", "other"}
CodecLists == UNION {[1..n -> Codec] : n \in 0..MaxCodecs}

MediaInit ==
    /\ step = "off"
    /\ codecs = <<>> /\ at = 1 /\ preferred = <<>>

\* The capabilities are WebRTC's.
MediaStart ==
    /\ step = "off" /\ step' = "video"
    /\ codecs' \in CodecLists /\ at' = 1 /\ preferred' = <<>>

\* AddDesktopVideo succeeds, whatever its ConfigureAbsoluteCaptureTimeHeaderExtension
\* returns: it is not asked, here and in AddLocalAudio.
AddDesktopVideo ==
    /\ step = "video" /\ step' = "audio"
    /\ UNCHANGED <<codecs, at, preferred>>

\* AddLocalAudio up to the loop of ConfigureAudioCodecPreferences, which is
\* left out when there is nothing to prefer.
AddLocalAudio ==
    /\ step = "audio"
    /\ step' = IF codecs = <<>> THEN "parameters" ELSE "codecs"
    /\ UNCHANGED <<codecs, at, preferred>>

\* Mutant of Prefer: Opus replaces what stood first instead of pushing it back.
Prefer_Replaces(list, k) ==
    IF codecs[k] = "opus" THEN <<k>> \o (IF list = <<>> THEN list ELSE Tail(list)) ELSE Append(list, k)

\* preferred_codecs.insert(begin(), codec), or push_back(codec).
Prefer(list, k) == IF codecs[k] = "opus" THEN <<k>> \o list ELSE Append(list, k)

\* One round of the loop.
NextCodec ==
    /\ step = "codecs" /\ at <= Len(codecs)
    /\ preferred' = Prefer(preferred, at)
    /\ at' = at + 1
    /\ UNCHANGED <<step, codecs>>

SetCodecPreferences ==
    /\ step = "codecs" /\ at > Len(codecs)
    /\ step' = "parameters"
    /\ UNCHANGED <<codecs, at, preferred>>

MediaStep == AddDesktopVideo \/ AddLocalAudio \/ NextCodec \/ SetCodecPreferences

MediaReset == step' = "off" /\ codecs' = <<>> /\ at' = 1 /\ preferred' = <<>>

\* CreatePeerConnection, AddTransceiver, SetCodecPreferences or SetParameters fails.
MediaFails ==
    /\ \/ step \in {"video", "audio", "parameters"}
       \/ step = "codecs" /\ at > Len(codecs)
    /\ MediaReset

\* ConfigureAudioSenderParameters succeeds, the last step of all.
MediaDone == step = "parameters" /\ MediaReset
=============================================================================
