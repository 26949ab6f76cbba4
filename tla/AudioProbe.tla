----------------------------- MODULE AudioProbe -----------------------------
(***************************************************************************)
(* How a push client chooses the device that system audio is recorded from *)
(* (ConfigureAudioCaptureDevice in module/pushclient.cpp, as built for     *)
(* Linux).  It asks the audio device module about one device after the     *)
(* other, on the worker thread, while devices may be plugged, unplugged or *)
(* taken by others.  The module of pulse_loopback_audio_device_module.cpp  *)
(* is one with a single loopback device that always answers.               *)
(***************************************************************************)
EXTENDS Integers

CONSTANT MaxDevices     \* bound on the devices the audio backend reports

ASSUME MaxDevicesIsNat == MaxDevices \in Nat

VARIABLES
    count,      \* RecordingDevices()
    devices,    \* what each device would say now
    stable,     \* history: the devices that have not changed
    at,         \* where the call is
    index, selected, fallback,  \* selected_index and fallback_index
    current,    \* the device last selected in the module
    result

machine == <<at, index, selected, fallback, current, result>>
vars == <<count, devices, stable, machine>>

NotFound == -1

\* answers: RecordingDeviceName and SetRecordingDevice return 0; loopback: what
\* LooksLikeSystemLoopbackDevice finds in its names.
Device == [answers : BOOLEAN, available : BOOLEAN, loopback : BOOLEAN]

Usable(i) == devices[i].answers /\ devices[i].available

Init ==
    /\ count \in 0..MaxDevices
    /\ devices \in [0..(count - 1) -> Device]
    /\ stable = 0..(count - 1)
    /\ at = "begin" /\ index = 0 /\ result = "none"
    /\ selected = NotFound /\ fallback = NotFound
    /\ current \in 0..(count - 1) \cup {NotFound}

Returns(outcome) == at' = "returned" /\ result' = outcome

\* adm_->Init may fail; the backend may report no device.
Begin ==
    /\ at = "begin"
    /\ \/ Returns("error")
       \/ count > 0 /\ at' = "probe" /\ UNCHANGED result
    /\ UNCHANGED <<count, devices, stable, index, selected, fallback, current>>

\* Mutant of FirstUsable: set before the device is known to be available.
FirstUsable_Unchecked(i) ==
    IF devices[i].answers /\ fallback = NotFound THEN i ELSE fallback

FirstUsable(i) ==
    IF Usable(i) /\ fallback = NotFound THEN i ELSE fallback

\* Mutant of Chosen: the loop goes on after a loopback device.
Chosen_Last(i) == /\ selected' = IF Usable(i) /\ devices[i].loopback THEN i ELSE selected
                  /\ UNCHANGED at

Chosen(i) ==
    IF Usable(i) /\ devices[i].loopback THEN selected' = i /\ at' = "final"
    ELSE UNCHANGED <<selected, at>>

\* One round of the loop; a device that answers is left selected in the module.
Probe ==
    /\ at = "probe" /\ index < count
    /\ current' = IF devices[index].answers THEN index ELSE current
    /\ fallback' = FirstUsable(index)
    /\ Chosen(index)
    /\ index' = index + 1
    /\ UNCHANGED <<count, devices, stable, result>>

\* The loop has found no loopback device.
FallBack ==
    /\ at = "probe" /\ index = count
    /\ selected' = IF selected = NotFound THEN fallback ELSE selected
    /\ at' = "final"
    /\ UNCHANGED <<count, devices, stable, index, fallback, current, result>>

\* SetRecordingDevice(selected_index), if there is one.
SelectFinal ==
    IF selected = NotFound THEN Returns("error") /\ UNCHANGED current
    ELSE IF devices[selected].answers THEN at' = "check" /\ current' = selected /\ UNCHANGED result
    ELSE Returns("vanished") /\ UNCHANGED current

Select ==
    /\ at = "final"
    /\ SelectFinal
    /\ UNCHANGED <<count, devices, stable, index, selected, fallback>>

\* RecordingIsAvailable once more, and InitRecording, which may fail.
Check ==
    /\ at = "check"
    /\ IF devices[current].available THEN Returns("opened") \/ Returns("error")
       ELSE Returns("vanished")
    /\ UNCHANGED <<count, devices, stable, index, selected, fallback, current>>

\* A device changes while the call is going on; its name does not.
DeviceChanges ==
    /\ at # "returned"
    /\ \E i \in 0..(count - 1), d \in Device :
          /\ d.loopback = devices[i].loopback
          /\ devices' = [devices EXCEPT ![i] = d]
          /\ stable' = stable \ {i}
    /\ UNCHANGED <<count, machine>>

Next == Begin \/ Probe \/ FallBack \/ Select \/ Check \/ DeviceChanges

Spec == Init /\ [][Next]_vars

-----------------------------------------------------------------------------
Indices == 0..(count - 1) \cup {NotFound}

TypeOK ==
    /\ count \in 0..MaxDevices
    /\ devices \in [0..(count - 1) -> Device]
    /\ stable \subseteq 0..(count - 1)
    /\ at \in {"begin", "probe", "final", "check", "returned"}
    /\ index \in 0..count
    /\ selected \in Indices /\ fallback \in Indices /\ current \in Indices
    /\ result \in {"none", "opened", "error", "vanished"}

\* Whether the choice of selected_index has been made.
Decided == at \in {"final", "check"}

Loopback(i) == Usable(i) /\ devices[i].loopback

(***************************************************************************)
(* The choice: the first usable loopback device, else the first usable     *)
(* device, else none.  Stated for the devices that stay as they are, so    *)
(* that it says something while others come and go: a stable usable device *)
(* is only passed over for a loopback device or for an earlier one, a      *)
(* stable loopback device only for an earlier loopback device.             *)
(***************************************************************************)
ChoosesFirstLoopback ==
    Decided => \A i \in stable :
        /\ Usable(i) => selected # NotFound /\ (devices[selected].loopback \/ selected <= i)
        /\ Loopback(i) => devices[selected].loopback /\ selected <= i
        /\ i = selected => Usable(i)

(***************************************************************************)
(* The module records from the device that was chosen, although every      *)
(* probe has selected another one in it.                                   *)
(***************************************************************************)
OpensTheChosen == result = "opened" => current = selected

(***************************************************************************)
(* The last checks refuse the device chosen only if it has changed since   *)
(* it was probed.                                                          *)
(***************************************************************************)
RefusedOnlyIfChanged == result = "vanished" => selected \notin stable
=============================================================================
