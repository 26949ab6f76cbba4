-------------------------- MODULE AudioProbeProofs --------------------------
(* The choice of the recording device, for any number of devices. *)
EXTENDS AudioProbe, TLAPS

(***************************************************************************)
(* What the loop knows of the devices it has asked about and that have not *)
(* changed since: none is a loopback device, and the first usable one is   *)
(* the fallback.                                                           *)
(***************************************************************************)
LoopInv ==
    at \in {"begin", "probe"} =>
        /\ selected = NotFound
        /\ fallback < index
        /\ \A i \in stable : i < index => ~Loopback(i) /\ (Usable(i) => fallback # NotFound /\ fallback <= i)
        /\ fallback \in stable => Usable(fallback)

AfterInv ==
    /\ at = "check" => selected # NotFound /\ current = selected
    /\ at = "begin" => index = 0
    /\ at \in {"begin", "probe", "final", "check"} => result = "none"

IInv == TypeOK /\ LoopInv /\ AfterInv /\ ChoosesFirstLoopback /\ OpensTheChosen /\ RefusedOnlyIfChanged

USE MaxDevicesIsNat

LEMMA InitInv == Init => IInv
BY DEF Init, IInv, TypeOK, LoopInv, AfterInv, ChoosesFirstLoopback, OpensTheChosen, RefusedOnlyIfChanged,
       Indices, NotFound, Decided, Usable, Loopback, Device

LEMMA BeginInv == IInv /\ Begin => IInv'
BY DEF Begin, Returns, IInv, TypeOK, LoopInv, AfterInv, ChoosesFirstLoopback, OpensTheChosen,
       RefusedOnlyIfChanged, Indices, NotFound, Decided, Usable, Loopback, Device

LEMMA ProbeInv == IInv /\ Probe => IInv'
BY DEF Probe, FirstUsable, Chosen, IInv, TypeOK, LoopInv, AfterInv, ChoosesFirstLoopback, OpensTheChosen,
       RefusedOnlyIfChanged, Indices, NotFound, Decided, Usable, Loopback, Device

LEMMA FallBackInv == IInv /\ FallBack => IInv'
BY DEF FallBack, IInv, TypeOK, LoopInv, AfterInv, ChoosesFirstLoopback, OpensTheChosen,
       RefusedOnlyIfChanged, Indices, NotFound, Decided, Usable, Loopback, Device

LEMMA SelectInv == IInv /\ Select => IInv'
BY DEF Select, SelectFinal, Returns, IInv, TypeOK, LoopInv, AfterInv, ChoosesFirstLoopback, OpensTheChosen,
       RefusedOnlyIfChanged, Indices, NotFound, Decided, Usable, Loopback, Device

LEMMA CheckInv == IInv /\ Check => IInv'
BY DEF Check, Returns, IInv, TypeOK, LoopInv, AfterInv, ChoosesFirstLoopback, OpensTheChosen,
       RefusedOnlyIfChanged, Indices, NotFound, Decided, Usable, Loopback, Device

LEMMA ChangeInv == IInv /\ DeviceChanges => IInv'
<1> SUFFICES ASSUME IInv, DeviceChanges PROVE IInv'
    OBVIOUS
<1> PICK i \in 0..(count - 1), d \in Device :
        /\ d.loopback = devices[i].loopback
        /\ devices' = [devices EXCEPT ![i] = d]
        /\ stable' = stable \ {i}
    BY DEF DeviceChanges
<1>1. UNCHANGED <<count, at, index, selected, fallback, current, result>>
    BY DEF DeviceChanges, machine
<1>2. /\ devices' \in [0..(count - 1) -> Device]
      /\ \A j \in 0..(count - 1) : devices'[j].loopback = devices[j].loopback
      /\ \A j \in stable' : devices'[j] = devices[j]
    BY DEF IInv, TypeOK
<1>3. TypeOK'
    BY <1>1, <1>2 DEF IInv, TypeOK, Indices
<1>4. \A j \in stable' : (Usable(j) <=> Usable(j)') /\ (Loopback(j) <=> Loopback(j)')
    BY <1>2 DEF Usable, Loopback
<1>5. LoopInv' /\ AfterInv'
    BY <1>1, <1>4 DEF IInv, LoopInv, AfterInv
<1>6. (selected # NotFound => devices'[selected].loopback = devices[selected].loopback)
    BY <1>2 DEF IInv, TypeOK, Indices
<1>7. ChoosesFirstLoopback'
  <2> SUFFICES ASSUME Decided, NEW j \in stable'
               PROVE (/\ Usable(j) => selected # NotFound /\ (devices[selected].loopback \/ selected <= j)
                      /\ Loopback(j) => devices[selected].loopback /\ selected <= j
                      /\ j = selected => Usable(j))'
      BY <1>1 DEF ChoosesFirstLoopback, Decided
  <2>1. /\ Usable(j) => selected # NotFound /\ (devices[selected].loopback \/ selected <= j)
        /\ Loopback(j) => devices[selected].loopback /\ selected <= j
        /\ j = selected => Usable(j)
      BY DEF IInv, ChoosesFirstLoopback
  <2>2. Loopback(j) => Usable(j)
      BY DEF Loopback
  <2> QED
      BY <1>1, <1>4, <1>6, <2>1, <2>2
<1>8. OpensTheChosen' /\ RefusedOnlyIfChanged'
    BY <1>1 DEF IInv, OpensTheChosen, RefusedOnlyIfChanged
<1> QED
    BY <1>3, <1>5, <1>7, <1>8 DEF IInv

(***************************************************************************)
(* The inductive invariant holds throughout, whatever the number of        *)
(* devices and however they change.                                        *)
(***************************************************************************)
THEOREM Invariance == Spec => []IInv
<1>1. IInv /\ [Next]_vars => IInv'
  <2> SUFFICES ASSUME IInv, [Next]_vars PROVE IInv'
      OBVIOUS
  <2>1. CASE Begin
      BY <2>1, BeginInv
  <2>2. CASE Probe
      BY <2>2, ProbeInv
  <2>3. CASE FallBack
      BY <2>3, FallBackInv
  <2>4. CASE Select
      BY <2>4, SelectInv
  <2>5. CASE Check
      BY <2>5, CheckInv
  <2>6. CASE DeviceChanges
      BY <2>6, ChangeInv
  <2>7. CASE UNCHANGED vars
      BY <2>7 DEF vars, machine, IInv, TypeOK, LoopInv, AfterInv, ChoosesFirstLoopback, OpensTheChosen,
                  RefusedOnlyIfChanged, Indices, Decided, Usable, Loopback
  <2> QED
      BY <2>1, <2>2, <2>3, <2>4, <2>5, <2>6, <2>7 DEF Next
<1> QED
    BY InitInv, <1>1, PTL DEF Spec

(***************************************************************************)
(* Type correctness: no index leaves the range of the devices.             *)
(***************************************************************************)
THEOREM TypeCorrect == Spec => []TypeOK
BY Invariance, PTL DEF IInv

(***************************************************************************)
(* ConfigureAudioCaptureDevice takes the first usable loopback device, or  *)
(* else the first usable one, whatever changes while it looks.             *)
(***************************************************************************)
THEOREM LoopbackFirst == Spec => []ChoosesFirstLoopback
BY Invariance, PTL DEF IInv

(***************************************************************************)
(* The module is left on the device chosen, not on the one probed last.    *)
(***************************************************************************)
THEOREM RightDeviceOpened == Spec => []OpensTheChosen
BY Invariance, PTL DEF IInv

(***************************************************************************)
(* A device that stays as it was when it was probed is not refused later.  *)
(***************************************************************************)
THEOREM RefusalNeedsChange == Spec => []RefusedOnlyIfChanged
BY Invariance, PTL DEF IInv
=============================================================================
