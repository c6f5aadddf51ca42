------------------------- MODULE DeviceMetadataProofs -------------------------
(***************************************************************************)
(* What module DeviceMetadata promises, for any sets of ids and any number *)
(* of faults in a run.                                                     *)
(***************************************************************************)
EXTENDS DeviceMetadata, TLAPS

(* What a fault adds to what has gone wrong. *)
LEMMA FaultAdds ==
    ASSUME NEW what \in FaultKinds, Fault(what),
           TypeOK
    PROVE  /\ faults \subseteq faults' /\ <<what, at>> \in faults'
           /\ faults' \subseteq FaultKinds \X Steps
           /\ Lingering' <=> Lingering \/ what \in {"late", "stopped"}
           /\ Failed' <=> Failed \/ what \in {"failed", "unanswered"}
           /\ Lost' <=> Lost \/ what = "lost"
           /\ Stopped' <=> Stopped \/ what = "stopped"
  <1> USE DEF FaultKinds
  <1>1. faults' = faults \cup {<<what, at>>} /\ <<what, at>>[1] = what
    BY DEF Fault
  <1>2. at \in Steps
    BY DEF TypeOK
  <1>3. Lingering' <=> Lingering \/ what \in {"late", "stopped"}
    BY <1>1 DEF Lingering
  <1>4. Failed' <=> Failed \/ what \in {"failed", "unanswered"}
    BY <1>1 DEF Failed
  <1>5. Lost' <=> Lost \/ what = "lost"
    BY <1>1 DEF Lost
  <1>6. Stopped' <=> Stopped \/ what = "stopped"
    BY <1>1 DEF Stopped
  <1> QED
    BY <1>1, <1>2, <1>3, <1>4, <1>5, <1>6 DEF TypeOK

(* Without a fault it stays as it is. *)
LEMMA NoFault ==
    ASSUME UNCHANGED faults
    PROVE  /\ (Lingering' <=> Lingering)
           /\ (Failed' <=> Failed)
           /\ (Lost' <=> Lost)
           /\ (Stopped' <=> Stopped)
  BY DEF Lingering, Failed, Lost, Stopped

(* What the outcome of a call does to both. *)
LEMMA CallOutcome ==
    ASSUME TypeOK, raised \subseteq raised',
           \/ UNCHANGED faults
           \/ Fault("failed") /\ raised' # {}
           \/ Fault("unanswered") /\ raised' # {}
    PROVE  /\ faults \subseteq faults' /\ faults' \subseteq FaultKinds \X Steps
           /\ (Lingering' <=> Lingering) /\ (Lost' <=> Lost) /\ (Stopped' <=> Stopped)
           /\ Failed' => Failed \/ raised' # {}
  <1>1. CASE UNCHANGED faults
    BY <1>1, NoFault DEF TypeOK
  <1>2. CASE Fault("failed") /\ raised' # {}
    BY <1>2, FaultAdds DEF FaultKinds
  <1>3. CASE Fault("unanswered") /\ raised' # {}
    BY <1>3, FaultAdds DEF FaultKinds
  <1> QED
    BY <1>1, <1>2, <1>3

(* An alarm stays explained, and a new one needs an explanation. *)
LEMMA AlarmsStayExplained ==
    ASSUME NoFalseAlarm, faults \subseteq faults',
           \A m \in raised' : m \in raised \/ \E f \in faults' : Explains(f, m)
    PROVE  NoFalseAlarm'
  <1> SUFFICES ASSUME NEW m \in raised' PROVE \E f \in faults' : Explains(f, m)
    BY DEF NoFalseAlarm, Explains
  <1>1. CASE m \in raised
    <2>1. PICK f \in faults : Explains(f, m)
      BY <1>1 DEF NoFalseAlarm
    <2> QED
      BY <2>1
  <1> QED
    BY <1>1

LEMMA InitInv == Init => Inv
  BY DEF Init, Inv, TypeOK, Steps, Metrics, ListsAreComplete, NothingToFind, DeviceIsKnown,
         NameIsFollowed, FaultsAreFollowed, NoFalseAlarm, Lingering, Failed, Lost, Stopped,
         Creating, Renaming

LEMMA StartKeepsInv == Inv /\ StartRun => Inv'
  <1> SUFFICES ASSUME Inv, StartRun PROVE Inv'
    OBVIOUS
  <1> USE DEF Inv, StartRun, Creating, Renaming
  <1>1. ~Lingering' /\ ~Failed' /\ ~Lost' /\ ~Stopped'
    BY DEF Lingering, Failed, Lost, Stopped
  <1>2. TypeOK'
    BY DEF TypeOK, Steps
  <1>3. ListsAreComplete'
    BY <1>1 DEF ListsAreComplete, Settled
  <1>4. NothingToFind' /\ DeviceIsKnown'
    BY DEF NothingToFind, DeviceIsKnown
  <1>5. NameIsFollowed'
    BY DEF NameIsFollowed
  <1>6. FaultsAreFollowed' /\ NoFalseAlarm'
    BY <1>1 DEF FaultsAreFollowed, NoFalseAlarm
  <1> QED
    BY <1>1, <1>2, <1>3, <1>4, <1>5, <1>6

LEMMA StopKeepsInv == Inv /\ StopRun => Inv'
  <1> SUFFICES ASSUME Inv, StopRun PROVE Inv'
    OBVIOUS
  <1> USE DEF Inv, StopRun, Creating, Renaming, repoVars
  <1>1. /\ Lingering' /\ Stopped'
        /\ faults' \subseteq FaultKinds \X Steps
    BY FaultAdds DEF FaultKinds
  <1>2. TypeOK'
    BY <1>1 DEF TypeOK, Steps
  <1>3. ListsAreComplete'
    BY <1>1 DEF ListsAreComplete
  <1>4. NothingToFind' /\ DeviceIsKnown'
    BY DEF NothingToFind, DeviceIsKnown
  <1>5. NameIsFollowed'
    BY <1>1 DEF NameIsFollowed
  <1>6. FaultsAreFollowed' /\ NoFalseAlarm'
    BY <1>1 DEF FaultsAreFollowed, NoFalseAlarm
  <1> QED
    BY <1>1, <1>2, <1>3, <1>4, <1>5, <1>6

LEMMA EnsureDeviceKeepsInv == Inv /\ EnsureDevice => Inv'
  <1> SUFFICES ASSUME Inv, EnsureDevice PROVE Inv'
    OBVIOUS
  <1> USE DEF Inv, EnsureDevice, QueryFails, Raise, Creating, Renaming, repoVars
  <1>0. /\ raised \subseteq raised'
        /\ \/ UNCHANGED faults
           \/ Fault("failed") /\ raised' # {}
           \/ Fault("unanswered") /\ raised' # {}
    OBVIOUS
  <1>1. /\ faults \subseteq faults' /\ faults' \subseteq FaultKinds \X Steps
        /\ (Lingering' <=> Lingering) /\ (Lost' <=> Lost) /\ (Stopped' <=> Stopped)
        /\ Failed' => Failed \/ raised' # {}
    BY <1>0, CallOutcome
  <1>2. TypeOK'
    BY <1>1 DEF TypeOK, Steps, Metrics
  <1>3. ListsAreComplete' /\ NothingToFind'
    BY <1>1 DEF ListsAreComplete, NothingToFind
  <1>4. DeviceIsKnown'
    BY <1>1 DEF DeviceIsKnown, TypeOK
  <1>5. NameIsFollowed'
    BY <1>1 DEF NameIsFollowed, TypeOK
  <1>6. FaultsAreFollowed'
    BY <1>0, <1>1 DEF FaultsAreFollowed, NameIsFollowed, TypeOK
  <1>7. NoFalseAlarm'
    <2>1. \A m \in raised' : m \in raised \/ \E f \in faults' : Explains(f, m)
      BY <1>1, FaultAdds DEF FaultKinds, Explains, DeviceIsKnown
    <2> QED
      BY <1>1, <2>1, AlarmsStayExplained
  <1> QED
    BY <1>1, <1>2, <1>3, <1>4, <1>5, <1>6, <1>7

LEMMA EnsureDeviceTypeKeepsInv == Inv /\ EnsureDeviceType => Inv'
  <1> SUFFICES ASSUME Inv, EnsureDeviceType PROVE Inv'
    OBVIOUS
  <1> USE DEF Inv, EnsureDeviceType, QueryFails, Raise, Creating, Renaming, repoVars
  <1>0. /\ raised \subseteq raised'
        /\ \/ UNCHANGED faults
           \/ Fault("failed") /\ raised' # {}
           \/ Fault("unanswered") /\ raised' # {}
    OBVIOUS
  <1>1. /\ faults \subseteq faults' /\ faults' \subseteq FaultKinds \X Steps
        /\ (Lingering' <=> Lingering) /\ (Lost' <=> Lost) /\ (Stopped' <=> Stopped)
        /\ Failed' => Failed \/ raised' # {}
    BY <1>0, CallOutcome
  <1>2. TypeOK'
    BY <1>1 DEF TypeOK, Steps, Metrics
  <1>3. ListsAreComplete' /\ NothingToFind'
    BY <1>1 DEF ListsAreComplete, NothingToFind
  <1>4. DeviceIsKnown'
    BY <1>1 DEF DeviceIsKnown, TypeOK
  <1>5. NameIsFollowed'
    BY <1>1 DEF NameIsFollowed, TypeOK
  <1>6. FaultsAreFollowed'
    BY <1>0, <1>1 DEF FaultsAreFollowed, NameIsFollowed, TypeOK
  <1>7. NoFalseAlarm'
    <2>1. \A m \in raised' : m \in raised \/ \E f \in faults' : Explains(f, m)
      BY <1>1, FaultAdds DEF FaultKinds, Explains, DeviceIsKnown
    <2> QED
      BY <1>1, <2>1, AlarmsStayExplained
  <1> QED
    BY <1>1, <1>2, <1>3, <1>4, <1>5, <1>6, <1>7

LEMMA ReadDeviceKeepsInv == Inv /\ ReadDevice => Inv'
  <1> SUFFICES ASSUME Inv, ReadDevice PROVE Inv'
    OBVIOUS
  <1> USE DEF Inv, ReadDevice, QueryFails, Raise, Creating, Renaming, repoVars
  <1>0. /\ raised \subseteq raised'
        /\ \/ UNCHANGED faults
           \/ Fault("failed") /\ raised' # {}
           \/ Fault("unanswered") /\ raised' # {}
    OBVIOUS
  <1>1. /\ faults \subseteq faults' /\ faults' \subseteq FaultKinds \X Steps
        /\ (Lingering' <=> Lingering) /\ (Lost' <=> Lost) /\ (Stopped' <=> Stopped)
        /\ Failed' => Failed \/ raised' # {}
    BY <1>0, CallOutcome
  <1>2. TypeOK'
    BY <1>1 DEF TypeOK, Steps, Metrics
  <1>3. ListsAreComplete' /\ NothingToFind'
    BY <1>1 DEF ListsAreComplete, NothingToFind
  <1>4. DeviceIsKnown'
    BY <1>1 DEF DeviceIsKnown, TypeOK
  <1>5. NameIsFollowed'
    BY <1>1 DEF NameIsFollowed, TypeOK
  <1>6. FaultsAreFollowed'
    BY <1>0, <1>1 DEF FaultsAreFollowed, NameIsFollowed, TypeOK
  <1>7. NoFalseAlarm'
    <2>1. \A m \in raised' : m \in raised \/ \E f \in faults' : Explains(f, m)
      BY <1>1, FaultAdds DEF FaultKinds, Explains, DeviceIsKnown
    <2> QED
      BY <1>1, <2>1, AlarmsStayExplained
  <1> QED
    BY <1>1, <1>2, <1>3, <1>4, <1>5, <1>6, <1>7

LEMMA CreateCanaryDeviceTypeKeepsInv == Inv /\ CreateCanaryDeviceType => Inv'
  <1> SUFFICES ASSUME Inv, CreateCanaryDeviceType PROVE Inv'
    OBVIOUS
  <1> USE DEF Inv, CreateCanaryDeviceType, ChangeFails, Raise, Creating, Renaming
  <1>0. /\ raised \subseteq raised'
        /\ \/ UNCHANGED faults
           \/ Fault("failed") /\ raised' # {}
           \/ Fault("unanswered") /\ raised' # {}
    OBVIOUS
  <1>1. /\ faults \subseteq faults' /\ faults' \subseteq FaultKinds \X Steps
        /\ (Lingering' <=> Lingering) /\ (Lost' <=> Lost) /\ (Stopped' <=> Stopped)
        /\ Failed' => Failed \/ raised' # {}
    BY <1>0, CallOutcome
  <1>2. TypeOK'
    BY <1>1 DEF TypeOK, Steps, Metrics
  <1>3. ListsAreComplete' /\ NothingToFind'
    BY <1>1 DEF ListsAreComplete, NothingToFind
  <1>4. DeviceIsKnown'
    BY <1>1 DEF DeviceIsKnown, TypeOK
  <1>5. NameIsFollowed'
    BY <1>1 DEF NameIsFollowed, TypeOK
  <1>6. FaultsAreFollowed'
    BY <1>0, <1>1 DEF FaultsAreFollowed, NameIsFollowed, TypeOK
  <1>7. NoFalseAlarm'
    <2>1. \A m \in raised' : m \in raised \/ \E f \in faults' : Explains(f, m)
      BY <1>1, FaultAdds DEF FaultKinds, Explains
    <2> QED
      BY <1>1, <2>1, AlarmsStayExplained
  <1> QED
    BY <1>1, <1>2, <1>3, <1>4, <1>5, <1>6, <1>7

LEMMA CreateCanaryDeviceKeepsInv == Inv /\ CreateCanaryDevice => Inv'
  <1> SUFFICES ASSUME Inv, CreateCanaryDevice PROVE Inv'
    OBVIOUS
  <1> USE DEF Inv, CreateCanaryDevice, ChangeFails, Raise, AddDevice, Creating, Renaming
  <1>0. /\ raised \subseteq raised'
        /\ \/ UNCHANGED faults
           \/ Fault("failed") /\ raised' # {}
           \/ Fault("unanswered") /\ raised' # {}
    OBVIOUS
  <1>1. /\ faults \subseteq faults' /\ faults' \subseteq FaultKinds \X Steps
        /\ (Lingering' <=> Lingering) /\ (Lost' <=> Lost) /\ (Stopped' <=> Stopped)
        /\ Failed' => Failed \/ raised' # {}
    BY <1>0, CallOutcome
  <1>2. TypeOK'
    BY <1>1 DEF TypeOK, Steps, Metrics
  <1>3. ListsAreComplete' /\ NothingToFind'
    BY <1>1 DEF ListsAreComplete, NothingToFind
  <1>4. DeviceIsKnown'
    BY <1>1 DEF DeviceIsKnown, TypeOK
  <1>5. NameIsFollowed'
    BY <1>1 DEF NameIsFollowed, TypeOK
  <1>6. FaultsAreFollowed'
    BY <1>0, <1>1 DEF FaultsAreFollowed, NameIsFollowed, TypeOK
  <1>7. NoFalseAlarm'
    <2>1. \A m \in raised' : m \in raised \/ \E f \in faults' : Explains(f, m)
      BY <1>1, FaultAdds DEF FaultKinds, Explains
    <2> QED
      BY <1>1, <2>1, AlarmsStayExplained
  <1> QED
    BY <1>1, <1>2, <1>3, <1>4, <1>5, <1>6, <1>7

LEMMA SaveDeviceKeepsInv == Inv /\ SaveDevice => Inv'
  <1> SUFFICES ASSUME Inv, SaveDevice PROVE Inv'
    OBVIOUS
  <1> USE DEF Inv, SaveDevice, ChangeFails, Raise, Creating, Renaming
  <1>0. /\ raised \subseteq raised'
        /\ \/ UNCHANGED faults
           \/ Fault("failed") /\ raised' # {}
           \/ Fault("unanswered") /\ raised' # {}
    OBVIOUS
  <1>1. /\ faults \subseteq faults' /\ faults' \subseteq FaultKinds \X Steps
        /\ (Lingering' <=> Lingering) /\ (Lost' <=> Lost) /\ (Stopped' <=> Stopped)
        /\ Failed' => Failed \/ raised' # {}
    BY <1>0, CallOutcome
  <1>2. TypeOK'
    BY <1>1 DEF TypeOK, Steps, Metrics
  <1>3. ListsAreComplete' /\ NothingToFind'
    BY <1>1 DEF ListsAreComplete, NothingToFind
  <1>4. DeviceIsKnown'
    BY <1>1 DEF DeviceIsKnown, TypeOK
  <1>5. NameIsFollowed'
    BY <1>1, FaultAdds DEF FaultKinds, NameIsFollowed, DeviceIsKnown, TypeOK
  <1>6. FaultsAreFollowed'
    BY <1>0, <1>1 DEF FaultsAreFollowed, NameIsFollowed, DeviceIsKnown, TypeOK
  <1>7. NoFalseAlarm'
    <2>1. \A m \in raised' : m \in raised \/ \E f \in faults' : Explains(f, m)
      BY <1>1, FaultAdds DEF FaultKinds, Explains
    <2> QED
      BY <1>1, <2>1, AlarmsStayExplained
  <1> QED
    BY <1>1, <1>2, <1>3, <1>4, <1>5, <1>6, <1>7

LEMMA CheckDeviceKeepsInv == Inv /\ CheckDevice => Inv'
  <1> SUFFICES ASSUME Inv, CheckDevice PROVE Inv'
    OBVIOUS
  <1> USE DEF Inv, CheckDevice, Raise, Creating, Renaming, repoVars
  <1>0. /\ raised \subseteq raised'
        /\ \/ UNCHANGED faults
           \/ Fault("failed") /\ raised' # {}
           \/ Fault("unanswered") /\ raised' # {}
    OBVIOUS
  <1>1. /\ faults \subseteq faults' /\ faults' \subseteq FaultKinds \X Steps
        /\ (Lingering' <=> Lingering) /\ (Lost' <=> Lost) /\ (Stopped' <=> Stopped)
        /\ Failed' => Failed \/ raised' # {}
    BY <1>0, CallOutcome
  <1>2. TypeOK'
    BY <1>1 DEF TypeOK, Steps, Metrics
  <1>3. ListsAreComplete' /\ NothingToFind'
    BY <1>1 DEF ListsAreComplete, NothingToFind
  <1>4. DeviceIsKnown'
    BY <1>1 DEF DeviceIsKnown, TypeOK
  <1>5. NameIsFollowed'
    BY <1>1, FaultAdds DEF FaultKinds, NameIsFollowed, DeviceIsKnown, TypeOK
  <1>6. FaultsAreFollowed'
    BY <1>0, <1>1 DEF FaultsAreFollowed, NameIsFollowed, DeviceIsKnown, TypeOK
  <1>7. NoFalseAlarm'
    <2>1. \A m \in raised' : m \in raised \/ \E f \in faults' : Explains(f, m)
      BY <1>1, FaultAdds DEF FaultKinds, Explains, NameIsFollowed, DeviceIsKnown, TypeOK, Lost
    <2> QED
      BY <1>1, <2>1, AlarmsStayExplained
  <1> QED
    BY <1>1, <1>2, <1>3, <1>4, <1>5, <1>6, <1>7

LEMMA SleepKeepsInv ==
    ASSUME Inv, NEW step, NEW next, SleepStep(step, next),
           <<step, next>> \in {<<"typeSleep", "createDevice">>, <<"typeSleepError", "end">>,
                              <<"deviceSleep", "read">>, <<"deviceSleepError", "end">>,
                              <<"sleep", "check">>}
    PROVE  Inv'
  <1> USE DEF Inv, SleepStep, Creating, Renaming, repoVars
  <1>1. /\ faults \subseteq faults' /\ faults' \subseteq FaultKinds \X Steps
        /\ Lingering => Lingering'
        /\ (Lost' <=> Lost) /\ (Stopped' <=> Stopped) /\ (Failed' <=> Failed)
        /\ \/ UNCHANGED faults /\ Settled
           \/ Lingering' /\ <<"late", at>> \in faults'
    <2>1. CASE UNCHANGED faults /\ Settled
      BY <2>1, NoFault DEF TypeOK
    <2>2. CASE Fault("late")
      BY <2>2, FaultAdds DEF FaultKinds
    <2> QED
      BY <2>1, <2>2
  <1>2. TypeOK'
    BY <1>1 DEF TypeOK, Steps
  <1>3. ListsAreComplete'
    BY <1>1 DEF ListsAreComplete, Settled
  <1>4. NothingToFind'
    BY <1>1 DEF NothingToFind, Settled
  <1>5. DeviceIsKnown'
    BY <1>1 DEF DeviceIsKnown, Settled
  <1>6. NameIsFollowed'
    <2>1. at \notin {"sleep", "check", "end"} => shownName = name
      BY DEF NameIsFollowed, TypeOK
    <2>2. <<"late", "sleep">> \in faults' \/ at # "sleep" \/ Settled
      BY <1>1
    <2> QED
      BY <1>1, <2>1, <2>2 DEF NameIsFollowed, Settled
  <1>7. FaultsAreFollowed'
    BY <1>1 DEF FaultsAreFollowed
  <1>8. NoFalseAlarm'
    BY <1>1, AlarmsStayExplained
  <1> QED
    BY <1>1, <1>2, <1>3, <1>4, <1>5, <1>6, <1>7, <1>8

LEMMA PlatformKeepsInv == Inv /\ PlatformStep => Inv'
  <1> SUFFICES ASSUME Inv, PlatformStep PROVE Inv'
    OBVIOUS
  <1> USE DEF Inv, PlatformStep, Creating, Renaming, runVars
  <1>1. CASE ShowType \/ ShowDevice \/ ShowName
    <2> USE DEF ShowType, ShowDevice, ShowName
    <2>0. UNCHANGED faults
      BY <1>1
    <2>1. /\ (Lingering' <=> Lingering) /\ (Lost' <=> Lost)
          /\ (Stopped' <=> Stopped) /\ (Failed' <=> Failed)
      BY <2>0, NoFault
    <2>2. TypeOK'
      BY <1>1 DEF TypeOK
    <2>3. ListsAreComplete' /\ NothingToFind' /\ DeviceIsKnown'
      BY <1>1, <2>1 DEF ListsAreComplete, NothingToFind, DeviceIsKnown, TypeOK
    <2>4. NameIsFollowed'
      BY <1>1, <2>1 DEF NameIsFollowed, DeviceIsKnown, TypeOK
    <2>5. FaultsAreFollowed'
      BY <1>1, <2>1 DEF FaultsAreFollowed
    <2>6. NoFalseAlarm'
      BY <1>1, AlarmsStayExplained
    <2> QED
      BY <2>1, <2>2, <2>3, <2>4, <2>5, <2>6
  <1>2. CASE LoseName
    <2> USE DEF LoseName
    <2>1. /\ faults \subseteq faults' /\ faults' \subseteq FaultKinds \X Steps
          /\ (Lingering' <=> Lingering) /\ Lost'
          /\ (Stopped' <=> Stopped) /\ (Failed' <=> Failed)
      BY <1>2, FaultAdds DEF FaultKinds
    <2>2. TypeOK'
      BY <1>2, <2>1 DEF TypeOK
    <2>3. ListsAreComplete' /\ NothingToFind' /\ DeviceIsKnown'
      BY <1>2, <2>1 DEF ListsAreComplete, NothingToFind, DeviceIsKnown
    <2>4. NameIsFollowed'
      BY <1>2, <2>1 DEF NameIsFollowed, DeviceIsKnown, TypeOK
    <2>5. FaultsAreFollowed'
      <3>1. ~Stopped => raised # {} \/ (at \in Renaming /\ \A d \in DeviceIds : shownName[d] = "old")
        BY <1>2 DEF NameIsFollowed, DeviceIsKnown, TypeOK
      <3> QED
        BY <1>2, <2>1, <3>1 DEF FaultsAreFollowed
    <2>6. NoFalseAlarm'
      BY <1>2, <2>1, AlarmsStayExplained
    <2> QED
      BY <2>1, <2>2, <2>3, <2>4, <2>5, <2>6
  <1> QED
    BY <1>1, <1>2

-------------------------------------------------------------------------------
(* The inductive invariant holds: lists are complete while they matter, a run *)
(* that creates has reason to, the new name can be followed.                  *)
THEOREM InvHolds == Spec => []Inv
  <1>1. Inv /\ UNCHANGED vars => Inv'
    BY DEF vars, repoVars, runVars, Inv, TypeOK, ListsAreComplete, NothingToFind, DeviceIsKnown,
           NameIsFollowed, FaultsAreFollowed, NoFalseAlarm, Lingering, Failed, Lost, Stopped, Explains
  <1>2. Inv /\ RunStep => Inv'
    BY EnsureDeviceKeepsInv, EnsureDeviceTypeKeepsInv, ReadDeviceKeepsInv,
       CreateCanaryDeviceTypeKeepsInv, CreateCanaryDeviceKeepsInv, SaveDeviceKeepsInv,
       CheckDeviceKeepsInv, SleepKeepsInv DEF RunStep
  <1>3. Inv /\ [Next]_vars => Inv'
    BY <1>1, <1>2, StartKeepsInv, StopKeepsInv, PlatformKeepsInv DEF Next
  <1> QED
    BY InitInv, <1>3, PTL DEF Spec

(* The state of a run and of the repository keeps its type: in particular the *)
(* repository lists only what exists, and ids in use are those of something.  *)
THEOREM TypeCorrect == Spec => []TypeOK
  <1>1. Inv => TypeOK
    BY DEF Inv
  <1> QED
    BY InvHolds, <1>1, PTL

(* Every alarm names a fault of its own run. *)
THEOREM NoAlarmIsFalse == Spec => []NoFalseAlarm
  <1>1. Inv => NoFalseAlarm
    BY DEF Inv
  <1> QED
    BY InvHolds, <1>1, PTL

(* No run that comes to its end is silent about a fault. *)
THEOREM NoFaultIsSilent == Spec => []FaultsAreReported
  <1>1. Inv => FaultsAreReported
    <2> SUFFICES ASSUME Inv, at = "end", \A f \in faults : f[1] # "stopped",
                        NEW f \in faults, f[1] # "late"
                 PROVE  raised # {}
      BY DEF FaultsAreReported
    <2>1. f[1] \in {"failed", "unanswered", "lost"}
      BY DEF Inv, TypeOK, FaultKinds
    <2>2. ~Stopped /\ (Failed \/ Lost)
      BY <2>1 DEF Stopped, Failed, Lost
    <2> QED
      BY <2>2 DEF Inv, FaultsAreFollowed, Renaming
  <1> QED
    BY InvHolds, <1>1, PTL

(* There is never a second device or type, unless a run starts at once after  *)
(* one that was cut or that waited in vain.                                   *)
THEOREM NeverCreatesTwice == Spec => CreatesOnce
  <1> DEFINE Once == ~faulty => /\ types' # types => types = {}
                                /\ devices' # devices => devices = {}
  <1>1. Inv /\ [Next]_vars => Once
    <2> SUFFICES ASSUME Inv, Next PROVE Once
      BY DEF vars, repoVars
    <2>1. CASE CreateCanaryDeviceType
      BY <2>1 DEF CreateCanaryDeviceType, Inv, NothingToFind
    <2>2. CASE CreateCanaryDevice
      BY <2>2 DEF CreateCanaryDevice, Inv, NothingToFind, Creating
    <2>3. CASE StartRun \/ StopRun \/ PlatformStep
      BY <2>3 DEF StartRun, StopRun, PlatformStep, ShowType, ShowDevice, ShowName, LoseName, repoVars
    <2>4. CASE RunStep /\ ~CreateCanaryDeviceType /\ ~CreateCanaryDevice
      BY <2>4 DEF RunStep, EnsureDevice, EnsureDeviceType, SleepStep, ReadDevice, SaveDevice,
                  CheckDevice, repoVars
    <2> QED
      BY <2>1, <2>2, <2>3, <2>4 DEF Next
  <1>2. Inv /\ [Next]_vars => [Once]_vars
    BY <1>1
  <1> QED
    BY InvHolds, <1>2, PTL DEF Spec, CreatesOnce

(* A device is created only with a type that shows, or was to show by now. *)
THEOREM TypeIsKnown == Spec => TypeShowsBeforeDevice
  <1> DEFINE Known == \A d \in devices' \ devices :
                        typeOf'[d] \in listedTypes \/ (typeOf'[d] \in types /\ <<"late", "typeSleep">> \in faults)
  <1>1. Inv /\ [Next]_vars => Known
    <2> SUFFICES ASSUME Inv, [Next]_vars, NEW d \in devices' \ devices
                 PROVE  \/ typeOf'[d] \in listedTypes
                        \/ typeOf'[d] \in types /\ <<"late", "typeSleep">> \in faults
      OBVIOUS
    <2>1. CreateCanaryDevice
      BY DEF Next, RunStep, StartRun, StopRun, PlatformStep, ShowType, ShowDevice, ShowName, LoseName,
             EnsureDevice, EnsureDeviceType, CreateCanaryDeviceType, SleepStep, ReadDevice,
             SaveDevice, CheckDevice, vars, repoVars
    <2>2. typeOf'[d] = dt /\ at = "createDevice"
      BY <2>1 DEF CreateCanaryDevice, ChangeFails, AddDevice, Inv, TypeOK
    <2> QED
      BY <2>2 DEF Inv, NothingToFind
  <1>2. Inv /\ [Next]_vars => [Known]_vars
    BY <1>1
  <1> QED
    BY InvHolds, <1>2, PTL DEF Spec, TypeShowsBeforeDevice

-------------------------------------------------------------------------------
(* The refinement of the course of runs: every step of a run either stays in  *)
(* EnsureDevice() or in TestMetadata(), or goes from the one to the other.    *)
THEOREM RunsFollowCourse == Spec => FollowsCourse
  <1> DEFINE Part(p) == IF p = "end" THEN {} ELSE IF p \in Ensuring THEN {"ensureDevice"}
                        ELSE {"metadata"}
  <1>1. Init => Course!Init
    BY DEF Init, Course!Init
  <1>2. ASSUME [Next]_vars PROVE [Course!Next]_(Part(at))
    <2> USE DEF Ensuring
    <2>1. CASE StartRun
      BY <2>1 DEF StartRun, Course!Next, Course!Begin
    <2>2. ASSUME at' = "end" PROVE Course!Next
      BY <2>2 DEF Course!Next, Course!Over
    <2>3. CASE StopRun
      BY <2>2, <2>3 DEF StopRun
    <2>4. CASE EnsureDevice \/ SleepStep("deviceSleep", "read") \/ ReadDevice
      BY <2>2, <2>4 DEF EnsureDevice, SleepStep, ReadDevice, QueryFails, Course!Next, Course!Ensured
    <2>5. CASE EnsureDeviceType \/ CreateCanaryDeviceType \/ CreateCanaryDevice
               \/ SleepStep("typeSleep", "createDevice")
      BY <2>2, <2>5 DEF EnsureDeviceType, CreateCanaryDeviceType, CreateCanaryDevice, SleepStep,
                       QueryFails
    <2>6. CASE SaveDevice \/ SleepStep("sleep", "check")
      BY <2>6 DEF SaveDevice, SleepStep
    <2>7. CASE SleepStep("typeSleepError", "end") \/ SleepStep("deviceSleepError", "end")
               \/ CheckDevice
      BY <2>2, <2>7 DEF SleepStep, CheckDevice
    <2>8. CASE PlatformStep \/ UNCHANGED vars
      BY <2>8 DEF PlatformStep, vars, runVars
    <2> QED
      BY <1>2, <2>1, <2>3, <2>4, <2>5, <2>6, <2>7, <2>8 DEF Next, RunStep
  <1>3. Spec => Course!Init /\ [][Course!Next]_(Part(at))
    BY <1>1, <1>2, PTL DEF Spec
  <1> QED
    BY <1>3 DEF FollowsCourse, Course!Spec
=============================================================================
