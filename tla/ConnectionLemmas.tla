--------------------------- MODULE ConnectionLemmas ---------------------------
(*****************************************************************************)
(* What the proofs about module ConnectionTest rest on: that its steps keep  *)
(* the types, and what faults, sleeps and metrics have to do with each       *)
(* other.                                                                    *)
(*****************************************************************************)
EXTENDS ConnectionInvariant, TLAPS, FiniteSetTheorems

(* Where testDeviceConnection() can be. *)
Places == ({"connection"} \X ConnectionSteps) \cup (Kinds \X DeploymentSteps)

(* The rest of TypeOK. *)
LocalsOK ==
    /\ ids \subseteq Ids
    /\ depl \in Ids \cup {0}
    /\ failedStartups \subseteq Kinds
    /\ received \in BOOLEAN
    /\ start \in {"settled", "early", "faulty"}

(* TypeOK in three parts, which the lemmas below keep one by one. *)
LEMMA TypeParts ==
    /\ TypeOK <=> PlatformTypeOK /\ at \in Places /\ LocalsOK
    /\ TypeOK' <=> PlatformTypeOK' /\ at' \in Places /\ LocalsOK'
  BY DEF TypeOK, Places, LocalsOK

(* Where ProcessStartup() and ProcessTeardown() return to is a place of the   *)
(* run.                                                                       *)
LEMMA StartupPlaces ==
    ASSUME NEW k \in Kinds
    PROVE  /\ AfterStartup(k) \in Places
           /\ AfterTeardown(k) \in Places
           /\ \A s \in DeploymentSteps : <<k, s>> \in Places
           /\ \A s \in ConnectionSteps : <<"connection", s>> \in Places
  BY DEF AfterStartup, AfterTeardown, Places, ConnectionSteps, Kinds

(* What DeleteProcess() changes of the engine keeps its type. *)
LEMMA RemoveDeploymentType ==
    ASSUME TypeOK, NEW k \in Kinds, NEW i \in Ids, RemoveDeployment(k, i)
    PROVE  /\ deployed' \in [Kinds -> SUBSET Ids]
           /\ listed' \in [Kinds -> SUBSET Ids]
           /\ instance' \in [Kinds -> [Ids -> {"none", "running", "completed", "several"}]]
           /\ commands' \subseteq Ids
  BY DEF RemoveDeployment, TypeOK, PlatformTypeOK

(* What DeployProcess() changes of the engine keeps its type. *)
LEMMA CreateDeploymentType ==
    ASSUME TypeOK, NEW k \in Kinds, NEW i \in Ids, CreateDeployment(k, i)
    PROVE  /\ deployed' \in [Kinds -> SUBSET Ids]
           /\ listed' \in [Kinds -> SUBSET Ids]
           /\ instance' \in [Kinds -> [Ids -> {"none", "running", "completed", "several"}]]
           /\ commands' \subseteq Ids
  BY DEF CreateDeployment, TypeOK, PlatformTypeOK

(* What StartProcess() changes of the engine keeps its type. *)
LEMMA StartInstanceType ==
    ASSUME TypeOK, NEW i \in Ids, StartInstance(i)
    PROVE  /\ deployed' \in [Kinds -> SUBSET Ids]
           /\ listed' \in [Kinds -> SUBSET Ids]
           /\ instance' \in [Kinds -> [Ids -> {"none", "running", "completed", "several"}]]
           /\ commands' \subseteq Ids
  BY DEF StartInstance, TypeOK, PlatformTypeOK, Kinds

(* The first state has its type. *)
LEMMA InitType == Init => TypeOK
  <1> SUFFICES ASSUME Init PROVE TypeOK
    OBVIOUS
  <1> USE DEF Init, PlatformInit
  <1>1. hubs \in 0 .. MaxHubs /\ listedHubs \in 0 .. MaxHubs
    BY MaxHubsAssumption
  <1>2. PlatformTypeOK
    BY <1>1 DEF PlatformTypeOK
  <1>3. at \in Places
    BY StartupPlaces DEF End, Kinds, ConnectionSteps
  <1> QED
    BY <1>2, <1>3 DEF TypeOK, Places

(* The start of a run keeps the types. *)
LEMMA StartType == TypeOK /\ StartRun => TypeOK'
  <1> SUFFICES ASSUME TypeOK, StartRun PROVE TypeOK'
    OBVIOUS
  <1>1. at' \in Places
    BY StartupPlaces DEF StartRun, Goto, Kinds, DeploymentSteps
  <1> QED
    BY <1>1 DEF StartRun, TypeOK, PlatformTypeOK, Places, engineVars, hubVars, connVars

(* The end of the process in a run keeps the types. *)
LEMMA StopType == TypeOK /\ StopRun => TypeOK'
  <1> SUFFICES ASSUME TypeOK, StopRun PROVE TypeOK'
    OBVIOUS
  <1>1. PlatformTypeOK'
    BY DEF StopRun, TypeOK, PlatformTypeOK, engineVars, hubVars
  <1>2. at' \in Places
    BY StartupPlaces DEF StopRun, End, Kinds, ConnectionSteps
  <1> QED
    BY <1>1, <1>2 DEF StopRun, TypeOK, Places

(* Every step of ProcessStartup() and ProcessTeardown() keeps the types. *)
LEMMA DeploymentType ==
    ASSUME TypeOK, NEW k \in Kinds, DeploymentStep(k), UNCHANGED <<connVars, start>>
    PROVE  TypeOK'
  <1>a. PlatformTypeOK /\ LocalsOK
    BY TypeParts
  <1> USE DEF Goto, Raise, Uncategorized, PlatformTypeOK, LocalsOK, StartupError, DeploymentSteps,
              engineVars, deviceVars, hubVars, connVars
  <1>1. CASE StartupList(k)
    <2>1. PlatformTypeOK' /\ LocalsOK'
      BY <1>a, <1>1 DEF StartupList
    <2>2. at' \in Places
      BY <1>1, StartupPlaces DEF StartupList
    <2> QED
      BY <2>1, <2>2, TypeParts
  <1>2. CASE StartupDelete(k)
    <2>1. PICK i \in ids : DeleteProcess(k, i, StartupError(k))
      BY <1>2 DEF StartupDelete
    <2>2. RemoveDeployment(k, i) \/ UNCHANGED engineVars
      BY <2>1 DEF DeleteProcess
    <2>3. PlatformTypeOK'
      BY <1>a, <1>2, <2>2, RemoveDeploymentType, TypeParts DEF StartupDelete
    <2>4. at' \in Places /\ LocalsOK'
      BY <1>a, <1>2, <2>1, StartupPlaces DEF StartupDelete, DeleteProcess
    <2> QED
      BY <2>3, <2>4, TypeParts
  <1>3. CASE StartupReadDeviceType(k)
    <2>1. PlatformTypeOK' /\ LocalsOK'
      BY <1>a, <1>3 DEF StartupReadDeviceType
    <2>2. at' \in Places
      BY <1>3, StartupPlaces DEF StartupReadDeviceType
    <2> QED
      BY <2>1, <2>2, TypeParts
  <1>4. CASE StartupPrepare(k)
    <2>1. PlatformTypeOK' /\ LocalsOK'
      BY <1>a, <1>4 DEF StartupPrepare
    <2>2. at' \in Places
      BY <1>4, StartupPlaces DEF StartupPrepare
    <2> QED
      BY <2>1, <2>2, TypeParts
  <1>5. CASE StartupDeploy(k)
    <2>1. UNCHANGED engineVars \/ \E i \in Ids : CreateDeployment(k, i)
      BY <1>5 DEF StartupDeploy
    <2>2. PlatformTypeOK'
      BY <1>a, <1>5, <2>1, CreateDeploymentType, TypeParts DEF StartupDeploy
    <2>3. at' \in Places /\ LocalsOK'
      BY <1>a, <1>5, StartupPlaces DEF StartupDeploy
    <2> QED
      BY <2>2, <2>3, TypeParts
  <1>6. CASE StartupSleep(k)
    <2>1. PlatformTypeOK' /\ LocalsOK'
      BY <1>a, <1>6 DEF StartupSleep
    <2>2. at' \in Places
      BY <1>6, StartupPlaces DEF StartupSleep
    <2> QED
      BY <2>1, <2>2, TypeParts
  <1>7. CASE TeardownList(k)
    <2>1. PlatformTypeOK' /\ LocalsOK'
      BY <1>a, <1>7 DEF TeardownList
    <2>2. at' \in Places
      BY <1>7, StartupPlaces DEF TeardownList
    <2> QED
      BY <2>1, <2>2, TypeParts
  <1>8. CASE TeardownInstances(k)
    <2>1. PlatformTypeOK' /\ LocalsOK'
      BY <1>a, <1>8 DEF TeardownInstances
    <2>2. at' \in Places
      BY <1>8, StartupPlaces DEF TeardownInstances
    <2> QED
      BY <2>1, <2>2, TypeParts
  <1>9. CASE TeardownDelete(k)
    <2>1. PICK i \in ids : DeleteProcess(k, i,
            at' = AfterTeardown(k) /\ ids' = {} /\ UNCHANGED failedStartups)
      BY <1>9 DEF TeardownDelete
    <2>2. RemoveDeployment(k, i) \/ UNCHANGED engineVars
      BY <2>1 DEF DeleteProcess
    <2>3. PlatformTypeOK'
      BY <1>a, <1>9, <2>2, RemoveDeploymentType, TypeParts DEF TeardownDelete
    <2>4. at' \in Places /\ LocalsOK'
      BY <1>a, <1>9, <2>1, StartupPlaces DEF TeardownDelete, DeleteProcess
    <2> QED
      BY <2>3, <2>4, TypeParts
  <1>10. CASE TeardownReturn(k)
    <2>1. PlatformTypeOK' /\ LocalsOK'
      BY <1>a, <1>10 DEF TeardownReturn
    <2>2. at' \in Places
      BY <1>10, StartupPlaces DEF TeardownReturn
    <2> QED
      BY <2>1, <2>2, TypeParts
  <1> QED
    BY <1>1, <1>2, <1>3, <1>4, <1>5, <1>6, <1>7, <1>8, <1>9, <1>10 DEF DeploymentStep

(* So does StartProcess(): the deployment it starts is one that was made. *)
LEMMA StartupStartType ==
    ASSUME TypeOK, InstancesAreDeployed, StartupStart, UNCHANGED <<connVars, start>>
    PROVE  TypeOK'
  <1>a. depl \in Ids
    BY DEF InstancesAreDeployed, StartupStart, TypeOK, PlatformTypeOK, Kinds
  <1>1. at' \in Places /\ ids' \subseteq Ids /\ failedStartups' \subseteq Kinds
    BY StartupPlaces DEF StartupStart, StartupError, TypeOK, Kinds
  <1>2. CASE UNCHANGED engineVars
    BY <1>1, <1>2
       DEF StartupStart, TypeOK, PlatformTypeOK, Places, engineVars, deviceVars, hubVars, connVars
  <1>3. CASE StartInstance(depl)
    <2>1. /\ deployed' \in [Kinds -> SUBSET Ids]
          /\ listed' \in [Kinds -> SUBSET Ids]
          /\ instance' \in [Kinds -> [Ids -> {"none", "running", "completed", "several"}]]
          /\ commands' \subseteq Ids
      BY <1>a, <1>3, StartInstanceType
    <2> QED
      BY <1>1, <2>1
         DEF StartupStart, TypeOK, PlatformTypeOK, Places, deviceVars, hubVars, connVars
  <1> QED
    BY <1>2, <1>3 DEF StartupStart

(* The other steps of testDeviceConnection() go to places of the run. *)
LEMMA ConnectionPlaces ==
    ASSUME EnsureHub \/ ChangeHub \/ Connect \/ Subscribe \/ Publish \/ CheckDeviceValue \/ Disconnect
    PROVE  at' \in Places
  BY StartupPlaces
     DEF EnsureHub, ChangeHub, Connect, Subscribe, Publish, CheckDeviceValue, Disconnect, Goto,
         End, Kinds, ConnectionSteps, DeploymentSteps

(* Every step of testDeviceConnection() keeps the types. *)
LEMMA ConnectionType ==
    ASSUME TypeOK, InstancesAreDeployed, ConnectionStep
    PROVE  TypeOK'
  <1>a. PlatformTypeOK /\ LocalsOK
    BY TypeParts
  <1> USE DEF Goto, Raise, PlatformTypeOK, LocalsOK, engineVars, deviceVars, hubVars, connVars
  <1>1. ASSUME NEW k \in Kinds, DeploymentStep(k), UNCHANGED <<connVars, start>> PROVE TypeOK'
    BY <1>1, DeploymentType
  <1>2. CASE StartupStart /\ UNCHANGED <<connVars, start>>
    BY <1>2, StartupStartType
  <1>3. ASSUME NEW step, NEW expected, NEW next \in Places, CheckConnState(step, expected, next)
       PROVE TypeOK'
    BY <1>a, <1>3, TypeParts DEF CheckConnState
  <1>4. CASE EnsureHub \/ Connect \/ Subscribe \/ Publish \/ CheckDeviceValue \/ Disconnect
    <2>1. PlatformTypeOK' /\ LocalsOK'
      <3>1. CASE EnsureHub \/ Connect
        BY <1>a, <3>1 DEF EnsureHub, Connect
      <3>2. CASE Subscribe \/ Publish
        BY <1>a, <3>2 DEF Subscribe, Publish
      <3>3. CASE CheckDeviceValue \/ Disconnect
        BY <1>a, <3>3 DEF CheckDeviceValue, Disconnect
      <3> QED
        BY <1>4, <3>1, <3>2, <3>3
    <2> QED
      BY <1>4, <2>1, ConnectionPlaces, TypeParts
  <1>5. CASE ChangeHub
    <2>1. hubs' \in 0 .. MaxHubs
      BY <1>a, <1>5, MaxHubsAssumption DEF ChangeHub, AddHub
    <2>2. PlatformTypeOK' /\ LocalsOK'
      BY <1>a, <1>5, <2>1 DEF ChangeHub
    <2> QED
      BY <1>5, <2>2, ConnectionPlaces, TypeParts
  <1>6. ASSUME NEW step, NEW next \in Places, SleepStep(step, next) PROVE TypeOK'
    BY <1>a, <1>6, TypeParts DEF SleepStep
  <1> QED
    BY <1>1, <1>2, <1>3, <1>4, <1>5, <1>6, StartupPlaces
       DEF ConnectionStep, ConnectionSteps, DeploymentSteps, End, Kinds

(* So does what paho's callbacks and the respond() goroutines do. *)
LEMMA CallbacksType == TypeOK /\ (Callbacks \/ Reconnect) => TypeOK'
  <1> SUFFICES ASSUME TypeOK, Callbacks \/ Reconnect PROVE TypeOK'
    OBVIOUS
  <1> USE DEF TypeOK, PlatformTypeOK, engineVars, deviceVars, hubVars, connVars, testVars
  <1>1. ASSUME NEW i \in Ids, NotifyCommand(i) PROVE TypeOK'
    BY <1>1 DEF NotifyCommand
  <1>2. ASSUME NEW i \in Ids, LoseCommand(i) PROVE TypeOK'
    BY <1>2 DEF LoseCommand
  <1>3. ASSUME NEW i \in Ids, Respond(i) PROVE TypeOK'
    <2>1. instance' \in [Kinds -> [Ids -> {"none", "running", "completed", "several"}]]
      BY <1>3 DEF Respond, AnswerCommand, Kinds
    <2> QED
      BY <1>3, <2>1 DEF Respond
  <1>4. ASSUME NEW i \in Ids, RespondOrphaned(i) PROVE TypeOK'
    BY <1>4 DEF RespondOrphaned
  <1>5. CASE Reconnect
    BY <1>5 DEF Reconnect
  <1> QED
    BY <1>1, <1>2, <1>3, <1>4, <1>5 DEF Callbacks

(* So does what the platform does by itself. *)
LEMMA PlatformStepType ==
    TypeOK /\ PlatformStep /\ UNCHANGED <<connVars, testVars, start>> => TypeOK'
  <1> SUFFICES ASSUME TypeOK, PlatformStep, UNCHANGED <<connVars, testVars, start>> PROVE TypeOK'
    OBVIOUS
  <1> USE DEF TypeOK, PlatformTypeOK, engineVars, deviceVars, hubVars, connVars, testVars
  <1>1. ASSUME NEW k \in Kinds, NEW i \in Ids, ShowDeployment(k, i) PROVE TypeOK'
    BY <1>1 DEF ShowDeployment
  <1>2. CASE ShowConnection
    BY <1>2 DEF ShowConnection
  <1>3. CASE ShowHub
    BY <1>3 DEF ShowHub
  <1>4. CASE StoreValue
    BY <1>4 DEF StoreValue
  <1>5. CASE FireEvent
    <2>1. instance' \in [Kinds -> [Ids -> {"none", "running", "completed", "several"}]]
      BY <1>5 DEF FireEvent, Kinds
    <2> QED
      BY <1>5, <2>1 DEF FireEvent
  <1>6. ASSUME NEW i \in Ids, CompleteEvent(i) PROVE TypeOK'
    BY <1>6 DEF CompleteEvent, Kinds
  <1> QED
    BY <1>1, <1>2, <1>3, <1>4, <1>5, <1>6 DEF PlatformStep

(* Type correctness is inductive, given that the command process that is to   *)
(* be started is one that was deployed.                                       *)
LEMMA NextType == TypeOK /\ InstancesAreDeployed /\ [Next]_vars => TypeOK'
  <1>1. TypeOK /\ UNCHANGED vars => TypeOK'
    BY DEF vars, platformVars, testVars, engineVars, deviceVars, hubVars, connVars, TypeOK,
           PlatformTypeOK
  <1> QED
    BY <1>1, StartType, StopType, ConnectionType, CallbacksType, PlatformStepType DEF Next

-------------------------------------------------------------------------------
(* The places of a run are sets of constants, for the provers to look into. *)
USE DEF HubSleeps, BeforeHub, BeforeConnect, BeforeSubscribe, BeforePublish, BeforeStart,
        BeforeCheck, Online, LostSubscription, SpentSubscription, CaughtUpOnline, CaughtUpOffline, CaughtUp, BeforeList, BeforeDeploy, Running, Startup,
        Teardown, ConnectionSteps, DeploymentSteps, Kinds, End, Undisturbed

(* What a fault adds to what has gone wrong. *)
LEMMA FaultAdds ==
    ASSUME NEW what, NEW kind, NEW where, Fault(what, kind, where)
    PROVE  /\ faults' = faults \cup {<<what, kind, where>>}
           /\ faults \subseteq faults' /\ <<what, kind, where>> \in faults' /\ faults' # {}
           /\ Late' <=> Late \/ what = "late"
           /\ Stopped' <=> Stopped \/ what = "stopped"
  <1>1. faults' = faults \cup {<<what, kind, where>>}
    BY DEF Fault
  <1>2. <<what, kind, where>>[1] = what
    OBVIOUS
  <1>3. Late' <=> Late \/ what = "late"
    BY <1>1, <1>2 DEF Late
  <1>4. Stopped' <=> Stopped \/ what = "stopped"
    BY <1>1, <1>2 DEF Stopped
  <1> QED
    BY <1>1, <1>3, <1>4

(* What a sleep leaves of what went wrong before, and what it adds. *)
Slept ==
    /\ (Settled /\ UNCHANGED faults) \/ Late'
    /\ faults \subseteq faults'
    /\ Late => Late'
    /\ Lingering => Lingering'
    /\ Stopped' <=> Stopped
    /\ LostValue' <=> LostValue
    /\ LostEvent' <=> LostEvent
    /\ LostCommand' <=> LostCommand
    /\ SubscriptionLost' <=> SubscriptionLost
    /\ NoSubscription' <=> NoSubscription
    /\ SleptTooShort => SleptTooShort'
    /\ NoPublish' <=> NoPublish
    /\ NoEventService' <=> NoEventService

(* time.Sleep(guarantee) ends on a settled platform or with a fault that      *)
(* tells of it, and loses nothing.                                            *)
LEMMA SleepOutcome ==
    ASSUME GuaranteeElapsed
    PROVE  Slept
  <1>1. CASE Settled /\ UNCHANGED faults
    BY <1>1
       DEF Slept, Late, Stopped, Lingering, LostValue, LostEvent, LostCommand, SubscriptionLost,
           NoSubscription, SleptTooShort, NoPublish, NoEventService
  <1>2. CASE Fault("late", at[1], at[2])
    <2>1. /\ faults' = faults \cup {<<"late", at[1], at[2]>>}
          /\ Late' <=> Late \/ "late" = "late"
          /\ Stopped' <=> Stopped \/ "late" = "stopped"
      BY <1>2, FaultAdds
    <2>2. Lingering => Lingering'
      BY <2>1 DEF Lingering
    <2> QED
      BY <2>1, <2>2
         DEF Slept, LostValue, LostEvent, LostCommand, SubscriptionLost, NoSubscription,
             SleptTooShort, NoPublish, NoEventService
  <1> QED
    BY <1>1, <1>2 DEF GuaranteeElapsed

(* A step that raises no metric makes no alarm false. *)
LEMMA NoNewAlarm ==
    ASSUME NoFalseAlarm, raised' \subseteq raised, faults \subseteq faults', start' = start
    PROVE  NoFalseAlarm'
  BY DEF NoFalseAlarm, Accountable, Explains

(* Nor does one that raises a metric which a fault explains. *)
LEMMA NewAlarm ==
    ASSUME NoFalseAlarm, faults \subseteq faults', start' = start,
           NEW m, raised' \subseteq raised \cup {m},
           Accountable => \E f \in faults' : Explains(f, m)
    PROVE  NoFalseAlarm'
  <1> SUFFICES ASSUME Accountable', NEW n \in raised' PROVE \E g \in faults' : Explains(g, n)
    BY DEF NoFalseAlarm, Explains
  <1>1. CASE n = m
    BY <1>1 DEF Accountable
  <1>2. CASE n \in raised
    <2>1. PICK g \in faults : Explains(g, n)
      BY <1>2 DEF NoFalseAlarm, Accountable
    <2> QED
      BY <2>1
  <1> QED
    BY <1>1, <1>2

(* A call that fails explains the metric that is raised for it. *)
LEMMA FailureIsNoFalseAlarm ==
    ASSUME NoFalseAlarm, start' = start,
           NEW what, NEW kind, NEW where, Fault(what, kind, where),
           NEW part, NEW metric, Raise(part, metric),
           Explains(<<what, kind, where>>, <<part, metric>>)
    PROVE  NoFalseAlarm'
  BY FaultAdds, NewAlarm DEF Raise

(* A sleep that was too short explains what any of the checks raises. *)
LEMMA LateExplains ==
    ASSUME Late
    PROVE  \A m \in {<<"any", "UncategorizedErr">>,
            <<"connection", "UnexpectedDeviceOfflineStateErr">>,
            <<"connection", "UnexpectedDeviceOnlineStateErr">>, UnexpectedData,
            <<"event", "UnexpectedInstanceStateErr">>,
            <<"process", "UnexpectedInstanceStateErr">>,
            <<"process", "UnexpectedCommandCountError">>} : \E f \in faults : Explains(f, m)
  BY DEF Late, Explains

(* Once a metric is raised, every fault of the run is told of. *)
LEMMA RaisedIsNoticed ==
    ASSUME raised' # {} PROVE IsNoticed'
  BY DEF IsNoticed

(* So it is after a step that raises one. *)
LEMMA RaiseIsNoticed ==
    ASSUME NEW part, NEW metric, Raise(part, metric)
    PROVE  IsNoticed' /\ raised' # {}
  BY RaisedIsNoticed DEF Raise

(* A call that fails, or whose answer is lost, adds nothing to what was lost  *)
(* and is no sleep that was too short.                                        *)
LEMMA ErrorOrNone ==
    ASSUME NEW what \in {"failed", "unanswered", "unexpected"}, NEW kind, NEW where,
           Fault(what, kind, where) \/ UNCHANGED faults
    PROVE  /\ faults \subseteq faults'
           /\ Late' <=> Late
           /\ Stopped' <=> Stopped
           /\ Lingering => Lingering'
           /\ LostValue' <=> LostValue
           /\ LostEvent' <=> LostEvent
           /\ LostCommand' <=> LostCommand
           /\ SubscriptionLost' <=> SubscriptionLost
           /\ kind # "connection" => (NoSubscription' <=> NoSubscription)
           /\ kind # "connection" => (NoPublish' <=> NoPublish)
           /\ NoEventService' <=> NoEventService
  <1>1. CASE UNCHANGED faults
    BY <1>1
       DEF Late, Stopped, Lingering, LostValue, LostEvent, LostCommand, SubscriptionLost,
           NoSubscription, NoPublish, NoEventService
  <1>2. CASE Fault(what, kind, where)
    <2>1. faults' = faults \cup {<<what, kind, where>>} /\ (Late' <=> Late \/ what = "late")
      BY <1>2, FaultAdds
    <2>2. Stopped' <=> Stopped \/ what = "stopped"
      BY <1>2, FaultAdds
    <2>3. Lingering => Lingering'
      BY <2>1 DEF Lingering
    <2>4. /\ LostValue' <=> LostValue
          /\ LostEvent' <=> LostEvent
          /\ LostCommand' <=> LostCommand
      BY <2>1 DEF LostValue, LostEvent, LostCommand
    <2>5. /\ SubscriptionLost' <=> SubscriptionLost
          /\ kind # "connection" => (NoSubscription' <=> NoSubscription)
          /\ kind # "connection" => (NoPublish' <=> NoPublish)
          /\ NoEventService' <=> NoEventService
      BY <2>1 DEF SubscriptionLost, NoSubscription, NoPublish, NoEventService
    <2> QED
      BY <2>1, <2>2, <2>3, <2>4, <2>5
  <1> QED
    BY <1>1, <1>2

(* Neither does what the platform loses, but for itself. *)
LEMMA LostOrNone ==
    ASSUME NEW kind, NEW where, Fault("lost", kind, where) \/ UNCHANGED faults
    PROVE  /\ faults \subseteq faults'
           /\ Late' <=> Late
           /\ Stopped' <=> Stopped
           /\ kind # "process" => (LostCommand' <=> LostCommand)
           /\ kind # "connection" => (SubscriptionLost' <=> SubscriptionLost)
           /\ kind # "connection" => (NoSubscription' <=> NoSubscription)
           /\ NoPublish' <=> NoPublish
           /\ NoEventService' <=> NoEventService
  <1>1. CASE UNCHANGED faults
    BY <1>1 DEF Late, Stopped, LostCommand, SubscriptionLost, NoSubscription, NoPublish,
                NoEventService
  <1>2. CASE Fault("lost", kind, where)
    <2>1. faults' = faults \cup {<<"lost", kind, where>>} /\ (Late' <=> Late \/ "lost" = "late")
      BY <1>2, FaultAdds
    <2>2. Stopped' <=> Stopped \/ "lost" = "stopped"
      BY <1>2, FaultAdds
    <2>3. /\ kind # "process" => (LostCommand' <=> LostCommand)
          /\ kind # "connection" => (SubscriptionLost' <=> SubscriptionLost)
          /\ kind # "connection" => (NoSubscription' <=> NoSubscription)
          /\ NoPublish' <=> NoPublish
          /\ NoEventService' <=> NoEventService
      BY <2>1 DEF LostCommand, SubscriptionLost, NoSubscription, NoPublish, NoEventService
    <2> QED
      BY <2>1, <2>2, <2>3
  <1> QED
    BY <1>1, <1>2

(* DeleteProcess() takes a deployment, its instance and its commands away,    *)
(* and nothing else; or nothing at all.                                       *)
LEMMA Removal ==
    ASSUME TypeOK, NEW k \in Kinds, NEW i \in Ids, RemoveDeployment(k, i) \/ UNCHANGED engineVars
    PROVE  /\ listed' = listed
           /\ deployed'[k] \subseteq deployed[k] /\ deployed[k] \subseteq deployed'[k] \cup {i}
           /\ \A j \in Kinds : deployed'[j] \subseteq deployed[j]
           /\ \A j \in Kinds : j # k => deployed'[j] = deployed[j] /\ instance'[j] = instance[j]
           /\ \A x \in deployed'[k] : instance'[k][x] \in {instance[k][x], "none"}
           /\ \A j \in Kinds, x \in Ids :
                \/ instance'[j][x] = "none"
                \/ instance'[j][x] = instance[j][x] /\ (x \in deployed[j] => x \in deployed'[j])
           /\ commands' \subseteq commands
           /\ k = "event" => commands' = commands
           /\ commands' \subseteq deployed["process"] => commands' \subseteq deployed'["process"]
  <1> USE DEF TypeOK, PlatformTypeOK, engineVars
  <1>1. CASE UNCHANGED engineVars
    BY <1>1
  <1>2. CASE RemoveDeployment(k, i)
    <2> USE <1>2 DEF RemoveDeployment
    <2>1. /\ listed' = listed
          /\ deployed'[k] = deployed[k] \ {i}
          /\ \A j \in Kinds : j # k => deployed'[j] = deployed[j] /\ instance'[j] = instance[j]
      OBVIOUS
    <2>2. \A x \in Ids : instance'[k][x] = IF x = i THEN "none" ELSE instance[k][x]
      OBVIOUS
    <2>3. /\ commands' \subseteq commands
          /\ k = "event" => commands' = commands
          /\ commands' \subseteq deployed["process"] => commands' \subseteq deployed'["process"]
      BY <2>1
    <2> HIDE <1>2 DEF RemoveDeployment
    <2>4. \A j \in Kinds : deployed'[j] \subseteq deployed[j]
      BY <2>1
    <2>5. \A x \in deployed'[k] : instance'[k][x] \in {instance[k][x], "none"}
      BY <2>1, <2>2
    <2>6. \A j \in Kinds, x \in Ids :
                \/ instance'[j][x] = "none"
                \/ instance'[j][x] = instance[j][x] /\ (x \in deployed[j] => x \in deployed'[j])
      BY <2>1, <2>2
    <2> QED
      BY <2>1, <2>3, <2>4, <2>5, <2>6
  <1> QED
    BY <1>1, <1>2
===============================================================================
