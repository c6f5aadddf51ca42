---------------------- MODULE ConnectionDeploymentProofs ----------------------
(*****************************************************************************)
(* The steps of ProcessStartup() and ProcessTeardown(), of the event         *)
(* process and of the command process, keep the invariant of module          *)
(* ConnectionInvariant.                                                      *)
(*****************************************************************************)
EXTENDS ConnectionLemmas

(* The places of a run are sets of constants, for the provers to look into. *)
USE DEF HubSleeps, BeforeHub, BeforeConnect, BeforeSubscribe, BeforePublish, BeforeStart,
        BeforeCheck, Online, LostSubscription, SpentSubscription, CaughtUpOnline, CaughtUpOffline, CaughtUp, BeforeList, BeforeDeploy, Running, Startup,
        Teardown, ConnectionSteps, DeploymentSteps, Kinds, End, Undisturbed

(* ProcessStartup() lists: all deployments that there are show, and no        *)
(* command is left.                                                           *)
LEMMA StartupListKeepsInv ==
    ASSUME NEW k \in Kinds, Inv, StartupList(k), UNCHANGED <<connVars, start>>
    PROVE  Inv'
  <1> USE DEF Inv, StartupList, StartupError, AfterStartup, AfterTeardown, engineVars,
              deviceVars, hubVars, connVars, testVars, Goto, Raise, Uncategorized
  <1>1. FaultsAreKnown' /\ (Stopped => at = End)'
    BY DEF FaultsAreKnown, Fault, FaultKinds, Stopped
  <1>2. ConnectionIsOpen' /\ SubscriptionIsFollowed' /\ ConnectionShows'
    BY DEF ConnectionIsOpen, SubscriptionIsFollowed, SubscriptionLost, NoSubscription,
           ConnectionShows, Fault, Late, Stopped
  <1>3. HubShows'
    BY DEF HubShows, Fault, Late, Stopped
  <1>4. \A kind \in Kinds : DeploymentsAreKnown(kind)'
    BY DEF DeploymentsAreKnown, Fault, Late, Lingering, Lingers
  <1>5. \A kind \in Kinds : DeletesAreOfDeployed(kind)'
    BY DEF DeletesAreOfDeployed
  <1>6. InstancesAreDeployed' /\ StartupsAreDone'
    BY DEF InstancesAreDeployed, StartupsAreDone, TypeOK, PlatformTypeOK
  <1>7. CommandIsFollowed'
    <2>1. (k = "process" => ~received') /\ (k = "event" => (received' <=> received))
      BY DEF TypeOK
    <2> QED
      BY <2>1 DEF CommandIsFollowed, LostCommand, Fault, Late, Stopped
  <1>8. AnswerIsFollowed'
    BY DEF AnswerIsFollowed, CommandIsFollowed, LostCommand, Fault, Late, Stopped
  <1>9. EventIsFollowed'
    BY DEF EventIsFollowed, LostEvent, NoPublish, Late, Stopped, Fault
  <1>10. ValueIsFollowed'
    BY DEF ValueIsFollowed, LostValue, NoPublish, Fault, Late
  <1>11. IsNoticed'
    <2>1. CASE raised' # {}
      BY <2>1, RaisedIsNoticed
    <2>2. CASE raised' = {} /\ (UNCHANGED faults /\ at' = <<k, "delete">>)
      BY <2>2
         DEF IsNoticed, SubscriptionLost, SleptTooShort, NoEventService, LostValue, LostCommand,
             LostEvent, Stopped, Fault,
             CommandIsFollowed, EventIsFollowed, ValueIsFollowed
    <2> QED
      BY <2>1, <2>2
  <1>12. CleanupIsDone'
    <2>1. failedStartups' # failedStartups => faults' # {}
      BY FaultAdds
    <2>2. faults # {} => faults' # {}
      BY FaultAdds
    <2> QED
      BY <2>1, <2>2 DEF CleanupIsDone, Accountable
  <1>13. NoFalseAlarm'
    <2>1. CASE Fault("failed", k, "list") /\ Raise("any", "UncategorizedErr")
      <3>1. Explains(<<"failed", k, "list">>, <<"any", "UncategorizedErr">>)
        BY DEF Explains
      <3> QED
        BY <2>1, <3>1, FailureIsNoFalseAlarm
    <2>2. CASE raised' = raised /\ faults \subseteq faults'
      BY <2>2, NoNewAlarm
    <2> QED
      BY <2>1, <2>2 DEF Fault
  <1>14. TypeOK'
    BY NextType DEF Next, ConnectionStep, DeploymentStep
  <1> QED
    BY <1>1, <1>2, <1>3, <1>4, <1>5, <1>6, <1>7, <1>8, <1>9, <1>10, <1>11, <1>12, <1>13, <1>14

(* ProcessStartup() deletes what it has listed; where that fails it returns. *)
LEMMA StartupDeleteKeepsInv ==
    ASSUME NEW k \in Kinds, Inv, StartupDelete(k), UNCHANGED <<connVars, start>>
    PROVE  Inv'
  <1> USE DEF Inv, StartupError, AfterStartup, AfterTeardown, engineVars, deviceVars, hubVars,
              connVars, testVars, Goto, Raise, Uncategorized
  <1>a. PICK i \in ids : DeleteProcess(k, i, StartupError(k))
    BY DEF StartupDelete
  <1>b. i \in Ids
    BY DEF TypeOK
  <1>c. RemoveDeployment(k, i) \/ UNCHANGED engineVars
    BY <1>a DEF DeleteProcess
  <1>d. /\ listed' = listed
        /\ deployed'[k] \subseteq deployed[k] /\ deployed[k] \subseteq deployed'[k] \cup {i}
        /\ \A j \in Kinds : deployed'[j] \subseteq deployed[j]
        /\ \A j \in Kinds : j # k => deployed'[j] = deployed[j] /\ instance'[j] = instance[j]
        /\ \A x \in deployed'[k] : instance'[k][x] \in {instance[k][x], "none"}
        /\ \A j \in Kinds, x \in Ids :
             \/ instance'[j][x] = "none"
             \/ instance'[j][x] = instance[j][x] /\ (x \in deployed[j] => x \in deployed'[j])
        /\ commands' \subseteq commands
        /\ k = "event" => commands' = commands
        /\ commands' \subseteq deployed["process"] => commands' \subseteq deployed'["process"]
    BY <1>b, <1>c, Removal
  <1>e. /\ faults \subseteq faults'
        /\ Late' <=> Late
        /\ Stopped' <=> Stopped
        /\ Lingering => Lingering'
        /\ LostValue' <=> LostValue
        /\ LostEvent' <=> LostEvent
        /\ LostCommand' <=> LostCommand
        /\ SubscriptionLost' <=> SubscriptionLost
        /\ NoSubscription' <=> NoSubscription
        /\ NoPublish' <=> NoPublish
        /\ NoEventService' <=> NoEventService
    <2>1. CASE Fault("failed", k, at[2]) \/ UNCHANGED faults
      BY <2>1, ErrorOrNone
    <2>2. CASE Fault("unanswered", k, at[2])
      BY <2>2, ErrorOrNone
    <2> QED
      BY <1>a, <2>1, <2>2 DEF DeleteProcess
  <1>f. /\ at = <<k, "delete">>
        /\ UNCHANGED <<deviceVars, hubVars, depl, received, connVars, start>>
        /\ \/ /\ ids' = ids \ {i} /\ deployed'[k] = deployed[k] \ {i}
              /\ UNCHANGED <<at, failedStartups, raised, faults>>
           \/ /\ at' = AfterStartup(k) /\ failedStartups' = failedStartups \cup {k}
              /\ ids' = {} /\ Uncategorized
              /\ faults' # {} \/ (UNCHANGED faults /\ i \notin deployed[k] /\ RedeleteFails)
    BY <1>a, FaultAdds DEF StartupDelete, DeleteProcess, RemoveDeployment, TypeOK, PlatformTypeOK
  <1>1. FaultsAreKnown' /\ (Stopped => at = End)'
    BY <1>a, <1>e, <1>f DEF FaultsAreKnown, DeleteProcess, Fault, FaultKinds
  <1>2. ConnectionIsOpen' /\ SubscriptionIsFollowed' /\ ConnectionShows'
    BY <1>d, <1>e, <1>f DEF ConnectionIsOpen, SubscriptionIsFollowed, ConnectionShows
  <1>3. HubShows'
    BY <1>d, <1>e, <1>f DEF HubShows
  <1>4. \A kind \in Kinds : DeploymentsAreKnown(kind)'
    BY <1>d, <1>e, <1>f DEF DeploymentsAreKnown
  <1>5. \A kind \in Kinds : DeletesAreOfDeployed(kind)'
    <2> SUFFICES ASSUME NEW j \in Kinds PROVE DeletesAreOfDeployed(j)'
      OBVIOUS
    <2>1. CASE j = k
      <3>1. start = "settled" => ids = deployed[k]
        BY <1>f DEF DeletesAreOfDeployed
      <3>2. at' \notin BeforeList(k)
        BY <1>f
      <3>3. start = "settled" /\ at' = <<k, "delete">> => ids' = deployed'[k]
        BY <3>1, <1>f
      <3> QED
        BY <2>1, <3>2, <3>3, <1>f DEF DeletesAreOfDeployed
    <2>2. CASE j # k
      BY <2>2, <1>d, <1>e, <1>f DEF DeletesAreOfDeployed
    <2> QED
      BY <2>1, <2>2
  <1>6. InstancesAreDeployed' /\ StartupsAreDone'
    BY <1>d, <1>e, <1>f DEF InstancesAreDeployed, StartupsAreDone, TypeOK, PlatformTypeOK
  <1>7. CommandIsFollowed'
    BY <1>d, <1>e, <1>f DEF CommandIsFollowed
  <1>8. AnswerIsFollowed'
    BY <1>d, <1>e, <1>f DEF AnswerIsFollowed
  <1>9. EventIsFollowed'
    BY <1>d, <1>e, <1>f DEF EventIsFollowed
  <1>10. ValueIsFollowed'
    BY <1>d, <1>e, <1>f DEF ValueIsFollowed
  <1>11. IsNoticed'
    <2>1. CASE raised' # {}
      BY <2>1, RaisedIsNoticed
    <2>2. CASE raised' = {} /\ UNCHANGED <<at, failedStartups, raised, faults>>
      BY <2>2, <1>d, <1>e, <1>f DEF IsNoticed, SleptTooShort
    <2> QED
      BY <1>f, <2>1, <2>2
  <1>12. CleanupIsDone'
    BY <1>d, <1>e, <1>f
       DEF CleanupIsDone, Accountable, DeletesAreOfDeployed, DeploymentsAreKnown, Late
  <1>13. NoFalseAlarm'
    <2>0. /\ Explains(<<"failed", k, at[2]>>, <<"any", "UncategorizedErr">>)
          /\ Explains(<<"unanswered", k, at[2]>>, <<"any", "UncategorizedErr">>)
      BY <1>f DEF Explains
    <2>1. CASE Fault("failed", k, at[2]) /\ Uncategorized
      BY <1>f, <2>0, <2>1, FailureIsNoFalseAlarm
    <2>2. CASE Fault("unanswered", k, at[2]) /\ Uncategorized
      BY <1>f, <2>0, <2>2, FailureIsNoFalseAlarm
    <2>3. CASE UNCHANGED <<raised, faults>>
      BY <1>f, <2>3, NoNewAlarm
    <2>4. CASE UNCHANGED faults /\ Uncategorized /\ i \notin deployed[k] /\ RedeleteFails
      BY <1>f, <2>4 DEF NoFalseAlarm, Accountable, DeletesAreOfDeployed
    <2> QED
      BY <1>a, <2>1, <2>2, <2>3, <2>4 DEF DeleteProcess
  <1>14. TypeOK'
    BY NextType DEF Next, ConnectionStep, DeploymentStep, StartupDelete
  <1> QED
    BY <1>1, <1>2, <1>3, <1>4, <1>5, <1>6, <1>7, <1>8, <1>9, <1>10, <1>11, <1>12, <1>13, <1>14

(* With nothing left to delete nothing is deployed. *)
LEMMA StartupReadDeviceTypeKeepsInv ==
    ASSUME NEW k \in Kinds, Inv, StartupReadDeviceType(k), UNCHANGED <<connVars, start>>
    PROVE  Inv'
  <1> USE DEF Inv, StartupReadDeviceType, StartupError, AfterStartup, AfterTeardown, engineVars,
              deviceVars, hubVars, connVars, testVars, Goto, Raise, Uncategorized
  <1>1. FaultsAreKnown' /\ (Stopped => at = End)'
    BY DEF FaultsAreKnown, Fault, FaultKinds, Stopped
  <1>2. ConnectionIsOpen' /\ SubscriptionIsFollowed' /\ ConnectionShows'
    BY DEF ConnectionIsOpen, SubscriptionIsFollowed, SubscriptionLost, NoSubscription,
           ConnectionShows, Fault, Late, Stopped
  <1>3. HubShows'
    BY DEF HubShows, Fault, Late, Stopped
  <1>4. \A kind \in Kinds : DeploymentsAreKnown(kind)'
    BY DEF DeploymentsAreKnown, Fault, Late, Lingering, Lingers
  <1>5. \A kind \in Kinds : DeletesAreOfDeployed(kind)'
    BY DEF DeletesAreOfDeployed
  <1>6. InstancesAreDeployed' /\ StartupsAreDone'
    BY DEF InstancesAreDeployed, StartupsAreDone, TypeOK, PlatformTypeOK
  <1>7. CommandIsFollowed'
    BY DEF CommandIsFollowed, LostCommand, Fault, Late, Stopped
  <1>8. AnswerIsFollowed'
    BY DEF AnswerIsFollowed, CommandIsFollowed, LostCommand, Fault, Late, Stopped
  <1>9. EventIsFollowed'
    BY DEF EventIsFollowed, LostEvent, NoPublish, Late, Stopped, Fault, DeploymentsAreKnown,
           InstancesAreDeployed
  <1>10. ValueIsFollowed'
    BY DEF ValueIsFollowed, LostValue, NoPublish, Fault, Late
  <1>11. IsNoticed'
    <2>1. CASE raised' # {}
      BY <2>1, RaisedIsNoticed
    <2>2. CASE /\ raised' = {}
               /\ \/ at' = <<k, "prepare">> /\ UNCHANGED <<failedStartups, faults>>
                  \/ Fault("missing", k, "service")
      BY <2>2
         DEF IsNoticed, SubscriptionLost, SleptTooShort, NoEventService, LostValue, LostCommand,
             LostEvent, Stopped, Fault,
             CommandIsFollowed, EventIsFollowed, ValueIsFollowed
    <2> QED
      BY <2>1, <2>2
  <1>12. CleanupIsDone'
    <2>1. failedStartups' # failedStartups => faults' # {}
      BY FaultAdds
    <2>2. faults # {} => faults' # {}
      BY FaultAdds
    <2> QED
      BY <2>1, <2>2 DEF CleanupIsDone, Accountable
  <1>13. NoFalseAlarm'
    <2>1. CASE Fault("failed", k, "deviceType") /\ Raise("any", "UncategorizedErr")
      <3>1. Explains(<<"failed", k, "deviceType">>, <<"any", "UncategorizedErr">>)
        BY DEF Explains
      <3> QED
        BY <2>1, <3>1, FailureIsNoFalseAlarm
    <2>2. CASE raised' = raised /\ faults \subseteq faults'
      BY <2>2, NoNewAlarm
    <2> QED
      BY <2>1, <2>2 DEF Fault
  <1>14. TypeOK'
    BY NextType DEF Next, ConnectionStep, DeploymentStep
  <1> QED
    BY <1>1, <1>2, <1>3, <1>4, <1>5, <1>6, <1>7, <1>8, <1>9, <1>10, <1>11, <1>12, <1>13, <1>14

(* PrepareProcessDeployment() changes nothing. *)
LEMMA StartupPrepareKeepsInv ==
    ASSUME NEW k \in Kinds, Inv, StartupPrepare(k), UNCHANGED <<connVars, start>>
    PROVE  Inv'
  <1> USE DEF Inv, StartupPrepare, StartupError, AfterStartup, AfterTeardown, engineVars,
              deviceVars, hubVars, connVars, testVars, Goto, Raise, Uncategorized
  <1>1. FaultsAreKnown' /\ (Stopped => at = End)'
    BY DEF FaultsAreKnown, Fault, FaultKinds, Stopped
  <1>2. ConnectionIsOpen' /\ SubscriptionIsFollowed' /\ ConnectionShows'
    BY DEF ConnectionIsOpen, SubscriptionIsFollowed, SubscriptionLost, NoSubscription,
           ConnectionShows, Fault, Late, Stopped
  <1>3. HubShows'
    BY DEF HubShows, Fault, Late, Stopped
  <1>4. \A kind \in Kinds : DeploymentsAreKnown(kind)'
    BY DEF DeploymentsAreKnown, Fault, Late, Lingering, Lingers
  <1>5. \A kind \in Kinds : DeletesAreOfDeployed(kind)'
    BY DEF DeletesAreOfDeployed
  <1>6. InstancesAreDeployed' /\ StartupsAreDone'
    BY DEF InstancesAreDeployed, StartupsAreDone, TypeOK, PlatformTypeOK
  <1>7. CommandIsFollowed'
    BY DEF CommandIsFollowed, LostCommand, Fault, Late, Stopped
  <1>8. AnswerIsFollowed'
    BY DEF AnswerIsFollowed, CommandIsFollowed, LostCommand, Fault, Late, Stopped
  <1>9. EventIsFollowed'
    BY DEF EventIsFollowed, LostEvent, NoPublish, Late, Stopped, Fault
  <1>10. ValueIsFollowed'
    BY DEF ValueIsFollowed, LostValue, NoPublish, Fault, Late
  <1>11. IsNoticed'
    <2>1. CASE raised' # {}
      BY <2>1, RaisedIsNoticed
    <2>2. CASE raised' = {} /\ (UNCHANGED faults)
      BY <2>2
         DEF IsNoticed, SubscriptionLost, SleptTooShort, NoEventService, LostValue, LostCommand,
             LostEvent, Stopped, Fault,
             CommandIsFollowed, EventIsFollowed, ValueIsFollowed
    <2> QED
      BY <2>1, <2>2
  <1>12. CleanupIsDone'
    BY DEF CleanupIsDone, Accountable, Fault
  <1>13. NoFalseAlarm'
    <2>1. CASE Fault("failed", k, "prepare") /\ Raise(k, "PreparedDeploymentErr")
      <3>1. Explains(<<"failed", k, "prepare">>, <<k, "PreparedDeploymentErr">>)
        BY DEF Explains
      <3> QED
        BY <2>1, <3>1, FailureIsNoFalseAlarm
    <2>2. CASE Fault("missing", k, "selectable") /\ Raise(k, "UnexpectedSelectablesErr")
      <3>1. Explains(<<"missing", k, "selectable">>, <<k, "UnexpectedSelectablesErr">>)
        BY DEF Explains
      <3> QED
        BY <2>2, <3>1, FailureIsNoFalseAlarm
    <2>3. CASE raised' = raised /\ faults \subseteq faults'
      BY <2>3, NoNewAlarm
    <2> QED
      BY <2>1, <2>2, <2>3 DEF Fault
  <1>14. TypeOK'
    BY NextType DEF Next, ConnectionStep, DeploymentStep
  <1> QED
    BY <1>1, <1>2, <1>3, <1>4, <1>5, <1>6, <1>7, <1>8, <1>9, <1>10, <1>11, <1>12, <1>13, <1>14

(* The one deployment is made; one whose answer is lost may show at any time  *)
(* later and is a fault that lingers.                                         *)
LEMMA StartupDeployKeepsInv ==
    ASSUME NEW k \in Kinds, Inv, StartupDeploy(k), UNCHANGED <<connVars, start>>
    PROVE  Inv'
  <1> USE DEF Inv, StartupDeploy, StartupError, AfterStartup, AfterTeardown, engineVars,
              deviceVars, hubVars, connVars, testVars, Goto, Raise, Uncategorized
  <1>a. /\ \A j \in Kinds : j # k => deployed'[j] = deployed[j]
        /\ \A j \in Kinds : deployed[j] \subseteq deployed'[j]
        /\ UNCHANGED <<listed, instance, commands>>
    BY DEF TypeOK, PlatformTypeOK, CreateDeployment
  <1>b. /\ faults \subseteq faults'
        /\ Late' <=> Late
        /\ Stopped' <=> Stopped
        /\ Lingering => Lingering'
        /\ LostValue' <=> LostValue
        /\ LostEvent' <=> LostEvent
        /\ LostCommand' <=> LostCommand
        /\ SubscriptionLost' <=> SubscriptionLost
        /\ NoSubscription' <=> NoSubscription
        /\ NoPublish' <=> NoPublish
        /\ NoEventService' <=> NoEventService
    <2>1. CASE Fault("failed", k, "deploy") \/ UNCHANGED faults
      BY <2>1, ErrorOrNone
    <2>2. CASE Fault("unanswered", k, "deploy")
      BY <2>2, ErrorOrNone
    <2> QED
      BY <2>1, <2>2
  <1>c. /\ at = <<k, "deploy">>
        /\ UNCHANGED <<deviceVars, hubVars, received, connVars, start>>
        /\ \/ /\ \E i \in Ids : deployed'[k] = deployed[k] \cup {i}
                            /\ depl' = IF k = "process" THEN i ELSE depl
              /\ at' = <<k, "sleep">>
              /\ UNCHANGED <<ids, failedStartups, raised, faults>>
           \/ /\ at' = AfterStartup(k) /\ failedStartups' = failedStartups \cup {k} /\ ids' = {}
              /\ UNCHANGED depl
              /\ raised' # {} /\ faults' # {} /\ (UNCHANGED deployed \/ Lingering')
    <2>1. CASE /\ Fault("unanswered", k, "deploy")
               /\ Raise(k, "DeploymentErr") /\ StartupError(k) /\ UNCHANGED depl
      <3>1. <<"unanswered", k, "deploy">> \in faults'
        BY <2>1, FaultAdds
      <3>2. Lingers(<<"unanswered", k, "deploy">>)
        BY DEF Lingers
      <3>3. Lingering' /\ faults' # {}
        BY <3>1, <3>2 DEF Lingering
      <3> QED
        BY <2>1, <3>3
    <2>2. CASE /\ Fault("failed", k, "deploy") /\ UNCHANGED engineVars
               /\ Raise(k, "DeploymentErr") /\ StartupError(k) /\ UNCHANGED depl
      <3>1. faults' # {}
        BY <2>2, FaultAdds
      <3> QED
        BY <2>2, <3>1
    <2>3. CASE /\ \E i \in Ids : CreateDeployment(k, i) /\ depl' = IF k = "process" THEN i ELSE depl
               /\ Goto(k, "sleep")
               /\ UNCHANGED <<ids, failedStartups, raised, faults>>
      BY <2>3 DEF CreateDeployment, TypeOK, PlatformTypeOK
    <2> QED
      BY <2>1, <2>2, <2>3
  <1>1. FaultsAreKnown' /\ (Stopped => at = End)'
    BY DEF FaultsAreKnown, Fault, FaultKinds, Stopped
  <1>2. ConnectionIsOpen' /\ SubscriptionIsFollowed' /\ ConnectionShows'
    BY <1>a, <1>b, <1>c DEF ConnectionIsOpen, SubscriptionIsFollowed, ConnectionShows
  <1>3. HubShows'
    BY <1>a, <1>b, <1>c DEF HubShows
  <1>4. \A kind \in Kinds : DeploymentsAreKnown(kind)'
    BY <1>a, <1>b, <1>c DEF DeploymentsAreKnown
  <1>5. \A kind \in Kinds : DeletesAreOfDeployed(kind)'
    BY <1>a, <1>b, <1>c DEF DeletesAreOfDeployed
  <1>6. InstancesAreDeployed' /\ StartupsAreDone'
    BY <1>a, <1>b, <1>c DEF InstancesAreDeployed, StartupsAreDone, TypeOK, PlatformTypeOK
  <1>7. CommandIsFollowed'
    BY <1>a, <1>b, <1>c DEF CommandIsFollowed
  <1>8. AnswerIsFollowed'
    BY <1>a, <1>b, <1>c DEF AnswerIsFollowed, DeploymentsAreKnown
  <1>9. EventIsFollowed'
    BY <1>a, <1>b, <1>c DEF EventIsFollowed
  <1>10. ValueIsFollowed'
    BY <1>a, <1>b, <1>c DEF ValueIsFollowed
  <1>11. IsNoticed'
    <2>1. CASE raised' # {}
      BY <2>1, RaisedIsNoticed
    <2>2. CASE raised' = {} /\ at' = <<k, "sleep">> /\ UNCHANGED <<failedStartups, raised, faults>>
      BY <2>2, <1>a, <1>b, <1>c DEF IsNoticed
    <2> QED
      BY <1>c, <2>1, <2>2
  <1>12. CleanupIsDone'
    BY <1>a, <1>b, <1>c DEF CleanupIsDone, Accountable
  <1>13. NoFalseAlarm'
    <2>1. CASE Fault("failed", k, "deploy") /\ Raise(k, "DeploymentErr")
      <3>1. Explains(<<"failed", k, "deploy">>, <<k, "DeploymentErr">>)
        BY DEF Explains
      <3> QED
        BY <2>1, <3>1, FailureIsNoFalseAlarm
    <2>2. CASE Fault("unanswered", k, "deploy") /\ Raise(k, "DeploymentErr")
      <3>1. Explains(<<"unanswered", k, "deploy">>, <<k, "DeploymentErr">>)
        BY DEF Explains
      <3> QED
        BY <2>2, <3>1, FailureIsNoFalseAlarm
    <2>3. CASE raised' = raised /\ faults \subseteq faults'
      BY <2>3, NoNewAlarm
    <2> QED
      BY <2>1, <2>2, <2>3 DEF Fault
  <1>14. TypeOK'
    BY NextType DEF Next, ConnectionStep, DeploymentStep
  <1> QED
    BY <1>1, <1>2, <1>3, <1>4, <1>5, <1>6, <1>7, <1>8, <1>9, <1>10, <1>11, <1>12, <1>13, <1>14

(* After the sleep the deployment shows. *)
LEMMA StartupSleepKeepsInv ==
    ASSUME NEW k \in Kinds, Inv, StartupSleep(k), UNCHANGED <<connVars, start>>
    PROVE  Inv'
  <1> USE DEF Inv, StartupSleep, StartupError, AfterStartup, AfterTeardown, engineVars,
              deviceVars, hubVars, connVars, testVars, Goto, Raise, Uncategorized
  <1>a. Slept
    BY SleepOutcome
  <1>1. FaultsAreKnown' /\ (Stopped => at = End)'
    BY <1>a DEF Slept, FaultsAreKnown, GuaranteeElapsed, Fault, FaultKinds
  <1>2. ConnectionIsOpen' /\ SubscriptionIsFollowed' /\ ConnectionShows'
    BY <1>a DEF Slept, ConnectionIsOpen, SubscriptionIsFollowed, ConnectionShows, Settled
  <1>3. HubShows'
    BY <1>a DEF Slept, HubShows, Settled
  <1>4. \A kind \in Kinds : DeploymentsAreKnown(kind)'
    <2> SUFFICES ASSUME NEW j \in Kinds PROVE DeploymentsAreKnown(j)'
      OBVIOUS
    <2>1. CASE j = k
      <3>1. Undisturbed => \E d \in Ids : deployed[k] = {d}
        BY DEF DeploymentsAreKnown
      <3>2. listed = deployed \/ Late'
        BY <1>a DEF Slept, Settled
      <3>3. Late' => Lingering'
        BY DEF Late, Lingering, Lingers
      <3> QED
        BY <2>1, <3>1, <3>2, <3>3, <1>a DEF Slept, DeploymentsAreKnown
    <2>2. CASE j # k
      BY <2>2, <1>a DEF Slept, DeploymentsAreKnown
    <2> QED
      BY <2>1, <2>2
  <1>5. \A kind \in Kinds : DeletesAreOfDeployed(kind)'
    BY DEF DeletesAreOfDeployed
  <1>6. InstancesAreDeployed' /\ StartupsAreDone'
    BY DEF InstancesAreDeployed, StartupsAreDone, TypeOK, PlatformTypeOK
  <1>7. CommandIsFollowed'
    BY <1>a DEF Slept, CommandIsFollowed, Settled
  <1>8. AnswerIsFollowed'
    BY <1>a DEF Slept, AnswerIsFollowed, CommandIsFollowed, Settled
  <1>9. EventIsFollowed'
    BY <1>a DEF Slept, EventIsFollowed, Settled
  <1>10. ValueIsFollowed'
    BY <1>a DEF Slept, ValueIsFollowed, Settled
  <1>11. IsNoticed'
    BY <1>a DEF Slept, IsNoticed, GuaranteeElapsed, Fault
  <1>12. CleanupIsDone'
    BY <1>a DEF Slept, CleanupIsDone, Accountable
  <1>13. NoFalseAlarm'
    BY <1>a, NoNewAlarm DEF Slept
  <1>14. TypeOK'
    BY NextType DEF Next, ConnectionStep, DeploymentStep
  <1> QED
    BY <1>1, <1>2, <1>3, <1>4, <1>5, <1>6, <1>7, <1>8, <1>9, <1>10, <1>11, <1>12, <1>13, <1>14

(* StartProcess(): the command of this run is the only one. *)
LEMMA StartupStartKeepsInv ==
    ASSUME Inv, StartupStart, UNCHANGED <<connVars, start>>
    PROVE  Inv'
  <1> USE DEF Inv, StartupStart, StartupError, AfterStartup, AfterTeardown, engineVars,
              deviceVars, hubVars, connVars, testVars, Goto, Raise, Uncategorized
  <1>a. depl \in Ids
    BY DEF InstancesAreDeployed, TypeOK, PlatformTypeOK
  <1>b. /\ UNCHANGED <<deployed, listed>>
        /\ instance'["event"] = instance["event"]
        /\ \A j \in Ids : j # depl => instance'["process"][j] = instance["process"][j]
    BY <1>a DEF TypeOK, PlatformTypeOK, StartInstance
  <1>c. /\ faults \subseteq faults'
        /\ Late' <=> Late
        /\ Stopped' <=> Stopped
        /\ Lingering => Lingering'
        /\ LostValue' <=> LostValue
        /\ LostEvent' <=> LostEvent
        /\ LostCommand' <=> LostCommand
        /\ SubscriptionLost' <=> SubscriptionLost
        /\ NoSubscription' <=> NoSubscription
        /\ NoPublish' <=> NoPublish
        /\ NoEventService' <=> NoEventService
    <2>1. CASE Fault("failed", "process", "start") \/ UNCHANGED faults
      BY <2>1, ErrorOrNone
    <2>2. CASE Fault("unanswered", "process", "start")
      BY <2>2, ErrorOrNone
    <2> QED
      BY <2>1, <2>2
  <1>d. /\ at = <<"process", "start">>
        /\ UNCHANGED <<deviceVars, hubVars, received, depl, connVars, start>>
        /\ commands' \subseteq commands \cup {depl}
        /\ \/ /\ instance'["process"][depl] = "running" /\ commands' = commands \cup {depl}
              /\ at' = <<"connection", "sleep">>
              /\ UNCHANGED <<ids, failedStartups, raised, faults>>
           \/ /\ at' = <<"connection", "sleep">>
               /\ failedStartups' = failedStartups \cup {"process"} /\ ids' = {}
              /\ raised' # {} /\ faults' # {}
    <2>1. CASE /\ StartInstance(depl) /\ at' = AfterStartup("process")
               /\ UNCHANGED <<ids, failedStartups, raised, faults>>
      BY <1>a, <2>1 DEF StartInstance, TypeOK, PlatformTypeOK
    <2>2. CASE /\ Fault("failed", "process", "start") /\ UNCHANGED engineVars
               /\ Raise("process", "StartErr") /\ StartupError("process")
      <3>1. faults' # {}
        BY <2>2, FaultAdds
      <3> QED
        BY <2>2, <3>1
    <2>3. CASE /\ Fault("unanswered", "process", "start") /\ StartInstance(depl)
               /\ Raise("process", "StartErr") /\ StartupError("process")
      <3>1. faults' # {}
        BY <2>3, FaultAdds
      <3> QED
        BY <1>a, <2>3, <3>1 DEF StartInstance, TypeOK, PlatformTypeOK
    <2> QED
      BY <2>1, <2>2, <2>3
  <1>1. FaultsAreKnown' /\ (Stopped => at = End)'
    BY DEF FaultsAreKnown, Fault, FaultKinds, Stopped
  <1>2. ConnectionIsOpen' /\ SubscriptionIsFollowed' /\ ConnectionShows'
    BY <1>b, <1>c, <1>d DEF ConnectionIsOpen, SubscriptionIsFollowed, ConnectionShows
  <1>3. HubShows'
    BY <1>b, <1>c, <1>d DEF HubShows
  <1>4. \A kind \in Kinds : DeploymentsAreKnown(kind)'
    BY <1>b, <1>c, <1>d DEF DeploymentsAreKnown
  <1>5. \A kind \in Kinds : DeletesAreOfDeployed(kind)'
    BY <1>b, <1>c, <1>d DEF DeletesAreOfDeployed
  <1>6. InstancesAreDeployed' /\ StartupsAreDone'
    BY <1>b, <1>c, <1>d DEF InstancesAreDeployed, StartupsAreDone, TypeOK, PlatformTypeOK
  <1>7. CommandIsFollowed'
    BY <1>b, <1>c, <1>d DEF CommandIsFollowed
  <1>8. AnswerIsFollowed'
    BY <1>b, <1>c, <1>d DEF AnswerIsFollowed
  <1>9. EventIsFollowed'
    BY <1>b, <1>c, <1>d DEF EventIsFollowed
  <1>10. ValueIsFollowed'
    BY <1>b, <1>c, <1>d DEF ValueIsFollowed
  <1>11. IsNoticed'
    <2>1. CASE raised' # {}
      BY <2>1, RaisedIsNoticed
    <2>2. CASE raised' = {} /\ UNCHANGED <<failedStartups, raised, faults>>
      BY <2>2, <1>b, <1>c, <1>d DEF IsNoticed, StartupsAreDone
    <2> QED
      BY <1>d, <2>1, <2>2
  <1>12. CleanupIsDone'
    BY <1>b, <1>c, <1>d DEF CleanupIsDone, Accountable
  <1>13. NoFalseAlarm'
    <2>1. CASE Fault("failed", "process", "start") /\ Raise("process", "StartErr")
      <3>1. Explains(<<"failed", "process", "start">>, <<"process", "StartErr">>)
        BY DEF Explains
      <3> QED
        BY <2>1, <3>1, FailureIsNoFalseAlarm
    <2>2. CASE Fault("unanswered", "process", "start") /\ Raise("process", "StartErr")
      <3>1. Explains(<<"unanswered", "process", "start">>, <<"process", "StartErr">>)
        BY DEF Explains
      <3> QED
        BY <2>2, <3>1, FailureIsNoFalseAlarm
    <2>3. CASE raised' = raised /\ faults \subseteq faults'
      BY <2>3, NoNewAlarm
    <2> QED
      BY <2>1, <2>2, <2>3 DEF Fault
  <1>14. TypeOK'
    BY NextType DEF Next, ConnectionStep, DeploymentStep
  <1> QED
    BY <1>1, <1>2, <1>3, <1>4, <1>5, <1>6, <1>7, <1>8, <1>9, <1>10, <1>11, <1>12, <1>13, <1>14

(* ProcessTeardown() lists the one deployment, unless a sleep was too short. *)
LEMMA TeardownListKeepsInv ==
    ASSUME NEW k \in Kinds, Inv, TeardownList(k), UNCHANGED <<connVars, start>>
    PROVE  Inv'
  <1> USE DEF Inv, TeardownList, StartupError, AfterStartup, AfterTeardown, engineVars,
              deviceVars, hubVars, connVars, testVars, Goto, Raise, Uncategorized
  <1>1. FaultsAreKnown' /\ (Stopped => at = End)'
    BY DEF FaultsAreKnown, Fault, FaultKinds, Stopped
  <1>2. ConnectionIsOpen' /\ SubscriptionIsFollowed' /\ ConnectionShows'
    BY DEF ConnectionIsOpen, SubscriptionIsFollowed, SubscriptionLost, NoSubscription,
           ConnectionShows, Fault, Late, Stopped
  <1>3. HubShows'
    BY DEF HubShows, Fault, Late, Stopped
  <1>4. \A kind \in Kinds : DeploymentsAreKnown(kind)'
    BY DEF DeploymentsAreKnown, StartupsAreDone, Fault, Late, Lingering, Lingers
  <1>5. \A kind \in Kinds : DeletesAreOfDeployed(kind)'
    BY DEF DeletesAreOfDeployed
  <1>6. InstancesAreDeployed' /\ StartupsAreDone'
    BY DEF InstancesAreDeployed, StartupsAreDone, TypeOK, PlatformTypeOK
  <1>7. CommandIsFollowed'
    BY DEF CommandIsFollowed, StartupsAreDone, LostCommand, Fault, Late, Stopped
  <1>8. AnswerIsFollowed'
    BY DEF AnswerIsFollowed, CommandIsFollowed, LostCommand, Fault, Late, Stopped
  <1>9. EventIsFollowed'
    BY DEF EventIsFollowed, LostEvent, NoPublish, Late, Stopped, Fault
  <1>10. ValueIsFollowed'
    BY DEF ValueIsFollowed, LostValue, NoPublish, Fault, Late
  <1>11. IsNoticed'
    <2>1. CASE raised' # {}
      BY <2>1, RaisedIsNoticed
    <2>2. CASE raised' = {} /\ (UNCHANGED faults /\ at' = <<k, "instances">>)
      BY <2>2
         DEF IsNoticed, SubscriptionLost, SleptTooShort, NoEventService, LostValue, LostCommand,
             LostEvent, Stopped, Fault,
             CommandIsFollowed, EventIsFollowed, ValueIsFollowed
    <2> QED
      BY <2>1, <2>2
  <1>12. CleanupIsDone'
    <2>1. at' # <<k, "instances">> => faults' # {}
      BY FaultAdds
    <2>2. faults # {} => faults' # {}
      BY FaultAdds
    <2> QED
      BY <2>1, <2>2 DEF CleanupIsDone, Accountable
  <1>13. NoFalseAlarm'
    <2>1. CASE Fault("failed", k, "teardown") /\ Raise("any", "UncategorizedErr")
      <3>1. Explains(<<"failed", k, "teardown">>, <<"any", "UncategorizedErr">>)
        BY DEF Explains
      <3> QED
        BY <2>1, <3>1, FailureIsNoFalseAlarm
    <2>2. CASE raised' = raised /\ faults \subseteq faults'
      BY <2>2, NoNewAlarm
    <2>3. CASE UNCHANGED faults /\ Uncategorized /\ Cardinality(listed[k]) # 1
      <3>1. Accountable => Late
        <4>1. Undisturbed => \E d \in Ids : listed[k] = {d} \/ Late
          BY DEF DeploymentsAreKnown, StartupsAreDone
        <4>2. \A d \in Ids : Cardinality({d}) = 1
          BY FS_Singleton
        <4> QED
          BY <2>3, <4>1, <4>2 DEF Accountable
      <3>2. Accountable => \E f \in faults' : Explains(f, <<"any", "UncategorizedErr">>)
        BY <2>3, <3>1, LateExplains
      <3> QED
        BY <2>3, <3>2, NewAlarm
    <2> QED
      BY <2>1, <2>2, <2>3 DEF Fault
  <1>14. TypeOK'
    BY NextType DEF Next, ConnectionStep, DeploymentStep
  <1> QED
    BY <1>1, <1>2, <1>3, <1>4, <1>5, <1>6, <1>7, <1>8, <1>9, <1>10, <1>11, <1>12, <1>13, <1>14

(* ProcessTeardown() looks at the instances: one that is missing or not       *)
(* completed has a fault that explains it, and an event that is lost is told  *)
(* of here at last.                                                           *)
LEMMA TeardownInstancesKeepsInv ==
    ASSUME NEW k \in Kinds, Inv, TeardownInstances(k), UNCHANGED <<connVars, start>>
    PROVE  Inv'
  <1> USE DEF Inv, TeardownInstances, StartupError, AfterStartup, AfterTeardown, engineVars,
              deviceVars, hubVars, connVars, testVars, Goto, Raise, Uncategorized
  <1>1. FaultsAreKnown' /\ (Stopped => at = End)'
    BY DEF FaultsAreKnown, Fault, FaultKinds, Stopped
  <1>2. ConnectionIsOpen' /\ SubscriptionIsFollowed' /\ ConnectionShows'
    BY DEF ConnectionIsOpen, SubscriptionIsFollowed, SubscriptionLost, NoSubscription,
           ConnectionShows, Fault, Late, Stopped
  <1>3. HubShows'
    BY DEF HubShows, Fault, Late, Stopped
  <1>4. \A kind \in Kinds : DeploymentsAreKnown(kind)'
    BY DEF DeploymentsAreKnown, Fault, Late, Lingering, Lingers
  <1>5. \A kind \in Kinds : DeletesAreOfDeployed(kind)'
    BY DEF DeletesAreOfDeployed
  <1>6. InstancesAreDeployed' /\ StartupsAreDone'
    BY DEF InstancesAreDeployed, StartupsAreDone, TypeOK, PlatformTypeOK
  <1>7. CommandIsFollowed'
    BY DEF CommandIsFollowed, LostCommand, Fault, Late, Stopped
  <1>8. AnswerIsFollowed'
    BY DEF AnswerIsFollowed, CommandIsFollowed, LostCommand, Fault, Late, Stopped
  <1>9. EventIsFollowed'
    BY DEF EventIsFollowed, LostEvent, NoPublish, Late, Stopped, Fault
  <1>10. ValueIsFollowed'
    BY DEF ValueIsFollowed, LostValue, NoPublish, Fault, Late
  <1>11. IsNoticed'
    <2>1. CASE raised' # {}
      BY <2>1, RaisedIsNoticed
    <2>2. CASE raised' = {} /\ UNCHANGED faults
      <3>0. Cardinality(Instances(k)) = 1
        BY <2>2
      <3>1. k = "event" /\ Undisturbed => ~event /\ ~LostEvent
        <4> SUFFICES ASSUME k = "event", Undisturbed, event \/ LostEvent PROVE FALSE
          OBVIOUS
        <4>1. \A i \in Ids : instance["event"][i] = "none"
          BY <2>2 DEF EventIsFollowed, StartupsAreDone
        <4>2. Instances(k) = {}
          BY <4>1 DEF Instances
        <4>3. Cardinality(Instances(k)) = 0
          BY <4>2, FS_EmptySet
        <4> QED
          BY <3>0, <4>3
      <3> QED
        BY <2>2, <3>1
           DEF IsNoticed, SubscriptionLost, SleptTooShort, NoEventService, LostValue, LostCommand,
               LostEvent, Stopped,
               CommandIsFollowed, StartupsAreDone
    <2> QED
      BY <2>1, <2>2
  <1>12. CleanupIsDone'
    <2>1. failedStartups' # failedStartups => faults' # {}
      BY FaultAdds
    <2>2. faults # {} => faults' # {}
      BY FaultAdds
    <2> QED
      BY <2>1, <2>2 DEF CleanupIsDone, Accountable
  <1>13. NoFalseAlarm'
    <2>1. CASE Fault("failed", k, "instances") /\ Raise("any", "UncategorizedErr")
      <3>1. Explains(<<"failed", k, "instances">>, <<"any", "UncategorizedErr">>)
        BY DEF Explains
      <3> QED
        BY <2>1, <3>1, FailureIsNoFalseAlarm
    <2>2. CASE raised' = raised /\ faults \subseteq faults'
      BY <2>2, NoNewAlarm
    <2>3. CASE /\ UNCHANGED faults /\ Uncategorized
               /\ Cardinality(Instances(k)) # 1 \/ \E i \in Ids : instance[k][i] = "several"
      <3>1. Accountable => Late \/ (k = "event" /\ (LostEvent \/ NoPublish))
        <4> SUFFICES ASSUME Accountable, ~Late PROVE k = "event" /\ (LostEvent \/ NoPublish)
          OBVIOUS
        <4>1. PICK d \in Ids : deployed[k] = {d}
          BY <2>3 DEF Accountable, DeploymentsAreKnown
        <4>2. Instances(k) \subseteq {d}
          BY <4>1 DEF Instances, InstancesAreDeployed
        <4>3. \A i \in Ids : instance[k][i] # "several"
          BY <2>3, <4>1, <4>2
             DEF Accountable, EventIsFollowed, AnswerIsFollowed, StartupsAreDone, Instances
        <4>4. Instances(k) = {}
          <5>1. Cardinality({d}) = 1
            BY FS_Singleton
          <5>2. Instances(k) # {d}
            BY <2>3, <4>3, <5>1
          <5> QED
            BY <4>2, <5>2
        <4>5. k # "process"
          BY <2>3, <4>4, <4>1 DEF Accountable, AnswerIsFollowed, StartupsAreDone, Instances
        <4>6. LostEvent \/ NoPublish
          BY <2>3, <4>4, <4>5, <4>1
             DEF Accountable, EventIsFollowed, StartupsAreDone, Instances, Stopped
        <4> QED
          BY <4>5, <4>6
      <3>2. Late => \E f \in faults' : Explains(f, <<"any", "UncategorizedErr">>)
        BY <2>3, LateExplains
      <3>3. /\ Explains(<<"lost", "event", "value">>, <<"any", "UncategorizedErr">>)
            /\ Explains(<<"failed", "connection", "publish">>, <<"any", "UncategorizedErr">>)
        BY DEF Explains
      <3>4. Accountable => \E f \in faults' : Explains(f, <<"any", "UncategorizedErr">>)
        BY <2>3, <3>1, <3>2, <3>3 DEF LostEvent, NoPublish
      <3> QED
        BY <2>3, <3>4, NewAlarm
    <2>4. CASE /\ UNCHANGED faults /\ Raise(k, "UnexpectedInstanceStateErr")
               /\ \E i \in Instances(k) : instance[k][i] # "completed"
      <3> DEFINE AnswerCannotCome ==
            /\ k = "process"
            /\ \/ LostCommand
               \/ <<"unexpected", "process", "command">> \in faults
               \/ <<"failed", "process", "respond">> \in faults
      <3>1. Accountable => Late \/ AnswerCannotCome
        <4> SUFFICES ASSUME Accountable, ~Late
                     PROVE  AnswerCannotCome
          OBVIOUS
        <4>1. PICK i \in Ids : instance[k][i] \in {"running", "several"}
          BY <2>4 DEF Instances, TypeOK, PlatformTypeOK
        <4>2. k # "event"
          BY <2>4, <4>1 DEF Accountable, EventIsFollowed, StartupsAreDone
        <4>3. i \in deployed["process"]
          BY <4>1, <4>2 DEF InstancesAreDeployed
        <4> QED
          BY <2>4, <4>1, <4>2, <4>3 DEF Accountable, AnswerIsFollowed, StartupsAreDone
      <3>2. Late => \E f \in faults' : Explains(f, <<k, "UnexpectedInstanceStateErr">>)
        BY <2>4, LateExplains
      <3>3. k = "process" =>
            /\ Explains(<<"lost", "process", "command">>, <<k, "UnexpectedInstanceStateErr">>)
            /\ Explains(<<"unexpected", "process", "command">>, <<k, "UnexpectedInstanceStateErr">>)
            /\ Explains(<<"failed", "process", "respond">>, <<k, "UnexpectedInstanceStateErr">>)
        BY DEF Explains
      <3>4. Accountable => \E f \in faults' : Explains(f, <<k, "UnexpectedInstanceStateErr">>)
        BY <2>4, <3>1, <3>2, <3>3 DEF LostCommand
      <3> QED
        BY <2>4, <3>4, NewAlarm
    <2> QED
      BY <2>1, <2>2, <2>3, <2>4 DEF Fault
  <1>14. TypeOK'
    BY NextType DEF Next, ConnectionStep, DeploymentStep
  <1> QED
    BY <1>1, <1>2, <1>3, <1>4, <1>5, <1>6, <1>7, <1>8, <1>9, <1>10, <1>11, <1>12, <1>13, <1>14

(* ProcessTeardown() deletes what it has listed; where deleting twice is an   *)
(* error it deletes only what is there.                                       *)
LEMMA TeardownDeleteKeepsInv ==
    ASSUME NEW k \in Kinds, Inv, TeardownDelete(k), UNCHANGED <<connVars, start>>
    PROVE  Inv'
  <1> USE DEF Inv, StartupError, AfterStartup, AfterTeardown, engineVars, deviceVars, hubVars,
              connVars, testVars, Goto, Raise, Uncategorized
  <1>a. PICK i \in ids : DeleteProcess(k, i,
            at' = AfterTeardown(k) /\ ids' = {} /\ UNCHANGED failedStartups)
    BY DEF TeardownDelete
  <1>b. i \in Ids
    BY DEF TypeOK
  <1>c. RemoveDeployment(k, i) \/ UNCHANGED engineVars
    BY <1>a DEF DeleteProcess
  <1>d. /\ listed' = listed
        /\ deployed'[k] \subseteq deployed[k] /\ deployed[k] \subseteq deployed'[k] \cup {i}
        /\ \A j \in Kinds : deployed'[j] \subseteq deployed[j]
        /\ \A j \in Kinds : j # k => deployed'[j] = deployed[j] /\ instance'[j] = instance[j]
        /\ \A x \in deployed'[k] : instance'[k][x] \in {instance[k][x], "none"}
        /\ \A j \in Kinds, x \in Ids :
             \/ instance'[j][x] = "none"
             \/ instance'[j][x] = instance[j][x] /\ (x \in deployed[j] => x \in deployed'[j])
        /\ commands' \subseteq commands
        /\ k = "event" => commands' = commands
        /\ commands' \subseteq deployed["process"] => commands' \subseteq deployed'["process"]
    BY <1>b, <1>c, Removal
  <1>e. /\ faults \subseteq faults'
        /\ Late' <=> Late
        /\ Stopped' <=> Stopped
        /\ Lingering => Lingering'
        /\ LostValue' <=> LostValue
        /\ LostEvent' <=> LostEvent
        /\ LostCommand' <=> LostCommand
        /\ SubscriptionLost' <=> SubscriptionLost
        /\ NoSubscription' <=> NoSubscription
        /\ NoPublish' <=> NoPublish
        /\ NoEventService' <=> NoEventService
    <2>1. CASE Fault("failed", k, at[2]) \/ UNCHANGED faults
      BY <2>1, ErrorOrNone
    <2>2. CASE Fault("unanswered", k, at[2])
      BY <2>2, ErrorOrNone
    <2> QED
      BY <1>a, <2>1, <2>2 DEF DeleteProcess
  <1>f. /\ at = <<k, "cleanup">>
        /\ UNCHANGED <<deviceVars, hubVars, depl, received, connVars, start>>
        /\ \/ /\ ids' = ids \ {i} /\ deployed'[k] = deployed[k] \ {i}
              /\ UNCHANGED <<at, failedStartups, raised, faults>>
           \/ /\ at' = AfterTeardown(k) /\ UNCHANGED failedStartups
              /\ ids' = {} /\ Uncategorized
              /\ faults' # {} \/ (UNCHANGED faults /\ i \notin deployed[k] /\ RedeleteFails)
    BY <1>a, FaultAdds DEF TeardownDelete, DeleteProcess, RemoveDeployment, TypeOK, PlatformTypeOK
  <1>1. FaultsAreKnown' /\ (Stopped => at = End)'
    BY <1>a, <1>e, <1>f DEF FaultsAreKnown, DeleteProcess, Fault, FaultKinds
  <1>2. ConnectionIsOpen' /\ SubscriptionIsFollowed' /\ ConnectionShows'
    BY <1>d, <1>e, <1>f DEF ConnectionIsOpen, SubscriptionIsFollowed, ConnectionShows
  <1>3. HubShows'
    BY <1>d, <1>e, <1>f DEF HubShows
  <1>4. \A kind \in Kinds : DeploymentsAreKnown(kind)'
    <2> SUFFICES ASSUME NEW j \in Kinds PROVE DeploymentsAreKnown(j)'
      OBVIOUS
    <2>1. CASE j = k
      <3>1. at = <<k, "cleanup">> /\ listed' = listed /\ start' = start
        BY <1>d, <1>f
      <3>2. CASE at' = AfterTeardown(k)
        BY ONLY <2>1, <3>1, <3>2, <1>d, <1>e, DeploymentsAreKnown(k), k \in Kinds
           DEF DeploymentsAreKnown, AfterTeardown, Kinds
      <3>3. CASE UNCHANGED at /\ ids' = ids \ {i} /\ deployed'[k] = deployed[k] \ {i}
        BY ONLY <2>1, <3>1, <3>3, <1>e, DeploymentsAreKnown(k), k \in Kinds
           DEF DeploymentsAreKnown, Kinds
      <3> QED
        BY <1>f, <3>2, <3>3
    <2>2. CASE j # k
      BY <2>2, <1>d, <1>e, <1>f DEF DeploymentsAreKnown
    <2> QED
      BY <2>1, <2>2
  <1>5. \A kind \in Kinds : DeletesAreOfDeployed(kind)'
    BY <1>d, <1>e, <1>f DEF DeletesAreOfDeployed
  <1>6. InstancesAreDeployed' /\ StartupsAreDone'
    BY <1>d, <1>e, <1>f DEF InstancesAreDeployed, StartupsAreDone, TypeOK, PlatformTypeOK
  <1>7. CommandIsFollowed'
    BY <1>d, <1>e, <1>f DEF CommandIsFollowed
  <1>8. AnswerIsFollowed'
    BY <1>d, <1>e, <1>f DEF AnswerIsFollowed
  <1>9. EventIsFollowed'
    BY <1>d, <1>e, <1>f DEF EventIsFollowed
  <1>10. ValueIsFollowed'
    BY <1>d, <1>e, <1>f DEF ValueIsFollowed
  <1>11. IsNoticed'
    <2>1. CASE raised' # {}
      BY <2>1, RaisedIsNoticed
    <2>2. CASE raised' = {} /\ UNCHANGED <<at, failedStartups, raised, faults>>
      BY <2>2, <1>d, <1>e, <1>f DEF IsNoticed, SleptTooShort
    <2> QED
      BY <1>f, <2>1, <2>2
  <1>12. CleanupIsDone'
    BY <1>d, <1>e, <1>f
       DEF CleanupIsDone, Accountable, DeletesAreOfDeployed, DeploymentsAreKnown, Late
  <1>13. NoFalseAlarm'
    <2>0. /\ Explains(<<"failed", k, at[2]>>, <<"any", "UncategorizedErr">>)
          /\ Explains(<<"unanswered", k, at[2]>>, <<"any", "UncategorizedErr">>)
      BY <1>f DEF Explains
    <2>1. CASE Fault("failed", k, at[2]) /\ Uncategorized
      BY <1>f, <2>0, <2>1, FailureIsNoFalseAlarm
    <2>2. CASE Fault("unanswered", k, at[2]) /\ Uncategorized
      BY <1>f, <2>0, <2>2, FailureIsNoFalseAlarm
    <2>3. CASE UNCHANGED <<raised, faults>>
      BY <1>f, <2>3, NoNewAlarm
    <2>4. CASE UNCHANGED faults /\ Uncategorized /\ i \notin deployed[k] /\ RedeleteFails
      <3>1. Accountable => Late
        BY <1>f, <2>4 DEF Accountable, DeploymentsAreKnown
      <3>2. Accountable => \E f \in faults' : Explains(f, <<"any", "UncategorizedErr">>)
        BY <2>4, <3>1, LateExplains
      <3> QED
        BY <1>f, <2>4, <3>2, NewAlarm
    <2> QED
      BY <1>a, <2>1, <2>2, <2>3, <2>4 DEF DeleteProcess
  <1>14. TypeOK'
    BY NextType DEF Next, ConnectionStep, DeploymentStep, TeardownDelete
  <1> QED
    BY <1>1, <1>2, <1>3, <1>4, <1>5, <1>6, <1>7, <1>8, <1>9, <1>10, <1>11, <1>12, <1>13, <1>14

(* ProcessTeardown() returns with nothing left; no command received is a      *)
(* command lost.                                                              *)
LEMMA TeardownReturnKeepsInv ==
    ASSUME NEW k \in Kinds, Inv, TeardownReturn(k), UNCHANGED <<connVars, start>>
    PROVE  Inv'
  <1> USE DEF Inv, TeardownReturn, StartupError, AfterStartup, AfterTeardown, engineVars,
              deviceVars, hubVars, connVars, testVars, Goto, Raise, Uncategorized
  <1>1. FaultsAreKnown' /\ (Stopped => at = End)'
    BY DEF FaultsAreKnown, Fault, FaultKinds, Stopped
  <1>2. ConnectionIsOpen' /\ SubscriptionIsFollowed' /\ ConnectionShows'
    BY DEF ConnectionIsOpen, SubscriptionIsFollowed, SubscriptionLost, NoSubscription,
           ConnectionShows, Fault, Late, Stopped
  <1>3. HubShows'
    BY DEF HubShows, Fault, Late, Stopped
  <1>4. \A kind \in Kinds : DeploymentsAreKnown(kind)'
    BY DEF DeploymentsAreKnown, Fault, Late, Lingering, Lingers
  <1>5. \A kind \in Kinds : DeletesAreOfDeployed(kind)'
    BY DEF DeletesAreOfDeployed
  <1>6. InstancesAreDeployed' /\ StartupsAreDone'
    BY DEF InstancesAreDeployed, StartupsAreDone, TypeOK, PlatformTypeOK
  <1>7. CommandIsFollowed'
    BY DEF CommandIsFollowed, LostCommand, Fault, Late, Stopped
  <1>8. AnswerIsFollowed'
    BY DEF AnswerIsFollowed, CommandIsFollowed, LostCommand, Fault, Late, Stopped
  <1>9. EventIsFollowed'
    BY DEF EventIsFollowed, LostEvent, NoPublish, Late, Stopped, Fault
  <1>10. ValueIsFollowed'
    BY DEF ValueIsFollowed, LostValue, NoPublish, Fault, Late
  <1>11. IsNoticed'
    <2>1. CASE raised' # {}
      BY <2>1, RaisedIsNoticed
    <2>2. CASE raised' = {} /\ (UNCHANGED faults /\ (k = "process" => received))
      BY <2>2
         DEF IsNoticed, SubscriptionLost, SleptTooShort, NoEventService, LostValue, LostCommand,
             LostEvent, Stopped, Fault,
             CommandIsFollowed, EventIsFollowed, ValueIsFollowed
    <2> QED
      BY <2>1, <2>2
  <1>12. CleanupIsDone'
    BY DEF CleanupIsDone, Accountable, DeploymentsAreKnown, Late
  <1>13. NoFalseAlarm'
    <2>1. CASE raised' = raised /\ faults \subseteq faults'
      BY <2>1, NoNewAlarm
    <2>2. CASE /\ UNCHANGED faults /\ k = "process" /\ ~received
               /\ Raise("process", "UnexpectedCommandCountError")
      <3>1. Accountable => Late \/ LostCommand
        BY <2>2 DEF Accountable, CommandIsFollowed
      <3>2. Late => \E f \in faults' : Explains(f, <<"process", "UnexpectedCommandCountError">>)
        BY <2>2, LateExplains
      <3>3. Explains(<<"lost", "process", "command">>, <<"process", "UnexpectedCommandCountError">>)
        BY DEF Explains
      <3>4. Accountable => \E f \in faults' : Explains(f, <<"process", "UnexpectedCommandCountError">>)
        BY <2>2, <3>1, <3>2, <3>3 DEF LostCommand
      <3> QED
        BY <2>2, <3>4, NewAlarm
    <2> QED
      BY <2>1, <2>2 DEF Fault
  <1>14. TypeOK'
    BY NextType DEF Next, ConnectionStep, DeploymentStep
  <1> QED
    BY <1>1, <1>2, <1>3, <1>4, <1>5, <1>6, <1>7, <1>8, <1>9, <1>10, <1>11, <1>12, <1>13, <1>14
===============================================================================
