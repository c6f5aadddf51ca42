--------------------------- MODULE ConnectionProofs ---------------------------
(*****************************************************************************)
(* What module ConnectionTest promises, for any sets of ids, any number of   *)
(* faults in a run, and platforms where deleting twice is an error and       *)
(* where it is not.                                                          *)
(* First the steps nobody in the test takes: runs that begin and are cut,    *)
(* callbacks, the platform's own steps.  Then the theorems.                  *)
(*****************************************************************************)
EXTENDS ConnectionStepProofs, ConnectionDeploymentProofs

(* The places of a run are sets of constants, for the provers to look into. *)
USE DEF HubSleeps, BeforeHub, BeforeConnect, BeforeSubscribe, BeforePublish, BeforeStart,
        BeforeCheck, Online, LostSubscription, SpentSubscription, CaughtUpOnline, CaughtUpOffline, CaughtUp, BeforeList, BeforeDeploy, Running, Startup,
        Teardown, ConnectionSteps, DeploymentSteps, Kinds, End, Undisturbed

(* A run begins: what an earlier one has left shows, or was left by a fault   *)
(* that lingers.                                                              *)
LEMMA StartRunKeepsInv ==
    ASSUME Inv, StartRun
    PROVE  Inv'
  <1> USE DEF Inv, StartRun, engineVars, deviceVars, hubVars, connVars, testVars, Goto, Raise,
              Uncategorized
  <1>a. /\ ~Late' /\ ~Stopped' /\ ~Lingering'
        /\ ~LostValue' /\ ~LostEvent' /\ ~LostCommand' /\ ~SubscriptionLost'
        /\ ~NoPublish' /\ ~NoEventService'
        /\ Undisturbed' => Settled \/ (Undisturbed /\ ~Late /\ ~Stopped /\ ~Lingering)
        /\ start' = "settled" => Settled
    BY DEF Late, Stopped, Lingering, Lingers, LostValue, LostEvent, LostCommand, SubscriptionLost,
           NoPublish, NoEventService
  <1>1. FaultsAreKnown' /\ (Stopped => at = End)'
    BY <1>a DEF FaultsAreKnown
  <1>2. ConnectionIsOpen' /\ SubscriptionIsFollowed' /\ ConnectionShows'
    BY <1>a DEF ConnectionIsOpen, SubscriptionIsFollowed, ConnectionShows, Settled
  <1>3. HubShows'
    BY <1>a DEF HubShows, Settled
  <1>4. \A k \in Kinds : DeploymentsAreKnown(k)'
    BY <1>a DEF DeploymentsAreKnown, Settled
  <1>5. \A k \in Kinds : DeletesAreOfDeployed(k)'
    BY <1>a DEF DeletesAreOfDeployed, Settled
  <1>6. InstancesAreDeployed' /\ StartupsAreDone'
    BY DEF InstancesAreDeployed, StartupsAreDone
  <1>7. CommandIsFollowed'
    BY <1>a DEF CommandIsFollowed, Settled
  <1>8. AnswerIsFollowed'
    BY <1>a DEF AnswerIsFollowed
  <1>9. EventIsFollowed'
    BY <1>a DEF EventIsFollowed, Settled
  <1>10. ValueIsFollowed'
    BY <1>a DEF ValueIsFollowed
  <1>11. IsNoticed'
    BY <1>a, <1>7, <1>9 DEF IsNoticed, CommandIsFollowed, EventIsFollowed
  <1>12. CleanupIsDone'
    BY <1>a DEF CleanupIsDone
  <1>13. NoFalseAlarm'
    BY DEF NoFalseAlarm
  <1>14. TypeOK'
    BY NextType DEF Next
  <1> QED
    BY <1>1, <1>2, <1>3, <1>4, <1>5, <1>6, <1>7, <1>8, <1>9, <1>10, <1>11, <1>12, <1>13, <1>14

(* The process ends in the middle of a run, which is a fault that lingers. *)
LEMMA StopRunKeepsInv ==
    ASSUME Inv, StopRun
    PROVE  Inv'
  <1> USE DEF Inv, StopRun, engineVars, deviceVars, hubVars, connVars, testVars, Goto, Raise,
              Uncategorized
  <1>a. Stopped' /\ faults \subseteq faults' /\ faults' # {}
    BY FaultAdds
  <1>b. Lingering'
    BY <1>a DEF Lingering, Lingers, Stopped
  <1>1. FaultsAreKnown' /\ (Stopped => at = End)'
    BY DEF FaultsAreKnown, Fault, FaultKinds, Stopped
  <1>2. ConnectionIsOpen' /\ SubscriptionIsFollowed' /\ ConnectionShows'
    BY <1>a DEF ConnectionIsOpen, SubscriptionIsFollowed, ConnectionShows
  <1>3. HubShows'
    BY <1>a DEF HubShows
  <1>4. \A k \in Kinds : DeploymentsAreKnown(k)'
    BY <1>a, <1>b DEF DeploymentsAreKnown
  <1>5. \A k \in Kinds : DeletesAreOfDeployed(k)'
    BY DEF DeletesAreOfDeployed
  <1>6. InstancesAreDeployed' /\ StartupsAreDone'
    BY DEF InstancesAreDeployed, StartupsAreDone
  <1>7. CommandIsFollowed'
    <2>1. LostCommand' <=> LostCommand
      BY DEF LostCommand, Fault
    <2>2. Late => Late'
      BY FaultAdds
    <2> QED
      BY <1>a, <2>1, <2>2 DEF CommandIsFollowed
  <1>8. AnswerIsFollowed'
    BY <1>a DEF AnswerIsFollowed
  <1>9. EventIsFollowed'
    <2>1. LostEvent' <=> LostEvent
      BY DEF LostEvent, Fault
    <2> QED
      BY <1>a, <2>1 DEF EventIsFollowed
  <1>10. ValueIsFollowed'
    BY <1>a DEF ValueIsFollowed, LostValue, Fault
  <1>11. IsNoticed'
    BY <1>a DEF IsNoticed
  <1>12. CleanupIsDone'
    BY <1>a DEF CleanupIsDone
  <1>13. NoFalseAlarm'
    BY DEF NoFalseAlarm
  <1>14. TypeOK'
    BY NextType DEF Next
  <1> QED
    BY <1>1, <1>2, <1>3, <1>4, <1>5, <1>6, <1>7, <1>8, <1>9, <1>10, <1>11, <1>12, <1>13, <1>14

(* The subscription is lost with the connection. *)
LEMMA ReconnectKeepsInv ==
    ASSUME Inv, Reconnect
    PROVE  Inv'
  <1> USE DEF Inv, Reconnect, engineVars, deviceVars, hubVars, connVars, testVars, Goto, Raise,
              Uncategorized
  <1>1. FaultsAreKnown' /\ (Stopped => at = End)'
    BY DEF FaultsAreKnown, Fault, FaultKinds, Stopped
  <1>2. ConnectionIsOpen' /\ SubscriptionIsFollowed' /\ ConnectionShows'
    BY DEF ConnectionIsOpen, SubscriptionIsFollowed, SubscriptionLost, NoSubscription,
           ConnectionShows, Fault, Late, Stopped
  <1>3. HubShows'
    BY DEF HubShows, Fault, Late, Stopped
  <1>4. \A k \in Kinds : DeploymentsAreKnown(k)'
    BY DEF DeploymentsAreKnown, Fault, Late, Lingering, Lingers
  <1>5. \A k \in Kinds : DeletesAreOfDeployed(k)'
    BY DEF DeletesAreOfDeployed
  <1>6. InstancesAreDeployed' /\ StartupsAreDone'
    BY DEF InstancesAreDeployed, StartupsAreDone
  <1>7. CommandIsFollowed'
    BY DEF CommandIsFollowed, LostCommand, Fault, Late, Stopped
  <1>8. AnswerIsFollowed'
    BY DEF AnswerIsFollowed, CommandIsFollowed, LostCommand, Fault, Late, Stopped
  <1>9. EventIsFollowed'
    BY DEF EventIsFollowed, LostEvent, NoPublish, Late, Stopped, Fault
  <1>10. ValueIsFollowed'
    BY DEF ValueIsFollowed, LostValue, NoPublish, Fault, Late
  <1>11. IsNoticed'
    <2>1. SubscriptionLost' => SubscriptionLost \/ at \in BeforeStart \cup {<<"connection", "sleep">>}
      BY DEF ConnectionIsOpen, SubscriptionIsFollowed, SubscriptionLost, Fault
    <2> QED
      BY <2>1 DEF IsNoticed, SubscriptionLost, SleptTooShort, NoEventService, LostValue,
                  LostCommand, LostEvent, Stopped, Fault
  <1>12. CleanupIsDone'
    BY DEF CleanupIsDone, Accountable, Fault
  <1>13. NoFalseAlarm'
    BY NoNewAlarm DEF Fault
  <1>14. TypeOK'
    BY NextType DEF Next
  <1> QED
    BY <1>1, <1>2, <1>3, <1>4, <1>5, <1>6, <1>7, <1>8, <1>9, <1>10, <1>11, <1>12, <1>13, <1>14

(* The connection state comes to show. *)
LEMMA ShowConnectionKeepsInv ==
    ASSUME Inv, ShowConnection, UNCHANGED <<connVars, testVars, start>>
    PROVE  Inv'
  <1> USE DEF Inv, ShowConnection, engineVars, deviceVars, hubVars, connVars, testVars, Goto,
              Raise, Uncategorized
  <1>1. FaultsAreKnown' /\ (Stopped => at = End)'
    BY DEF FaultsAreKnown, Fault, FaultKinds, Stopped
  <1>2. ConnectionIsOpen' /\ SubscriptionIsFollowed' /\ ConnectionShows'
    BY DEF ConnectionIsOpen, SubscriptionIsFollowed, SubscriptionLost, NoSubscription,
           ConnectionShows, Fault, Late, Stopped
  <1>3. HubShows'
    BY DEF HubShows, Fault, Late, Stopped
  <1>4. \A k \in Kinds : DeploymentsAreKnown(k)'
    BY DEF DeploymentsAreKnown, Fault, Late, Lingering, Lingers
  <1>5. \A k \in Kinds : DeletesAreOfDeployed(k)'
    BY DEF DeletesAreOfDeployed
  <1>6. InstancesAreDeployed' /\ StartupsAreDone'
    BY DEF InstancesAreDeployed, StartupsAreDone
  <1>7. CommandIsFollowed'
    BY DEF CommandIsFollowed, LostCommand, Fault, Late, Stopped
  <1>8. AnswerIsFollowed'
    BY DEF AnswerIsFollowed, CommandIsFollowed, LostCommand, Fault, Late, Stopped
  <1>9. EventIsFollowed'
    BY DEF EventIsFollowed, LostEvent, NoPublish, Late, Stopped, Fault
  <1>10. ValueIsFollowed'
    BY DEF ValueIsFollowed, LostValue, NoPublish, Fault, Late
  <1>11. IsNoticed'
    BY DEF IsNoticed, SubscriptionIsFollowed, SubscriptionLost, SleptTooShort, NoEventService,
           LostValue, LostCommand, LostEvent, Stopped, Fault
  <1>12. CleanupIsDone'
    BY DEF CleanupIsDone, Accountable, Fault
  <1>13. NoFalseAlarm'
    BY NoNewAlarm DEF Fault
  <1>14. TypeOK'
    BY NextType DEF Next, PlatformStep
  <1> QED
    BY <1>1, <1>2, <1>3, <1>4, <1>5, <1>6, <1>7, <1>8, <1>9, <1>10, <1>11, <1>12, <1>13, <1>14

(* The hub comes to show. *)
LEMMA ShowHubKeepsInv ==
    ASSUME Inv, ShowHub, UNCHANGED <<connVars, testVars, start>>
    PROVE  Inv'
  <1> USE DEF Inv, ShowHub, engineVars, deviceVars, hubVars, connVars, testVars, Goto, Raise,
              Uncategorized
  <1>1. FaultsAreKnown' /\ (Stopped => at = End)'
    BY DEF FaultsAreKnown, Fault, FaultKinds, Stopped
  <1>2. ConnectionIsOpen' /\ SubscriptionIsFollowed' /\ ConnectionShows'
    BY DEF ConnectionIsOpen, SubscriptionIsFollowed, SubscriptionLost, NoSubscription,
           ConnectionShows, Fault, Late, Stopped
  <1>3. HubShows'
    BY DEF HubShows, Fault, Late, Stopped
  <1>4. \A k \in Kinds : DeploymentsAreKnown(k)'
    BY DEF DeploymentsAreKnown, Fault, Late, Lingering, Lingers
  <1>5. \A k \in Kinds : DeletesAreOfDeployed(k)'
    BY DEF DeletesAreOfDeployed
  <1>6. InstancesAreDeployed' /\ StartupsAreDone'
    BY DEF InstancesAreDeployed, StartupsAreDone
  <1>7. CommandIsFollowed'
    BY DEF CommandIsFollowed, LostCommand, Fault, Late, Stopped
  <1>8. AnswerIsFollowed'
    BY DEF AnswerIsFollowed, CommandIsFollowed, LostCommand, Fault, Late, Stopped
  <1>9. EventIsFollowed'
    BY DEF EventIsFollowed, LostEvent, NoPublish, Late, Stopped, Fault
  <1>10. ValueIsFollowed'
    BY DEF ValueIsFollowed, LostValue, NoPublish, Fault, Late
  <1>11. IsNoticed'
    BY DEF IsNoticed, SubscriptionLost, SleptTooShort, NoEventService, LostValue, LostCommand,
           LostEvent, Stopped, Fault
  <1>12. CleanupIsDone'
    BY DEF CleanupIsDone, Accountable, Fault
  <1>13. NoFalseAlarm'
    BY NoNewAlarm DEF Fault
  <1>14. TypeOK'
    BY NextType DEF Next, PlatformStep
  <1> QED
    BY <1>1, <1>2, <1>3, <1>4, <1>5, <1>6, <1>7, <1>8, <1>9, <1>10, <1>11, <1>12, <1>13, <1>14

(* The values are stored, or lost. *)
LEMMA StoreValueKeepsInv ==
    ASSUME Inv, StoreValue, UNCHANGED <<connVars, testVars, start>>
    PROVE  Inv'
  <1> USE DEF Inv, StoreValue, engineVars, deviceVars, hubVars, connVars, testVars, Goto, Raise,
              Uncategorized
  <1>1. FaultsAreKnown' /\ (Stopped => at = End)'
    BY DEF FaultsAreKnown, Fault, FaultKinds, Stopped
  <1>2. ConnectionIsOpen' /\ SubscriptionIsFollowed' /\ ConnectionShows'
    BY DEF ConnectionIsOpen, SubscriptionIsFollowed, SubscriptionLost, NoSubscription,
           ConnectionShows, Fault, Late, Stopped
  <1>3. HubShows'
    BY DEF HubShows, Fault, Late, Stopped
  <1>4. \A k \in Kinds : DeploymentsAreKnown(k)'
    BY DEF DeploymentsAreKnown, Fault, Late, Lingering, Lingers
  <1>5. \A k \in Kinds : DeletesAreOfDeployed(k)'
    BY DEF DeletesAreOfDeployed
  <1>6. InstancesAreDeployed' /\ StartupsAreDone'
    BY DEF InstancesAreDeployed, StartupsAreDone
  <1>7. CommandIsFollowed'
    BY DEF CommandIsFollowed, LostCommand, Fault, Late, Stopped
  <1>8. AnswerIsFollowed'
    BY DEF AnswerIsFollowed, CommandIsFollowed, LostCommand, Fault, Late, Stopped
  <1>9. EventIsFollowed'
    BY DEF EventIsFollowed, LostEvent, NoPublish, Late, Stopped, Fault
  <1>10. ValueIsFollowed'
    BY DEF ValueIsFollowed, LostValue, NoPublish, Fault, Late
  <1>11. IsNoticed'
    BY DEF IsNoticed, SubscriptionLost, SleptTooShort, NoEventService, LostValue, LostCommand,
           LostEvent, Stopped, Fault
  <1>12. CleanupIsDone'
    BY DEF CleanupIsDone, Accountable, Fault
  <1>13. NoFalseAlarm'
    BY NoNewAlarm DEF Fault
  <1>14. TypeOK'
    BY NextType DEF Next, PlatformStep
  <1> QED
    BY <1>1, <1>2, <1>3, <1>4, <1>5, <1>6, <1>7, <1>8, <1>9, <1>10, <1>11, <1>12, <1>13, <1>14

(* The event starts an instance of the event process, or is lost. *)
LEMMA FireEventKeepsInv ==
    ASSUME Inv, FireEvent, UNCHANGED <<connVars, testVars, start>>
    PROVE  Inv'
  <1> USE DEF Inv, FireEvent, engineVars, deviceVars, hubVars, connVars, testVars, Goto, Raise,
              Uncategorized
  <1>a. /\ instance'["process"] = instance["process"]
        /\ \/ /\ \A i \in Ids : instance'["event"][i] =
                    IF i \notin deployed["event"] THEN instance["event"][i]
                    ELSE IF instance["event"][i] = "none" THEN "running" ELSE "several"
              /\ UNCHANGED faults
           \/ UNCHANGED instance /\ LostEvent'
    BY DEF TypeOK, PlatformTypeOK, Fault, LostEvent
  <1>b. /\ faults \subseteq faults'
        /\ Late' <=> Late
        /\ Stopped' <=> Stopped
        /\ LostCommand' <=> LostCommand
        /\ NoPublish' <=> NoPublish
    <2>1. Fault("lost", "event", "value") \/ UNCHANGED faults
      OBVIOUS
    <2> QED
      BY ONLY <2>1, LostOrNone
  <1>1. FaultsAreKnown' /\ (Stopped => at = End)'
    BY DEF FaultsAreKnown, Fault, FaultKinds, Stopped
  <1>2. ConnectionIsOpen' /\ SubscriptionIsFollowed' /\ ConnectionShows'
    BY DEF ConnectionIsOpen, SubscriptionIsFollowed, SubscriptionLost, NoSubscription,
           ConnectionShows, Fault, Late, Stopped
  <1>3. HubShows'
    BY DEF HubShows, Fault, Late, Stopped
  <1>4. \A k \in Kinds : DeploymentsAreKnown(k)'
    BY DEF DeploymentsAreKnown, Fault, Late, Lingering, Lingers
  <1>5. \A k \in Kinds : DeletesAreOfDeployed(k)'
    BY DEF DeletesAreOfDeployed
  <1>6. InstancesAreDeployed' /\ StartupsAreDone'
    BY <1>a DEF InstancesAreDeployed, StartupsAreDone
  <1>7. CommandIsFollowed'
    BY DEF CommandIsFollowed, LostCommand, Fault, Late, Stopped
  <1>8. AnswerIsFollowed'
    BY <1>a, <1>b DEF AnswerIsFollowed, CommandIsFollowed
  <1>9. EventIsFollowed'
    BY <1>a, <1>b DEF EventIsFollowed, LostEvent, DeploymentsAreKnown, InstancesAreDeployed
  <1>10. ValueIsFollowed'
    BY DEF ValueIsFollowed, LostValue, NoPublish, Fault, Late
  <1>11. IsNoticed'
    BY DEF IsNoticed, SubscriptionLost, SleptTooShort, NoEventService, LostValue, LostCommand,
           LostEvent, Stopped, Fault
  <1>12. CleanupIsDone'
    BY DEF CleanupIsDone, Accountable, Fault
  <1>13. NoFalseAlarm'
    BY NoNewAlarm DEF Fault
  <1>14. TypeOK'
    BY NextType DEF Next, PlatformStep
  <1> QED
    BY <1>1, <1>2, <1>3, <1>4, <1>5, <1>6, <1>7, <1>8, <1>9, <1>10, <1>11, <1>12, <1>13, <1>14

(* A deployment comes to show, or its deletion. *)
LEMMA ShowDeploymentKeepsInv ==
    ASSUME NEW k \in Kinds, NEW i \in Ids, Inv, ShowDeployment(k, i),
           UNCHANGED <<connVars, testVars, start>>
    PROVE  Inv'
  <1> USE DEF Inv, ShowDeployment, engineVars, deviceVars, hubVars, connVars, testVars, Goto,
              Raise, Uncategorized
  <1>1. FaultsAreKnown' /\ (Stopped => at = End)'
    BY DEF FaultsAreKnown, Fault, FaultKinds, Stopped
  <1>2. ConnectionIsOpen' /\ SubscriptionIsFollowed' /\ ConnectionShows'
    BY DEF ConnectionIsOpen, SubscriptionIsFollowed, SubscriptionLost, NoSubscription,
           ConnectionShows, Fault, Late, Stopped
  <1>3. HubShows'
    BY DEF HubShows, Fault, Late, Stopped
  <1>4. \A kind \in Kinds : DeploymentsAreKnown(kind)'
    BY DEF DeploymentsAreKnown, Fault, Late, Lingering, Lingers
  <1>5. \A kind \in Kinds : DeletesAreOfDeployed(kind)'
    BY DEF DeletesAreOfDeployed
  <1>6. InstancesAreDeployed' /\ StartupsAreDone'
    BY DEF InstancesAreDeployed, StartupsAreDone
  <1>7. CommandIsFollowed'
    BY DEF CommandIsFollowed, LostCommand, Fault, Late, Stopped
  <1>8. AnswerIsFollowed'
    BY DEF AnswerIsFollowed, CommandIsFollowed, LostCommand, Fault, Late, Stopped
  <1>9. EventIsFollowed'
    BY DEF EventIsFollowed, LostEvent, NoPublish, Late, Stopped, Fault
  <1>10. ValueIsFollowed'
    BY DEF ValueIsFollowed, LostValue, NoPublish, Fault, Late
  <1>11. IsNoticed'
    BY DEF IsNoticed, SubscriptionLost, SleptTooShort, NoEventService, LostValue, LostCommand,
           LostEvent, Stopped, Fault
  <1>12. CleanupIsDone'
    BY DEF CleanupIsDone, Accountable, Fault
  <1>13. NoFalseAlarm'
    BY NoNewAlarm DEF Fault
  <1>14. TypeOK'
    BY NextType DEF Next, PlatformStep
  <1> QED
    BY <1>1, <1>2, <1>3, <1>4, <1>5, <1>6, <1>7, <1>8, <1>9, <1>10, <1>11, <1>12, <1>13, <1>14

(* An instance of the event process completes. *)
LEMMA CompleteEventKeepsInv ==
    ASSUME NEW i \in Ids, Inv, CompleteEvent(i), UNCHANGED <<connVars, testVars, start>>
    PROVE  Inv'
  <1> USE DEF Inv, CompleteEvent, engineVars, deviceVars, hubVars, connVars, testVars, Goto,
              Raise, Uncategorized
  <1>1. FaultsAreKnown' /\ (Stopped => at = End)'
    BY DEF FaultsAreKnown, Fault, FaultKinds, Stopped
  <1>2. ConnectionIsOpen' /\ SubscriptionIsFollowed' /\ ConnectionShows'
    BY DEF ConnectionIsOpen, SubscriptionIsFollowed, SubscriptionLost, NoSubscription,
           ConnectionShows, Fault, Late, Stopped
  <1>3. HubShows'
    BY DEF HubShows, Fault, Late, Stopped
  <1>4. \A k \in Kinds : DeploymentsAreKnown(k)'
    BY DEF DeploymentsAreKnown, Fault, Late, Lingering, Lingers
  <1>5. \A k \in Kinds : DeletesAreOfDeployed(k)'
    BY DEF DeletesAreOfDeployed
  <1>6. InstancesAreDeployed' /\ StartupsAreDone'
    BY DEF InstancesAreDeployed, StartupsAreDone
  <1>7. CommandIsFollowed'
    BY DEF CommandIsFollowed, LostCommand, Fault, Late, Stopped
  <1>8. AnswerIsFollowed'
    BY DEF AnswerIsFollowed, CommandIsFollowed, LostCommand, Fault, Late, Stopped
  <1>9. EventIsFollowed'
    BY DEF EventIsFollowed, LostEvent, NoPublish, Late, Stopped, Fault
  <1>10. ValueIsFollowed'
    BY DEF ValueIsFollowed, LostValue, NoPublish, Fault, Late
  <1>11. IsNoticed'
    BY DEF IsNoticed, SubscriptionLost, SleptTooShort, NoEventService, LostValue, LostCommand,
           LostEvent, Stopped, Fault
  <1>12. CleanupIsDone'
    BY DEF CleanupIsDone, Accountable, Fault
  <1>13. NoFalseAlarm'
    BY NoNewAlarm DEF Fault
  <1>14. TypeOK'
    BY NextType DEF Next, PlatformStep
  <1> QED
    BY <1>1, <1>2, <1>3, <1>4, <1>5, <1>6, <1>7, <1>8, <1>9, <1>10, <1>11, <1>12, <1>13, <1>14

(* NotifyCommand(): the callback counts a command and answers it. *)
LEMMA NotifyCommandKeepsInv ==
    ASSUME NEW i \in Ids, Inv, NotifyCommand(i)
    PROVE  Inv'
  <1> USE DEF Inv, NotifyCommand, engineVars, deviceVars, hubVars, connVars, testVars, Goto,
              Raise, Uncategorized
  <1>a. /\ faults \subseteq faults'
        /\ Late' <=> Late
        /\ Stopped' <=> Stopped
        /\ LostCommand' <=> LostCommand
    <2>1. Fault("unexpected", "process", "command") \/ UNCHANGED faults
      OBVIOUS
    <2> QED
      BY ONLY <2>1, ErrorOrNone
  <1>1. FaultsAreKnown' /\ (Stopped => at = End)'
    BY DEF FaultsAreKnown, Fault, FaultKinds, Stopped
  <1>2. ConnectionIsOpen' /\ SubscriptionIsFollowed' /\ ConnectionShows'
    BY DEF ConnectionIsOpen, SubscriptionIsFollowed, SubscriptionLost, NoSubscription,
           ConnectionShows, Fault, Late, Stopped
  <1>3. HubShows'
    BY DEF HubShows, Fault, Late, Stopped
  <1>4. \A k \in Kinds : DeploymentsAreKnown(k)'
    BY DEF DeploymentsAreKnown, Fault, Late, Lingering, Lingers
  <1>5. \A k \in Kinds : DeletesAreOfDeployed(k)'
    BY DEF DeletesAreOfDeployed
  <1>6. InstancesAreDeployed' /\ StartupsAreDone'
    BY DEF InstancesAreDeployed, StartupsAreDone
  <1>7. CommandIsFollowed'
    BY <1>a DEF CommandIsFollowed, ConnectionIsOpen
  <1>8. AnswerIsFollowed'
    BY DEF AnswerIsFollowed, CommandIsFollowed, LostCommand, Fault, Late, Stopped
  <1>9. EventIsFollowed'
    BY DEF EventIsFollowed, LostEvent, NoPublish, Late, Stopped, Fault
  <1>10. ValueIsFollowed'
    BY DEF ValueIsFollowed, LostValue, NoPublish, Fault, Late
  <1>11. IsNoticed'
    <2>1. CASE Uncategorized
      BY <2>1, RaiseIsNoticed
    <2>2. CASE UNCHANGED <<raised, faults>>
      BY <2>2 DEF IsNoticed, SubscriptionLost, SleptTooShort, NoEventService, LostValue,
                  LostCommand, LostEvent, Stopped
    <2> QED
      BY <2>1, <2>2
  <1>12. CleanupIsDone'
    BY DEF CleanupIsDone, Accountable, Fault
  <1>13. NoFalseAlarm'
    <2>1. CASE Fault("unexpected", "process", "command") /\ Uncategorized
      <3>1. Explains(<<"unexpected", "process", "command">>, <<"any", "UncategorizedErr">>)
        BY DEF Explains
      <3> QED
        BY <2>1, <3>1, FailureIsNoFalseAlarm
    <2>2. CASE UNCHANGED <<raised, faults>>
      BY <2>2, NoNewAlarm
    <2> QED
      BY <2>1, <2>2
  <1>14. TypeOK'
    BY NextType DEF Next, Callbacks
  <1> QED
    BY <1>1, <1>2, <1>3, <1>4, <1>5, <1>6, <1>7, <1>8, <1>9, <1>10, <1>11, <1>12, <1>13, <1>14

(* A command does not reach the device. *)
LEMMA LoseCommandKeepsInv ==
    ASSUME NEW i \in Ids, Inv, LoseCommand(i)
    PROVE  Inv'
  <1> USE DEF Inv, LoseCommand, engineVars, deviceVars, hubVars, connVars, testVars, Goto, Raise,
              Uncategorized
  <1>1. FaultsAreKnown' /\ (Stopped => at = End)'
    BY DEF FaultsAreKnown, Fault, FaultKinds, Stopped
  <1>2. ConnectionIsOpen' /\ SubscriptionIsFollowed' /\ ConnectionShows'
    BY DEF ConnectionIsOpen, SubscriptionIsFollowed, SubscriptionLost, NoSubscription,
           ConnectionShows, Fault, Late, Stopped
  <1>3. HubShows'
    BY DEF HubShows, Fault, Late, Stopped
  <1>4. \A k \in Kinds : DeploymentsAreKnown(k)'
    BY DEF DeploymentsAreKnown, Fault, Late, Lingering, Lingers
  <1>5. \A k \in Kinds : DeletesAreOfDeployed(k)'
    BY DEF DeletesAreOfDeployed
  <1>6. InstancesAreDeployed' /\ StartupsAreDone'
    BY DEF InstancesAreDeployed, StartupsAreDone
  <1>7. CommandIsFollowed'
    BY DEF CommandIsFollowed, LostCommand, Fault, Late, Stopped
  <1>8. AnswerIsFollowed'
    BY DEF AnswerIsFollowed, CommandIsFollowed, LostCommand, Fault, Late, Stopped
  <1>9. EventIsFollowed'
    BY DEF EventIsFollowed, LostEvent, NoPublish, Late, Stopped, Fault
  <1>10. ValueIsFollowed'
    BY DEF ValueIsFollowed, LostValue, NoPublish, Fault, Late
  <1>11. IsNoticed'
    BY DEF IsNoticed, SubscriptionLost, SleptTooShort, NoEventService, LostValue, LostCommand,
           LostEvent, Stopped, Fault
  <1>12. CleanupIsDone'
    BY DEF CleanupIsDone, Accountable, Fault
  <1>13. NoFalseAlarm'
    BY NoNewAlarm DEF Fault
  <1>14. TypeOK'
    BY NextType DEF Next, Callbacks
  <1> QED
    BY <1>1, <1>2, <1>3, <1>4, <1>5, <1>6, <1>7, <1>8, <1>9, <1>10, <1>11, <1>12, <1>13, <1>14

(* respond() answers the command, which completes its instance. *)
LEMMA RespondKeepsInv ==
    ASSUME NEW i \in Ids, Inv, Respond(i)
    PROVE  Inv'
  <1> USE DEF Inv, Respond, AnswerCommand, engineVars, deviceVars, hubVars, connVars, testVars,
              Goto, Raise, Uncategorized
  <1>a. /\ instance'["event"] = instance["event"]
        /\ \A j \in Ids : \/ instance'["process"][j] = instance["process"][j]
                          \/ instance["process"][j] = "running" /\ instance'["process"][j] = "completed"
    BY DEF TypeOK, PlatformTypeOK
  <1>b. \/ instance["process"][i] # "running"
        \/ instance'["process"][i] = "completed"
        \/ <<"failed", "process", "respond">> \in faults'
    BY DEF TypeOK, PlatformTypeOK, Fault
  <1>c. /\ faults \subseteq faults'
        /\ Late' <=> Late
        /\ Stopped' <=> Stopped
        /\ LostCommand' <=> LostCommand
        /\ NoPublish' <=> NoPublish
        /\ LostEvent' <=> LostEvent
    <2>1. CASE Fault("failed", "process", "respond") \/ UNCHANGED faults
      BY ONLY <2>1, ErrorOrNone
    <2>2. CASE Fault("unanswered", "process", "respond") \/ UNCHANGED faults
      BY ONLY <2>2, ErrorOrNone
    <2> QED
      BY <2>1, <2>2
  <1>1. FaultsAreKnown' /\ (Stopped => at = End)'
    BY DEF FaultsAreKnown, Fault, FaultKinds, Stopped
  <1>2. ConnectionIsOpen' /\ SubscriptionIsFollowed' /\ ConnectionShows'
    BY DEF ConnectionIsOpen, SubscriptionIsFollowed, SubscriptionLost, NoSubscription,
           ConnectionShows, Fault, Late, Stopped
  <1>3. HubShows'
    BY DEF HubShows, Fault, Late, Stopped
  <1>4. \A k \in Kinds : DeploymentsAreKnown(k)'
    BY DEF DeploymentsAreKnown, Fault, Late, Lingering, Lingers
  <1>5. \A k \in Kinds : DeletesAreOfDeployed(k)'
    BY DEF DeletesAreOfDeployed
  <1>6. InstancesAreDeployed' /\ StartupsAreDone'
    BY <1>a DEF InstancesAreDeployed, StartupsAreDone
  <1>7. CommandIsFollowed'
    BY DEF CommandIsFollowed, LostCommand, Fault, Late, Stopped
  <1>8. AnswerIsFollowed'
    <2>1. /\ at \in Running("process") \cup {<<"process", "sleep">>, <<"process", "instances">>}
          /\ "process" \notin failedStartups /\ Undisturbed
         => deployed["process"] = {depl} /\ depl \in Ids
      BY DEF AnswerIsFollowed, TypeOK, PlatformTypeOK
    <2>2. instance["process"][depl] \in {"running", "completed"} /\ depl \in Ids
          => instance'["process"][depl] \in {"running", "completed"}
      BY <1>a
    <2>3. instance["process"][depl] = "completed" /\ depl \in Ids
          => instance'["process"][depl] = "completed"
      BY <1>a
    <2>4. depl \in responses => depl \in responses' \/ depl = i
      OBVIOUS
    <2> QED
      BY <2>1, <2>2, <2>3, <2>4, <1>b, <1>c DEF AnswerIsFollowed
  <1>9. EventIsFollowed'
    BY <1>a, <1>c DEF EventIsFollowed
  <1>10. ValueIsFollowed'
    BY DEF ValueIsFollowed, LostValue, NoPublish, Fault, Late
  <1>11. IsNoticed'
    <2>1. CASE Uncategorized
      BY <2>1, RaiseIsNoticed
    <2>2. CASE UNCHANGED <<raised, faults>>
      BY <2>2 DEF IsNoticed, SubscriptionLost, SleptTooShort, NoEventService, LostValue,
                  LostCommand, LostEvent, Stopped
    <2> QED
      BY <2>1, <2>2
  <1>12. CleanupIsDone'
    BY DEF CleanupIsDone, Accountable, Fault
  <1>13. NoFalseAlarm'
    <2>0. /\ Explains(<<"failed", "process", "respond">>, <<"any", "UncategorizedErr">>)
          /\ Explains(<<"unanswered", "process", "respond">>, <<"any", "UncategorizedErr">>)
      BY DEF Explains
    <2>1. CASE Fault("failed", "process", "respond") /\ Uncategorized
      BY <2>0, <2>1, FailureIsNoFalseAlarm
    <2>2. CASE Fault("unanswered", "process", "respond") /\ Uncategorized
      BY <2>0, <2>2, FailureIsNoFalseAlarm
    <2>3. CASE UNCHANGED <<raised, faults>>
      BY <2>3, NoNewAlarm
    <2> QED
      BY <2>1, <2>2, <2>3
  <1>14. TypeOK'
    BY NextType DEF Next, Callbacks
  <1> QED
    BY <1>1, <1>2, <1>3, <1>4, <1>5, <1>6, <1>7, <1>8, <1>9, <1>10, <1>11, <1>12, <1>13, <1>14

(* respond() on a closed connection fails. *)
LEMMA RespondOrphanedKeepsInv ==
    ASSUME NEW i \in Ids, Inv, RespondOrphaned(i)
    PROVE  Inv'
  <1> USE DEF Inv, RespondOrphaned, engineVars, deviceVars, hubVars, connVars, testVars, Goto,
              Raise, Uncategorized
  <1>1. FaultsAreKnown' /\ (Stopped => at = End)'
    BY DEF FaultsAreKnown, Fault, FaultKinds, Stopped
  <1>2. ConnectionIsOpen' /\ SubscriptionIsFollowed' /\ ConnectionShows'
    BY DEF ConnectionIsOpen, SubscriptionIsFollowed, SubscriptionLost, NoSubscription,
           ConnectionShows, Fault, Late, Stopped
  <1>3. HubShows'
    BY DEF HubShows, Fault, Late, Stopped
  <1>4. \A k \in Kinds : DeploymentsAreKnown(k)'
    BY DEF DeploymentsAreKnown, Fault, Late, Lingering, Lingers
  <1>5. \A k \in Kinds : DeletesAreOfDeployed(k)'
    BY DEF DeletesAreOfDeployed
  <1>6. InstancesAreDeployed' /\ StartupsAreDone'
    BY DEF InstancesAreDeployed, StartupsAreDone
  <1>7. CommandIsFollowed'
    BY DEF CommandIsFollowed, LostCommand, Fault, Late, Stopped
  <1>8. AnswerIsFollowed'
    BY DEF AnswerIsFollowed, CommandIsFollowed, LostCommand, Fault, Late, Stopped
  <1>9. EventIsFollowed'
    BY DEF EventIsFollowed, LostEvent, NoPublish, Late, Stopped, Fault
  <1>10. ValueIsFollowed'
    BY DEF ValueIsFollowed, LostValue, NoPublish, Fault, Late
  <1>11. IsNoticed'
    BY RaiseIsNoticed
  <1>12. CleanupIsDone'
    BY DEF CleanupIsDone, Accountable, Fault
  <1>13. NoFalseAlarm'
    <2>1. Accountable => Late
      BY DEF Accountable, CommandIsFollowed
    <2>2. Accountable => \E f \in faults' : Explains(f, <<"any", "UncategorizedErr">>)
      BY <2>1, LateExplains
    <2> QED
      BY <2>2, NewAlarm
  <1>14. TypeOK'
    BY NextType DEF Next, Callbacks
  <1> QED
    BY <1>1, <1>2, <1>3, <1>4, <1>5, <1>6, <1>7, <1>8, <1>9, <1>10, <1>11, <1>12, <1>13, <1>14

-------------------------------------------------------------------------------
(* At the beginning nothing has been done and nothing has gone wrong. *)
LEMMA InitInv == Init => Inv
  <1> SUFFICES ASSUME Init PROVE Inv
    OBVIOUS
  <1> USE DEF Init, PlatformInit
  <1>1. ~Late /\ ~Stopped /\ ~Lingering
    BY DEF Late, Stopped, Lingering
  <1>2. FaultsAreKnown /\ ConnectionIsOpen /\ SubscriptionIsFollowed /\ ConnectionShows /\ HubShows
    BY <1>1 DEF FaultsAreKnown, ConnectionIsOpen, SubscriptionIsFollowed, SubscriptionLost,
                ConnectionShows, HubShows
  <1>3. \A k \in Kinds : DeploymentsAreKnown(k) /\ DeletesAreOfDeployed(k)
    BY <1>1 DEF DeploymentsAreKnown, DeletesAreOfDeployed
  <1>4. InstancesAreDeployed /\ StartupsAreDone
    BY DEF InstancesAreDeployed, StartupsAreDone
  <1>5. CommandIsFollowed /\ AnswerIsFollowed
    BY DEF CommandIsFollowed, AnswerIsFollowed, LostCommand
  <1>6. EventIsFollowed /\ ValueIsFollowed
    BY DEF EventIsFollowed, ValueIsFollowed, LostEvent, LostValue
  <1>7. IsNoticed
    BY DEF IsNoticed, LostCommand, LostEvent, LostValue, SubscriptionLost, NoEventService
  <1>8. CleanupIsDone /\ NoFalseAlarm
    BY DEF CleanupIsDone, NoFalseAlarm
  <1> QED
    BY <1>1, <1>2, <1>3, <1>4, <1>5, <1>6, <1>7, <1>8, InitType DEF Inv

(* A step that changes nothing keeps it. *)
LEMMA StutterKeepsInv ==
    ASSUME Inv, UNCHANGED vars
    PROVE  Inv'
  <1> USE DEF Inv, vars, platformVars, engineVars, deviceVars, hubVars, connVars, testVars
  <1>1. /\ Late' <=> Late
        /\ Stopped' <=> Stopped
        /\ Lingering' <=> Lingering
    BY DEF Late, Stopped, Lingering
  <1>2. TypeOK' /\ FaultsAreKnown' /\ (Stopped => at = End)'
    BY <1>1, NextType DEF FaultsAreKnown
  <1>3. ConnectionIsOpen' /\ SubscriptionIsFollowed' /\ ConnectionShows' /\ HubShows'
    BY <1>1 DEF ConnectionIsOpen, SubscriptionIsFollowed, SubscriptionLost, NoSubscription,
                ConnectionShows, HubShows
  <1>4. \A k \in Kinds : DeploymentsAreKnown(k)' /\ DeletesAreOfDeployed(k)'
    BY <1>1 DEF DeploymentsAreKnown, DeletesAreOfDeployed
  <1>5. InstancesAreDeployed' /\ StartupsAreDone'
    BY DEF InstancesAreDeployed, StartupsAreDone
  <1>6. CommandIsFollowed' /\ AnswerIsFollowed'
    BY <1>1 DEF CommandIsFollowed, AnswerIsFollowed, LostCommand
  <1>7. EventIsFollowed' /\ ValueIsFollowed'
    BY <1>1 DEF EventIsFollowed, ValueIsFollowed, LostEvent, LostValue, NoPublish
  <1>8. IsNoticed'
    BY <1>1 DEF IsNoticed, LostCommand, LostEvent, LostValue, SubscriptionLost, SleptTooShort,
                NoEventService
  <1>9. CleanupIsDone' /\ NoFalseAlarm'
    BY NoNewAlarm DEF CleanupIsDone, Accountable
  <1> QED
    BY <1>2, <1>3, <1>4, <1>5, <1>6, <1>7, <1>8, <1>9

(* Every step of the test, of the callbacks and of the platform keeps it. *)
LEMMA NextInv == Inv /\ [Next]_vars => Inv'
  <1> SUFFICES ASSUME Inv, [Next]_vars PROVE Inv'
    OBVIOUS
  <1>1. ASSUME NEW k \in Kinds, DeploymentStep(k), UNCHANGED <<connVars, start>> PROVE Inv'
    BY <1>1, StartupListKeepsInv, StartupDeleteKeepsInv, StartupReadDeviceTypeKeepsInv,
       StartupPrepareKeepsInv, StartupDeployKeepsInv, StartupSleepKeepsInv, TeardownListKeepsInv,
       TeardownInstancesKeepsInv, TeardownDeleteKeepsInv, TeardownReturnKeepsInv
    DEF DeploymentStep
  <1>2. CASE ConnectionStep
    BY <1>1, <1>2, StartupStartKeepsInv, CheckOfflineKeepsInv, CheckOnlineKeepsInv,
       CheckStillOfflineKeepsInv, EnsureHubKeepsInv, ChangeHubKeepsInv, HubSleepKeepsInv,
       HubSleepErrorKeepsInv, SleepKeepsInv, SleepOfflineKeepsInv, ConnectKeepsInv,
       SubscribeKeepsInv, PublishKeepsInv, CheckDeviceValueKeepsInv, DisconnectKeepsInv
    DEF ConnectionStep
  <1>3. CASE Callbacks \/ Reconnect
    BY <1>3, NotifyCommandKeepsInv, LoseCommandKeepsInv, RespondKeepsInv, RespondOrphanedKeepsInv,
       ReconnectKeepsInv
    DEF Callbacks
  <1>4. CASE PlatformStep /\ UNCHANGED <<connVars, testVars, start>>
    BY <1>4, ShowDeploymentKeepsInv, ShowConnectionKeepsInv, ShowHubKeepsInv, StoreValueKeepsInv,
       FireEventKeepsInv, CompleteEventKeepsInv
    DEF PlatformStep
  <1> QED
    BY <1>2, <1>3, <1>4, StartRunKeepsInv, StopRunKeepsInv, StutterKeepsInv DEF Next

(* At every place of testDeviceConnection() the invariant tells what of this  *)
(* run, and what of the runs before it, can be found in the platform.         *)
THEOREM InvHolds == Spec => []Inv
  <1> QED
    BY InitInv, NextInv, PTL DEF Spec

(* Every variable keeps its type, and the goroutine of the test is always at  *)
(* a place of its code.                                                       *)
THEOREM TypeCorrect == Spec => []TypeOK
  <1>1. Inv => TypeOK
    BY DEF Inv
  <1> QED
    BY InvHolds, <1>1, PTL

(* Every metric that a run of the connection test raises, and that it answers *)
(* for, names something that went wrong in that run.                          *)
THEOREM NoAlarmIsFalse == Spec => []NoFalseAlarm
  <1>1. Inv => NoFalseAlarm
    BY DEF Inv
  <1> QED
    BY InvHolds, <1>1, PTL

(* A completed run in which something went wrong that is not harmless has     *)
(* raised a metric, but for a missing service, which the code only returns.   *)
THEOREM NoFaultIsSilent == Spec => []FaultsAreReported
  <1>1. Inv => FaultsAreReported
    <2> SUFFICES ASSUME Inv, Completed, NEW f \in faults, ~Harmless(f), f \notin Uncounted
                 PROVE  raised # {}
      BY DEF FaultsAreReported
    <2>1. at = End /\ Undisturbed /\ ~Stopped
      BY DEF Completed, Stopped
    <2>2. CASE f[1] \in {"failed", "unanswered", "unexpected"} \/ f[3] = "selectable"
      BY <2>1, <2>2 DEF Inv, IsNoticed
    <2>3. CASE f = <<"lost", "connection", "value">>
      BY <2>1, <2>3 DEF Inv, IsNoticed, LostValue
    <2>4. CASE f = <<"lost", "event", "value">>
      BY <2>1, <2>4 DEF Inv, IsNoticed, LostEvent
    <2>5. CASE f = <<"lost", "process", "command">>
      BY <2>1, <2>5 DEF Inv, IsNoticed, LostCommand
    <2>6. CASE f = LostSubscription
      <3>1. ~SleptTooShort
        BY <2>6 DEF Harmless, SleptTooShort
      <3> QED
        BY <2>1, <2>6, <3>1 DEF Inv, IsNoticed, SubscriptionLost
    <2>7. f[1] # "late" /\ f[1] # "stopped" /\ f # SpentSubscription
      BY <2>1 DEF Harmless, Stopped
    <2>8. f \notin {"missing"} \X Kinds \X {"service"}
      BY DEF Uncounted
    <2> QED
      BY <2>2, <2>3, <2>4, <2>5, <2>6, <2>7, <2>8 DEF Inv, FaultsAreKnown, FaultKinds
  <1> QED
    BY InvHolds, <1>1, PTL

(* A run without faults leaves no deployment, connection, command or answer.  *)
THEOREM LeavesNothing == Spec => []CleanAfterRun
  <1>1. Inv => CleanAfterRun
    <2> SUFFICES ASSUME Inv, at = End, faults = {}, Accountable
                 PROVE  /\ \A k \in Kinds : deployed[k] = {}
                        /\ ~connected /\ commands = {} /\ responses = {} /\ orphans = {}
      BY DEF CleanAfterRun
    <2>1. ~Late /\ ~Stopped /\ Undisturbed
      BY DEF Late, Stopped, Accountable
    <2>2. \A k \in Kinds : deployed[k] = {}
      BY DEF Inv, CleanupIsDone
    <2>3. ~connected
      BY DEF Inv, ConnectionIsOpen
    <2>4. commands = {} /\ responses = {} /\ orphans = {}
      BY <2>1 DEF Inv, CommandIsFollowed
    <2> QED
      BY <2>2, <2>3, <2>4
  <1> QED
    BY InvHolds, <1>1, PTL

-------------------------------------------------------------------------------
(* Only DeployProcess() of ProcessStartup() deploys, and only where nothing   *)
(* is deployed.                                                               *)
LEMMA DeploysOne ==
    ASSUME Inv, [Next]_vars, NEW k \in Kinds, ~(deployed'[k] \subseteq deployed[k]), Undisturbed
    PROVE  Cardinality(deployed'[k]) = 1
  <1> USE DEF engineVars
  <1>1. PICK j \in Kinds : DeploymentStep(j)
    BY DEF Next, ConnectionStep, StartRun, StopRun, Reconnect, Callbacks, NotifyCommand,
           LoseCommand,
           Respond, RespondOrphaned, PlatformStep, ShowDeployment, ShowConnection, ShowHub,
           StoreValue, FireEvent, CompleteEvent, vars, platformVars, CheckConnState, EnsureHub,
           ChangeHub, SleepStep, Connect, Subscribe, Publish, CheckDeviceValue, Disconnect,
           StartupStart, StartInstance
  <1>2. ASSUME NEW i \in ids, RemoveDeployment(j, i) \/ UNCHANGED engineVars PROVE FALSE
    BY <1>2, Removal DEF Inv, TypeOK
  <1>3. ~StartupDelete(j) /\ ~TeardownDelete(j)
    BY <1>2 DEF StartupDelete, TeardownDelete, DeleteProcess
  <1>4. StartupDeploy(j)
    BY <1>1, <1>3 DEF DeploymentStep, StartupList, StartupReadDeviceType, StartupPrepare,
           StartupSleep, TeardownList, TeardownInstances, TeardownReturn
  <1>5. PICK i \in Ids : CreateDeployment(j, i)
    BY <1>4 DEF StartupDeploy
  <1>6. j = k
    BY <1>5 DEF CreateDeployment, Inv, TypeOK, PlatformTypeOK
  <1>7. deployed[k] = {}
    BY <1>4, <1>6 DEF StartupDeploy, Inv, DeploymentsAreKnown
  <1>8. deployed'[k] = {i}
    BY <1>5, <1>6, <1>7 DEF CreateDeployment, Inv, TypeOK, PlatformTypeOK
  <1> QED
    BY <1>8, FS_Singleton

(* When a run deploys, everything deployed before it is gone, however the     *)
(* runs before it ended.                                                      *)
THEOREM NeverDeploysTwo == Spec => DeploysOnlyOne
  <1> DEFINE One == \A k \in Kinds : start # "faulty" /\ ~(deployed'[k] \subseteq deployed[k])
                                     => Cardinality(deployed'[k]) = 1
  <1>1. Inv /\ [Next]_vars => [One]_vars
    BY DeploysOne
  <1> QED
    BY InvHolds, <1>1, PTL DEF Spec, DeploysOnlyOne

(* createCanaryHub() is called only where there is no hub. *)
LEMMA CreatesHub ==
    ASSUME Inv, [Next]_vars, hubs' > hubs, Undisturbed
    PROVE  hubs = 0
  <1>1. hubs \in Nat /\ ~(hubs > hubs)
    BY MaxHubsAssumption DEF Inv, TypeOK, PlatformTypeOK
  <1>2. hubs' # hubs
    BY <1>1
  <1>3. ~(\E k \in Kinds : DeploymentStep(k)) /\ ~StartupStart
    BY <1>2 DEF DeploymentStep, StartupStart, StartupList, StartupDelete, StartupReadDeviceType,
           StartupPrepare, StartupDeploy, StartupSleep, TeardownList, TeardownInstances,
           TeardownDelete, TeardownReturn, hubVars
  <1>4. ChangeHub
    BY <1>2, <1>3
    DEF Next, ConnectionStep, StartRun, StopRun, Reconnect, Callbacks, NotifyCommand, LoseCommand,
        Respond, RespondOrphaned, PlatformStep, ShowDeployment, ShowConnection, ShowHub, StoreValue,
        FireEvent, CompleteEvent, vars, platformVars, hubVars, CheckConnState, EnsureHub, SleepStep,
        Connect, Subscribe, Publish, CheckDeviceValue, Disconnect
  <1>5. at = <<"connection", "createHub">>
    BY <1>2, <1>4 DEF ChangeHub
  <1> QED
    BY <1>5 DEF Inv, HubShows

(* Every create of the hub is followed by the guarantee, whether it failed or *)
(* not, so no later run misses the hub and creates another.                   *)
THEOREM NeverCreatesTwoHubs == Spec => CreatesHubOnce
  <1>1. Inv /\ [Next]_vars => [start # "faulty" /\ hubs' > hubs => hubs = 0]_vars
    BY CreatesHub
  <1> QED
    BY InvHolds, <1>1, PTL DEF Spec, CreatesHubOnce

(* A command that comes is the one of this run, and comes when it should. *)
LEMMA ReceivesOwn ==
    ASSUME Inv, NEW i \in Ids, NotifyCommand(i), Undisturbed
    PROVE  /\ i = depl /\ ~received
           /\ at = <<"connection", "sleep">> \/ Late
  <1>1. i \in commands /\ connected
    BY DEF NotifyCommand, Inv, ConnectionIsOpen
  <1>2. at \in Online /\ ~Stopped
    BY <1>1 DEF Inv, ConnectionIsOpen, Online, End, DeploymentSteps
  <1>3. at # End /\ at \notin BeforeStart
    BY <1>1, <1>2 DEF Inv, CommandIsFollowed, Online, End, DeploymentSteps
  <1>4. i = depl /\ ~received
    BY <1>1, <1>3 DEF Inv, CommandIsFollowed
  <1>5. at \in CaughtUp => Late
    BY <1>1, <1>2 DEF Inv, CommandIsFollowed
  <1>6. at \in CaughtUp \cup {<<"connection", "sleep">>}
    BY <1>2, <1>3 DEF Online, DeploymentSteps, CaughtUp, CaughtUpOnline, BeforeStart, BeforePublish,
                     Startup, Teardown
  <1> QED
    BY <1>4, <1>5, <1>6

(* The counter of commands is right although it is one for all runs: at most  *)
(* one command comes, and it is of the deployment that this run has started.  *)
THEOREM ReceivesOnlyOwn == Spec => ReceivesOwnCommand
  <1> DEFINE Own(i) == start # "faulty" /\ NotifyCommand(i) =>
                         /\ i = depl /\ ~received
                         /\ at = <<"connection", "sleep">> \/ \E f \in faults : f[1] = "late"
  <1>1. Inv /\ [Next]_vars => [\A i \in Ids : Own(i)]_vars
    BY ReceivesOwn DEF Late, Undisturbed
  <1> QED
    BY InvHolds, <1>1, PTL DEF Spec, ReceivesOwnCommand
=============================================================================
