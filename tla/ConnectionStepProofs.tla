------------------------- MODULE ConnectionStepProofs -------------------------
(*****************************************************************************)
(* The steps of testDeviceConnection() itself, with the hub and the MQTT     *)
(* connection, keep the invariant of module ConnectionInvariant.             *)
(* Every lemma goes through the parts of the invariant in their order; a     *)
(* part that needs no more than the step's definition has one line.          *)
(*****************************************************************************)
EXTENDS ConnectionLemmas

(* The places of a run are sets of constants, for the provers to look into. *)
USE DEF HubSleeps, BeforeHub, BeforeConnect, BeforeSubscribe, BeforePublish, BeforeStart,
        BeforeCheck, Online, LostSubscription, SpentSubscription, CaughtUpOnline, CaughtUpOffline, CaughtUp, BeforeList, BeforeDeploy, Running, Startup,
        Teardown, ConnectionSteps, DeploymentSteps, Kinds, End, Undisturbed

(* checkDeviceConnState(false) before the connection: the state shows what it *)
(* was, whatever the run before has left.                                     *)
LEMMA CheckOfflineKeepsInv ==
    ASSUME Inv, CheckConnState("checkOffline", FALSE, <<"connection", "ensureHub">>)
    PROVE  Inv'
  <1> USE DEF Inv, CheckConnState, engineVars, deviceVars, hubVars, connVars, testVars, Goto,
              Raise, Uncategorized
  <1>1. FaultsAreKnown' /\ (Stopped => at = End)'
    BY DEF FaultsAreKnown, Fault, FaultKinds, Stopped
  <1>2. ConnectionIsOpen' /\ SubscriptionIsFollowed' /\ ConnectionShows'
    BY DEF ConnectionIsOpen, SubscriptionIsFollowed, SubscriptionLost, NoSubscription,
           ConnectionShows, Fault, Late, Stopped
  <1>3. HubShows'
    BY DEF HubShows, Fault, Late, Stopped
  <1>4. \A k \in Kinds : DeploymentsAreKnown(k)'
    BY DEF DeploymentsAreKnown, Fault, Late, Lingering, Lingers
  <1>5. \A k \in Kinds : DeletesAreOfDeployed(k)'
    BY DEF DeletesAreOfDeployed
  <1>6. InstancesAreDeployed' /\ StartupsAreDone'
    BY DEF InstancesAreDeployed, StartupsAreDone
  <1>7. CommandIsFollowed'
    BY DEF CommandIsFollowed, LostCommand, Fault, Late, Stopped
  <1>8. AnswerIsFollowed'
    BY DEF AnswerIsFollowed, CommandIsFollowed, LostCommand, Fault, Late, Stopped
  <1>9. EventIsFollowed'
    BY DEF EventIsFollowed, LostEvent, NoPublish, Late, Stopped, Fault
  <1>10. ValueIsFollowed'
    BY DEF ValueIsFollowed, LostValue, NoPublish, Fault, Late
  <1>11. IsNoticed'
    BY DEF IsNoticed, SubscriptionLost, SleptTooShort, NoEventService, LostValue, LostCommand,
           LostEvent, Stopped, Fault
  <1>12. CleanupIsDone'
    BY DEF CleanupIsDone, Accountable, Fault
  <1>13. NoFalseAlarm'
    <2>1. CASE Fault("failed", "connection", "checkOffline") /\ Raise("any", "DeviceRepoRequestErr")
      <3>1. Explains(<<"failed", "connection", "checkOffline">>, <<"any", "DeviceRepoRequestErr">>)
        BY DEF Explains
      <3> QED
        BY <2>1, <3>1, FailureIsNoFalseAlarm
    <2>2. CASE UNCHANGED <<raised, faults>>
      BY <2>2, NoNewAlarm
    <2>3. CASE /\ UNCHANGED faults /\ shown # FALSE
          /\ raised' = raised \cup {<<"connection", "UnexpectedDeviceOnlineStateErr">>}
      <3>1. Accountable => Late
        BY <2>3 DEF Accountable, ConnectionShows, Stopped, TypeOK, PlatformTypeOK
      <3>2. Accountable =>
            \E f \in faults' : Explains(f, <<"connection", "UnexpectedDeviceOnlineStateErr">>)
        BY <2>3, <3>1, LateExplains
      <3> QED
        BY <2>3, <3>2, NewAlarm
    <2> QED
      BY <2>1, <2>2, <2>3
  <1>14. TypeOK'
    BY NextType DEF Next, ConnectionStep
  <1> QED
    BY <1>1, <1>2, <1>3, <1>4, <1>5, <1>6, <1>7, <1>8, <1>9, <1>10, <1>11, <1>12, <1>13, <1>14

(* checkDeviceConnState(true): after the sleep the connection shows, or the   *)
(* sleep was too short.                                                       *)
LEMMA CheckOnlineKeepsInv ==
    ASSUME Inv, CheckConnState("checkOnline", TRUE, <<"connection", "checkDeviceValue">>)
    PROVE  Inv'
  <1> USE DEF Inv, CheckConnState, engineVars, deviceVars, hubVars, connVars, testVars, Goto,
              Raise, Uncategorized
  <1>1. FaultsAreKnown' /\ (Stopped => at = End)'
    BY DEF FaultsAreKnown, Fault, FaultKinds, Stopped
  <1>2. ConnectionIsOpen' /\ SubscriptionIsFollowed' /\ ConnectionShows'
    BY DEF ConnectionIsOpen, SubscriptionIsFollowed, SubscriptionLost, NoSubscription,
           ConnectionShows, Fault, Late, Stopped
  <1>3. HubShows'
    BY DEF HubShows, Fault, Late, Stopped
  <1>4. \A k \in Kinds : DeploymentsAreKnown(k)'
    BY DEF DeploymentsAreKnown, Fault, Late, Lingering, Lingers
  <1>5. \A k \in Kinds : DeletesAreOfDeployed(k)'
    BY DEF DeletesAreOfDeployed
  <1>6. InstancesAreDeployed' /\ StartupsAreDone'
    BY DEF InstancesAreDeployed, StartupsAreDone
  <1>7. CommandIsFollowed'
    BY DEF CommandIsFollowed, LostCommand, Fault, Late, Stopped
  <1>8. AnswerIsFollowed'
    BY DEF AnswerIsFollowed, CommandIsFollowed, LostCommand, Fault, Late, Stopped
  <1>9. EventIsFollowed'
    BY DEF EventIsFollowed, LostEvent, NoPublish, Late, Stopped, Fault
  <1>10. ValueIsFollowed'
    BY DEF ValueIsFollowed, LostValue, NoPublish, Fault, Late
  <1>11. IsNoticed'
    BY DEF IsNoticed, SubscriptionLost, SleptTooShort, NoEventService, LostValue, LostCommand,
           LostEvent, Stopped, Fault
  <1>12. CleanupIsDone'
    BY DEF CleanupIsDone, Accountable, Fault
  <1>13. NoFalseAlarm'
    <2>1. CASE Fault("failed", "connection", "checkOnline") /\ Raise("any", "DeviceRepoRequestErr")
      <3>1. Explains(<<"failed", "connection", "checkOnline">>, <<"any", "DeviceRepoRequestErr">>)
        BY DEF Explains
      <3> QED
        BY <2>1, <3>1, FailureIsNoFalseAlarm
    <2>2. CASE UNCHANGED <<raised, faults>>
      BY <2>2, NoNewAlarm
    <2>3. CASE /\ UNCHANGED faults /\ shown # TRUE
          /\ raised' = raised \cup {<<"connection", "UnexpectedDeviceOfflineStateErr">>}
      <3> DEFINE Offline == <<"connection", "UnexpectedDeviceOfflineStateErr">>
      <3>1. Accountable => Late \/ NoSubscription
        BY <2>3
           DEF Accountable, ConnectionShows, SubscriptionIsFollowed, Stopped, TypeOK, PlatformTypeOK
      <3>2. Late => \E f \in faults' : Explains(f, Offline)
        BY <2>3, LateExplains
      <3>3. /\ Explains(<<"failed", "connection", "subscribe">>, Offline)
            /\ Explains(LostSubscription, Offline)
            /\ Explains(SpentSubscription, Offline)
        BY DEF Explains
      <3>4. Accountable => \E f \in faults' : Explains(f, Offline)
        BY <2>3, <3>1, <3>2, <3>3 DEF NoSubscription, SubscriptionLost
      <3> QED
        BY <2>3, <3>4, NewAlarm
    <2> QED
      BY <2>1, <2>2, <2>3
  <1>14. TypeOK'
    BY NextType DEF Next, ConnectionStep
  <1> QED
    BY <1>1, <1>2, <1>3, <1>4, <1>5, <1>6, <1>7, <1>8, <1>9, <1>10, <1>11, <1>12, <1>13, <1>14

(* checkDeviceConnState(false) after Disconnect() and the sleep. *)
LEMMA CheckStillOfflineKeepsInv ==
    ASSUME Inv,
           CheckConnState("checkStillOffline", FALSE,
                IF "event" \in failedStartups THEN End ELSE <<"event", "teardown">>)
    PROVE  Inv'
  <1> USE DEF Inv, CheckConnState, engineVars, deviceVars, hubVars, connVars, testVars, Goto,
              Raise, Uncategorized
  <1>1. FaultsAreKnown' /\ (Stopped => at = End)'
    BY DEF FaultsAreKnown, Fault, FaultKinds, Stopped
  <1>2. ConnectionIsOpen' /\ SubscriptionIsFollowed' /\ ConnectionShows'
    BY DEF ConnectionIsOpen, SubscriptionIsFollowed, SubscriptionLost, NoSubscription,
           ConnectionShows, Fault, Late, Stopped
  <1>3. HubShows'
    BY DEF HubShows, Fault, Late, Stopped
  <1>4. \A k \in Kinds : DeploymentsAreKnown(k)'
    BY DEF DeploymentsAreKnown, Fault, Late, Lingering, Lingers
  <1>5. \A k \in Kinds : DeletesAreOfDeployed(k)'
    BY DEF DeletesAreOfDeployed
  <1>6. InstancesAreDeployed' /\ StartupsAreDone'
    BY DEF InstancesAreDeployed, StartupsAreDone
  <1>7. CommandIsFollowed'
    BY DEF CommandIsFollowed, LostCommand, Fault, Late, Stopped
  <1>8. AnswerIsFollowed'
    BY DEF AnswerIsFollowed, CommandIsFollowed, LostCommand, Fault, Late, Stopped
  <1>9. EventIsFollowed'
    BY DEF EventIsFollowed, LostEvent, NoPublish, Late, Stopped, Fault
  <1>10. ValueIsFollowed'
    BY DEF ValueIsFollowed, LostValue, NoPublish, Fault, Late
  <1>11. IsNoticed'
    BY DEF IsNoticed, SubscriptionLost, SleptTooShort, NoEventService, LostValue, LostCommand,
           LostEvent, Stopped, Fault
  <1>12. CleanupIsDone'
    BY DEF CleanupIsDone, Accountable, Fault
  <1>13. NoFalseAlarm'
    <2>1. CASE /\ Fault("failed", "connection", "checkStillOffline")
               /\ Raise("any", "DeviceRepoRequestErr")
      <3>1. Explains(<<"failed", "connection", "checkStillOffline">>, <<"any", "DeviceRepoRequestErr">>)
        BY DEF Explains
      <3> QED
        BY <2>1, <3>1, FailureIsNoFalseAlarm
    <2>2. CASE UNCHANGED <<raised, faults>>
      BY <2>2, NoNewAlarm
    <2>3. CASE /\ UNCHANGED faults /\ shown # FALSE
          /\ raised' = raised \cup {<<"connection", "UnexpectedDeviceOnlineStateErr">>}
      <3>1. Accountable => Late
        BY <2>3 DEF Accountable, ConnectionShows, Stopped, TypeOK, PlatformTypeOK
      <3>2. Accountable =>
            \E f \in faults' : Explains(f, <<"connection", "UnexpectedDeviceOnlineStateErr">>)
        BY <2>3, <3>1, LateExplains
      <3> QED
        BY <2>3, <3>2, NewAlarm
    <2> QED
      BY <2>1, <2>2, <2>3
  <1>14. TypeOK'
    BY NextType DEF Next, ConnectionStep
  <1> QED
    BY <1>1, <1>2, <1>3, <1>4, <1>5, <1>6, <1>7, <1>8, <1>9, <1>10, <1>11, <1>12, <1>13, <1>14

(* The choice between creating and updating the hub: all hubs show, so that   *)
(* none is created twice.                                                     *)
LEMMA EnsureHubKeepsInv ==
    ASSUME Inv, EnsureHub
    PROVE  Inv'
  <1> USE DEF Inv, EnsureHub, engineVars, deviceVars, hubVars, connVars, testVars, Goto, Raise,
              Uncategorized
  <1>1. FaultsAreKnown' /\ (Stopped => at = End)'
    BY DEF FaultsAreKnown, Fault, FaultKinds, Stopped
  <1>2. ConnectionIsOpen' /\ SubscriptionIsFollowed' /\ ConnectionShows'
    BY DEF ConnectionIsOpen, SubscriptionIsFollowed, SubscriptionLost, NoSubscription,
           ConnectionShows, Fault, Late, Stopped
  <1>3. HubShows'
    BY DEF HubShows, Fault, Late, Stopped
  <1>4. \A k \in Kinds : DeploymentsAreKnown(k)'
    BY DEF DeploymentsAreKnown, Fault, Late, Lingering, Lingers
  <1>5. \A k \in Kinds : DeletesAreOfDeployed(k)'
    BY DEF DeletesAreOfDeployed
  <1>6. InstancesAreDeployed' /\ StartupsAreDone'
    BY DEF InstancesAreDeployed, StartupsAreDone
  <1>7. CommandIsFollowed'
    BY DEF CommandIsFollowed, LostCommand, Fault, Late, Stopped
  <1>8. AnswerIsFollowed'
    BY DEF AnswerIsFollowed, CommandIsFollowed, LostCommand, Fault, Late, Stopped
  <1>9. EventIsFollowed'
    BY DEF EventIsFollowed, LostEvent, NoPublish, Late, Stopped, Fault
  <1>10. ValueIsFollowed'
    BY DEF ValueIsFollowed, LostValue, NoPublish, Fault, Late
  <1>11. IsNoticed'
    <2>1. CASE Raise("any", "DeviceRepoRequestErr")
      BY <2>1, RaiseIsNoticed
    <2>2. CASE at' # End /\ UNCHANGED <<raised, faults>>
      BY <2>2 DEF IsNoticed, SubscriptionLost, SleptTooShort, NoEventService, LostValue,
                  LostCommand, LostEvent, Stopped
    <2> QED
      BY <2>1, <2>2
  <1>12. CleanupIsDone'
    <2>1. CASE Fault("failed", "connection", "ensureHub")
      BY <2>1, FaultAdds DEF CleanupIsDone
    <2>2. CASE at' # End /\ UNCHANGED faults
      BY <2>2 DEF CleanupIsDone, Accountable
    <2> QED
      BY <2>1, <2>2
  <1>13. NoFalseAlarm'
    <2>1. CASE Fault("failed", "connection", "ensureHub") /\ Raise("any", "DeviceRepoRequestErr")
      <3>1. Explains(<<"failed", "connection", "ensureHub">>, <<"any", "DeviceRepoRequestErr">>)
        BY DEF Explains
      <3> QED
        BY <2>1, <3>1, FailureIsNoFalseAlarm
    <2>2. CASE UNCHANGED <<raised, faults>>
      BY <2>2, NoNewAlarm
    <2> QED
      BY <2>1, <2>2
  <1>14. TypeOK'
    BY NextType DEF Next, ConnectionStep
  <1> QED
    BY <1>1, <1>2, <1>3, <1>4, <1>5, <1>6, <1>7, <1>8, <1>9, <1>10, <1>11, <1>12, <1>13, <1>14

(* createCanaryHub() and updateCanaryHub(): the hub may not show yet, but the *)
(* sleep comes next in every case.                                            *)
LEMMA ChangeHubKeepsInv ==
    ASSUME Inv, ChangeHub
    PROVE  Inv'
  <1> USE DEF Inv, ChangeHub, AddHub, engineVars, deviceVars, hubVars, connVars, testVars, Goto,
              Raise, Uncategorized
  <1>1. FaultsAreKnown' /\ (Stopped => at = End)'
    BY DEF FaultsAreKnown, Fault, FaultKinds, Stopped
  <1>2. ConnectionIsOpen' /\ SubscriptionIsFollowed' /\ ConnectionShows'
    BY DEF ConnectionIsOpen, SubscriptionIsFollowed, SubscriptionLost, NoSubscription,
           ConnectionShows, Fault, Late, Stopped
  <1>3. HubShows'
    BY DEF HubShows, Fault, Late, Stopped
  <1>4. \A k \in Kinds : DeploymentsAreKnown(k)'
    BY DEF DeploymentsAreKnown, Fault, Late, Lingering, Lingers
  <1>5. \A k \in Kinds : DeletesAreOfDeployed(k)'
    BY DEF DeletesAreOfDeployed
  <1>6. InstancesAreDeployed' /\ StartupsAreDone'
    BY DEF InstancesAreDeployed, StartupsAreDone
  <1>7. CommandIsFollowed'
    BY DEF CommandIsFollowed, LostCommand, Fault, Late, Stopped
  <1>8. AnswerIsFollowed'
    BY DEF AnswerIsFollowed, CommandIsFollowed, LostCommand, Fault, Late, Stopped
  <1>9. EventIsFollowed'
    BY DEF EventIsFollowed, LostEvent, NoPublish, Late, Stopped, Fault
  <1>10. ValueIsFollowed'
    BY DEF ValueIsFollowed, LostValue, NoPublish, Fault, Late
  <1>11. IsNoticed'
    <2>1. CASE Raise("any", "DeviceMetaUpdateErr")
      BY <2>1, RaiseIsNoticed
    <2>2. CASE at' = <<"connection", "hubSleep">> /\ UNCHANGED <<raised, faults>>
      BY <2>2 DEF IsNoticed, SubscriptionLost, SleptTooShort, NoEventService, LostValue,
                  LostCommand, LostEvent, Stopped
    <2> QED
      BY <2>1, <2>2
  <1>12. CleanupIsDone'
    <2>1. CASE at' = <<"connection", "hubSleepError">>
      <3>1. faults' # {}
        BY <2>1, FaultAdds
      <3> QED
        BY <3>1 DEF CleanupIsDone
    <2>2. CASE at' = <<"connection", "hubSleep">>
      BY <2>2 DEF CleanupIsDone, Accountable, Fault
    <2> QED
      BY <2>1, <2>2
  <1>13. NoFalseAlarm'
    <2>1. CASE Fault("unanswered", "connection", at[2]) /\ Raise("any", "DeviceMetaUpdateErr")
      <3>1. Explains(<<"unanswered", "connection", at[2]>>, <<"any", "DeviceMetaUpdateErr">>)
        BY DEF Explains
      <3> QED
        BY <2>1, <3>1, FailureIsNoFalseAlarm
    <2>2. CASE Fault("failed", "connection", at[2]) /\ Raise("any", "DeviceMetaUpdateErr")
      <3>1. Explains(<<"failed", "connection", at[2]>>, <<"any", "DeviceMetaUpdateErr">>)
        BY DEF Explains
      <3> QED
        BY <2>2, <3>1, FailureIsNoFalseAlarm
    <2>3. CASE UNCHANGED <<raised, faults>>
      BY <2>3, NoNewAlarm
    <2> QED
      BY <2>1, <2>2, <2>3
  <1>14. TypeOK'
    BY NextType DEF Next, ConnectionStep
  <1> QED
    BY <1>1, <1>2, <1>3, <1>4, <1>5, <1>6, <1>7, <1>8, <1>9, <1>10, <1>11, <1>12, <1>13, <1>14

(* The sleep after the hub's change. *)
LEMMA HubSleepKeepsInv ==
    ASSUME Inv, SleepStep("hubSleep", <<"connection", "connect">>)
    PROVE  Inv'
  <1> USE DEF Inv, SleepStep, engineVars, deviceVars, hubVars, connVars, testVars, Goto, Raise,
              Uncategorized
  <1>a. Slept
    BY SleepOutcome
  <1>1. FaultsAreKnown' /\ (Stopped => at = End)'
    BY <1>a DEF Slept, FaultsAreKnown, GuaranteeElapsed, Fault, FaultKinds
  <1>2. ConnectionIsOpen' /\ SubscriptionIsFollowed' /\ ConnectionShows'
    BY <1>a DEF Slept, ConnectionIsOpen, SubscriptionIsFollowed, ConnectionShows, Settled
  <1>3. HubShows'
    BY <1>a DEF Slept, HubShows, Settled
  <1>4. \A k \in Kinds : DeploymentsAreKnown(k)'
    BY <1>a DEF Slept, DeploymentsAreKnown
  <1>5. \A k \in Kinds : DeletesAreOfDeployed(k)'
    BY DEF DeletesAreOfDeployed
  <1>6. InstancesAreDeployed' /\ StartupsAreDone'
    BY DEF InstancesAreDeployed, StartupsAreDone
  <1>7. CommandIsFollowed'
    BY <1>a DEF Slept, CommandIsFollowed, Settled
  <1>8. AnswerIsFollowed'
    BY <1>a DEF Slept, AnswerIsFollowed, CommandIsFollowed, Settled
  <1>9. EventIsFollowed'
    BY <1>a DEF Slept, EventIsFollowed, Settled
  <1>10. ValueIsFollowed'
    BY <1>a DEF Slept, ValueIsFollowed, Settled
  <1>11. IsNoticed'
    BY <1>a DEF Slept, IsNoticed, GuaranteeElapsed, Fault
  <1>12. CleanupIsDone'
    BY <1>a DEF Slept, CleanupIsDone, Accountable
  <1>13. NoFalseAlarm'
    BY <1>a, NoNewAlarm DEF Slept
  <1>14. TypeOK'
    BY NextType DEF Next, ConnectionStep
  <1> QED
    BY <1>1, <1>2, <1>3, <1>4, <1>5, <1>6, <1>7, <1>8, <1>9, <1>10, <1>11, <1>12, <1>13, <1>14

(* The same sleep when the call has failed and the test ends after it: the    *)
(* metric is raised.                                                          *)
LEMMA HubSleepErrorKeepsInv ==
    ASSUME Inv, SleepStep("hubSleepError", End)
    PROVE  Inv'
  <1> USE DEF Inv, SleepStep, engineVars, deviceVars, hubVars, connVars, testVars, Goto, Raise,
              Uncategorized
  <1>a. Slept
    BY SleepOutcome
  <1>1. FaultsAreKnown' /\ (Stopped => at = End)'
    BY <1>a DEF Slept, FaultsAreKnown, GuaranteeElapsed, Fault, FaultKinds
  <1>2. ConnectionIsOpen' /\ SubscriptionIsFollowed' /\ ConnectionShows'
    BY <1>a DEF Slept, ConnectionIsOpen, SubscriptionIsFollowed, ConnectionShows, Settled
  <1>3. HubShows'
    BY <1>a DEF Slept, HubShows, Settled
  <1>4. \A k \in Kinds : DeploymentsAreKnown(k)'
    BY <1>a DEF Slept, DeploymentsAreKnown
  <1>5. \A k \in Kinds : DeletesAreOfDeployed(k)'
    BY DEF DeletesAreOfDeployed
  <1>6. InstancesAreDeployed' /\ StartupsAreDone'
    BY DEF InstancesAreDeployed, StartupsAreDone
  <1>7. CommandIsFollowed'
    BY <1>a DEF Slept, CommandIsFollowed, Settled
  <1>8. AnswerIsFollowed'
    BY <1>a DEF Slept, AnswerIsFollowed, CommandIsFollowed, Settled
  <1>9. EventIsFollowed'
    BY <1>a DEF Slept, EventIsFollowed, Settled
  <1>10. ValueIsFollowed'
    BY <1>a DEF Slept, ValueIsFollowed, Settled
  <1>11. IsNoticed'
    BY <1>a DEF Slept, IsNoticed, GuaranteeElapsed, Fault
  <1>12. CleanupIsDone'
    BY <1>a DEF Slept, CleanupIsDone, Accountable
  <1>13. NoFalseAlarm'
    BY <1>a, NoNewAlarm DEF Slept
  <1>14. TypeOK'
    BY NextType DEF Next, ConnectionStep
  <1> QED
    BY <1>1, <1>2, <1>3, <1>4, <1>5, <1>6, <1>7, <1>8, <1>9, <1>10, <1>11, <1>12, <1>13, <1>14

(* The sleep for the commands: afterwards the command has come and been       *)
(* answered, or is lost, or the sleep was too short.                          *)
LEMMA SleepKeepsInv ==
    ASSUME Inv, SleepStep("sleep", <<"connection", "checkOnline">>)
    PROVE  Inv'
  <1> USE DEF Inv, SleepStep, engineVars, deviceVars, hubVars, connVars, testVars, Goto, Raise,
              Uncategorized
  <1>a. Slept
    BY SleepOutcome
  <1>1. FaultsAreKnown' /\ (Stopped => at = End)'
    BY <1>a DEF Slept, FaultsAreKnown, GuaranteeElapsed, Fault, FaultKinds
  <1>2. ConnectionIsOpen' /\ SubscriptionIsFollowed' /\ ConnectionShows'
    BY <1>a DEF Slept, ConnectionIsOpen, SubscriptionIsFollowed, ConnectionShows, Settled
  <1>3. HubShows'
    BY <1>a DEF Slept, HubShows, Settled
  <1>4. \A k \in Kinds : DeploymentsAreKnown(k)'
    BY <1>a DEF Slept, DeploymentsAreKnown
  <1>5. \A k \in Kinds : DeletesAreOfDeployed(k)'
    BY DEF DeletesAreOfDeployed
  <1>6. InstancesAreDeployed' /\ StartupsAreDone'
    BY DEF InstancesAreDeployed, StartupsAreDone
  <1>7. CommandIsFollowed'
    BY <1>a DEF Slept, CommandIsFollowed, Settled
  <1>8. AnswerIsFollowed'
    BY <1>a DEF Slept, AnswerIsFollowed, CommandIsFollowed, Settled
  <1>9. EventIsFollowed'
    BY <1>a DEF Slept, EventIsFollowed, Settled
  <1>10. ValueIsFollowed'
    BY <1>a DEF Slept, ValueIsFollowed, Settled
  <1>11. IsNoticed'
    <2>1. SubscriptionLost' => ~shown' \/ SleptTooShort'
      BY <1>a DEF Slept, SubscriptionIsFollowed, Settled, GuaranteeElapsed, Fault, SleptTooShort
    <2> QED
      BY <1>a, <2>1 DEF Slept, IsNoticed, GuaranteeElapsed, Fault
  <1>12. CleanupIsDone'
    BY <1>a DEF Slept, CleanupIsDone, Accountable
  <1>13. NoFalseAlarm'
    BY <1>a, NoNewAlarm DEF Slept
  <1>14. TypeOK'
    BY NextType DEF Next, ConnectionStep
  <1> QED
    BY <1>1, <1>2, <1>3, <1>4, <1>5, <1>6, <1>7, <1>8, <1>9, <1>10, <1>11, <1>12, <1>13, <1>14

(* The sleep after Disconnect(). *)
LEMMA SleepOfflineKeepsInv ==
    ASSUME Inv, SleepStep("sleepOffline", <<"connection", "checkStillOffline">>)
    PROVE  Inv'
  <1> USE DEF Inv, SleepStep, engineVars, deviceVars, hubVars, connVars, testVars, Goto, Raise,
              Uncategorized
  <1>a. Slept
    BY SleepOutcome
  <1>1. FaultsAreKnown' /\ (Stopped => at = End)'
    BY <1>a DEF Slept, FaultsAreKnown, GuaranteeElapsed, Fault, FaultKinds
  <1>2. ConnectionIsOpen' /\ SubscriptionIsFollowed' /\ ConnectionShows'
    BY <1>a DEF Slept, ConnectionIsOpen, SubscriptionIsFollowed, ConnectionShows, Settled
  <1>3. HubShows'
    BY <1>a DEF Slept, HubShows, Settled
  <1>4. \A k \in Kinds : DeploymentsAreKnown(k)'
    BY <1>a DEF Slept, DeploymentsAreKnown
  <1>5. \A k \in Kinds : DeletesAreOfDeployed(k)'
    BY DEF DeletesAreOfDeployed
  <1>6. InstancesAreDeployed' /\ StartupsAreDone'
    BY DEF InstancesAreDeployed, StartupsAreDone
  <1>7. CommandIsFollowed'
    BY <1>a DEF Slept, CommandIsFollowed, Settled
  <1>8. AnswerIsFollowed'
    BY <1>a DEF Slept, AnswerIsFollowed, CommandIsFollowed, Settled
  <1>9. EventIsFollowed'
    BY <1>a DEF Slept, EventIsFollowed, Settled
  <1>10. ValueIsFollowed'
    BY <1>a DEF Slept, ValueIsFollowed, Settled
  <1>11. IsNoticed'
    BY <1>a DEF Slept, IsNoticed, GuaranteeElapsed, Fault
  <1>12. CleanupIsDone'
    BY <1>a DEF Slept, CleanupIsDone, Accountable
  <1>13. NoFalseAlarm'
    BY <1>a, NoNewAlarm DEF Slept
  <1>14. TypeOK'
    BY NextType DEF Next, ConnectionStep
  <1> QED
    BY <1>1, <1>2, <1>3, <1>4, <1>5, <1>6, <1>7, <1>8, <1>9, <1>10, <1>11, <1>12, <1>13, <1>14

(* Connect(): nothing was sent to the device on a connection before it. *)
LEMMA ConnectKeepsInv ==
    ASSUME Inv, Connect
    PROVE  Inv'
  <1> USE DEF Inv, Connect, engineVars, deviceVars, hubVars, connVars, testVars, Goto, Raise,
              Uncategorized
  <1>1. FaultsAreKnown' /\ (Stopped => at = End)'
    BY DEF FaultsAreKnown, Fault, FaultKinds, Stopped
  <1>2. ConnectionIsOpen' /\ SubscriptionIsFollowed' /\ ConnectionShows'
    BY DEF ConnectionIsOpen, SubscriptionIsFollowed, SubscriptionLost, NoSubscription,
           ConnectionShows, Fault, Late, Stopped
  <1>3. HubShows'
    BY DEF HubShows, Fault, Late, Stopped
  <1>4. \A k \in Kinds : DeploymentsAreKnown(k)'
    BY DEF DeploymentsAreKnown, Fault, Late, Lingering, Lingers
  <1>5. \A k \in Kinds : DeletesAreOfDeployed(k)'
    BY DEF DeletesAreOfDeployed
  <1>6. InstancesAreDeployed' /\ StartupsAreDone'
    BY DEF InstancesAreDeployed, StartupsAreDone
  <1>7. CommandIsFollowed'
    BY DEF CommandIsFollowed, LostCommand, Fault, Late, Stopped
  <1>8. AnswerIsFollowed'
    BY DEF AnswerIsFollowed, CommandIsFollowed, LostCommand, Fault, Late, Stopped
  <1>9. EventIsFollowed'
    BY DEF EventIsFollowed, LostEvent, NoPublish, Late, Stopped, Fault
  <1>10. ValueIsFollowed'
    BY DEF ValueIsFollowed, LostValue, NoPublish, Fault, Late
  <1>11. IsNoticed'
    <2>1. CASE Raise("connection", "ConnectorLoginErr")
      BY <2>1, RaiseIsNoticed
    <2>2. CASE at' # End /\ UNCHANGED <<raised, faults>>
      BY <2>2 DEF IsNoticed, SubscriptionLost, SleptTooShort, NoEventService, LostValue,
                  LostCommand, LostEvent, Stopped
    <2> QED
      BY <2>1, <2>2
  <1>12. CleanupIsDone'
    <2>1. CASE Fault("failed", "connection", "connect")
      BY <2>1, FaultAdds DEF CleanupIsDone
    <2>2. CASE at' # End /\ UNCHANGED faults
      BY <2>2 DEF CleanupIsDone, Accountable
    <2> QED
      BY <2>1, <2>2
  <1>13. NoFalseAlarm'
    <2>1. CASE Fault("failed", "connection", "connect") /\ Raise("connection", "ConnectorLoginErr")
      <3>1. Explains(<<"failed", "connection", "connect">>, <<"connection", "ConnectorLoginErr">>)
        BY DEF Explains
      <3> QED
        BY <2>1, <3>1, FailureIsNoFalseAlarm
    <2>2. CASE UNCHANGED <<raised, faults>>
      BY <2>2, NoNewAlarm
    <2> QED
      BY <2>1, <2>2
  <1>14. TypeOK'
    BY NextType DEF Next, ConnectionStep
  <1> QED
    BY <1>1, <1>2, <1>3, <1>4, <1>5, <1>6, <1>7, <1>8, <1>9, <1>10, <1>11, <1>12, <1>13, <1>14

(* The subscription to the commands. *)
LEMMA SubscribeKeepsInv ==
    ASSUME Inv, Subscribe
    PROVE  Inv'
  <1> USE DEF Inv, Subscribe, engineVars, deviceVars, hubVars, connVars, testVars, Goto, Raise,
              Uncategorized
  <1>1. FaultsAreKnown' /\ (Stopped => at = End)'
    BY DEF FaultsAreKnown, Fault, FaultKinds, Stopped
  <1>2. ConnectionIsOpen' /\ SubscriptionIsFollowed' /\ ConnectionShows'
    BY DEF ConnectionIsOpen, SubscriptionIsFollowed, SubscriptionLost, NoSubscription,
           ConnectionShows, Fault, Late, Stopped
  <1>3. HubShows'
    BY DEF HubShows, Fault, Late, Stopped
  <1>4. \A k \in Kinds : DeploymentsAreKnown(k)'
    BY DEF DeploymentsAreKnown, Fault, Late, Lingering, Lingers
  <1>5. \A k \in Kinds : DeletesAreOfDeployed(k)'
    BY DEF DeletesAreOfDeployed
  <1>6. InstancesAreDeployed' /\ StartupsAreDone'
    BY DEF InstancesAreDeployed, StartupsAreDone
  <1>7. CommandIsFollowed'
    BY DEF CommandIsFollowed, LostCommand, Fault, Late, Stopped
  <1>8. AnswerIsFollowed'
    BY DEF AnswerIsFollowed, CommandIsFollowed, LostCommand, Fault, Late, Stopped
  <1>9. EventIsFollowed'
    BY DEF EventIsFollowed, LostEvent, NoPublish, Late, Stopped, Fault
  <1>10. ValueIsFollowed'
    BY DEF ValueIsFollowed, LostValue, NoPublish, Fault, Late
  <1>11. IsNoticed'
    <2>1. CASE Raise("connection", "ConnectorSubscribeErr")
      BY <2>1, RaiseIsNoticed
    <2>2. CASE UNCHANGED <<raised, faults>>
      BY <2>2 DEF IsNoticed, SubscriptionLost, SleptTooShort, NoEventService, LostValue,
                  LostCommand, LostEvent, Stopped
    <2> QED
      BY <2>1, <2>2
  <1>12. CleanupIsDone'
    BY DEF CleanupIsDone, Accountable, Fault
  <1>13. NoFalseAlarm'
    <2>1. CASE /\ Fault("failed", "connection", "subscribe")
               /\ Raise("connection", "ConnectorSubscribeErr")
      <3>1. Explains(<<"failed", "connection", "subscribe">>, <<"connection", "ConnectorSubscribeErr">>)
        BY DEF Explains
      <3> QED
        BY <2>1, <3>1, FailureIsNoFalseAlarm
    <2>2. CASE /\ Fault("unanswered", "connection", "subscribe")
               /\ Raise("connection", "ConnectorSubscribeErr")
      <3>1. Explains(<<"unanswered", "connection", "subscribe">>,
                     <<"connection", "ConnectorSubscribeErr">>)
        BY DEF Explains
      <3> QED
        BY <2>2, <3>1, FailureIsNoFalseAlarm
    <2>3. CASE UNCHANGED <<raised, faults>>
      BY <2>3, NoNewAlarm
    <2> QED
      BY <2>1, <2>2, <2>3
  <1>14. TypeOK'
    BY NextType DEF Next, ConnectionStep
  <1> QED
    BY <1>1, <1>2, <1>3, <1>4, <1>5, <1>6, <1>7, <1>8, <1>9, <1>10, <1>11, <1>12, <1>13, <1>14

(* The values are published, and with them the event that starts the event    *)
(* process.                                                                   *)
LEMMA PublishKeepsInv ==
    ASSUME Inv, Publish
    PROVE  Inv'
  <1> USE DEF Inv, Publish, engineVars, deviceVars, hubVars, connVars, testVars, Goto, Raise,
              Uncategorized
  <1>1. FaultsAreKnown' /\ (Stopped => at = End)'
    BY DEF FaultsAreKnown, Fault, FaultKinds, Stopped
  <1>2. ConnectionIsOpen' /\ SubscriptionIsFollowed' /\ ConnectionShows'
    BY DEF ConnectionIsOpen, SubscriptionIsFollowed, SubscriptionLost, NoSubscription,
           ConnectionShows, Fault, Late, Stopped
  <1>3. HubShows'
    BY DEF HubShows, Fault, Late, Stopped
  <1>4. \A k \in Kinds : DeploymentsAreKnown(k)'
    BY DEF DeploymentsAreKnown, Fault, Late, Lingering, Lingers
  <1>5. \A k \in Kinds : DeletesAreOfDeployed(k)'
    BY DEF DeletesAreOfDeployed
  <1>6. InstancesAreDeployed' /\ StartupsAreDone'
    BY DEF InstancesAreDeployed, StartupsAreDone
  <1>7. CommandIsFollowed'
    BY DEF CommandIsFollowed, LostCommand, Fault, Late, Stopped
  <1>8. AnswerIsFollowed'
    BY DEF AnswerIsFollowed, CommandIsFollowed, LostCommand, Fault, Late, Stopped
  <1>9. EventIsFollowed'
    BY DEF EventIsFollowed, LostEvent, NoPublish, Late, Stopped, Fault
  <1>10. ValueIsFollowed'
    BY DEF ValueIsFollowed, LostValue, NoPublish, Fault, Late
  <1>11. IsNoticed'
    <2>1. CASE Raise("connection", "ConnectorPublishErr")
      BY <2>1, RaiseIsNoticed
    <2>2. CASE UNCHANGED <<raised, faults>>
      BY <2>2
         DEF IsNoticed, SubscriptionLost, SleptTooShort, NoEventService, LostValue, LostCommand,
             LostEvent, Stopped,
             CommandIsFollowed, ValueIsFollowed
    <2> QED
      BY <2>1, <2>2
  <1>12. CleanupIsDone'
    BY DEF CleanupIsDone, Accountable, Fault
  <1>13. NoFalseAlarm'
    <2>1. CASE /\ Fault("unanswered", "connection", "publish")
               /\ Raise("connection", "ConnectorPublishErr")
      <3>1. Explains(<<"unanswered", "connection", "publish">>, <<"connection", "ConnectorPublishErr">>)
        BY DEF Explains
      <3> QED
        BY <2>1, <3>1, FailureIsNoFalseAlarm
    <2>2. CASE Fault("failed", "connection", "publish") /\ Raise("connection", "ConnectorPublishErr")
      <3>1. Explains(<<"failed", "connection", "publish">>, <<"connection", "ConnectorPublishErr">>)
        BY DEF Explains
      <3> QED
        BY <2>2, <3>1, FailureIsNoFalseAlarm
    <2>3. CASE UNCHANGED <<raised, faults>>
      BY <2>3, NoNewAlarm
    <2> QED
      BY <2>1, <2>2, <2>3
  <1>14. TypeOK'
    BY NextType DEF Next, ConnectionStep
  <1> QED
    BY <1>1, <1>2, <1>3, <1>4, <1>5, <1>6, <1>7, <1>8, <1>9, <1>10, <1>11, <1>12, <1>13, <1>14

(* checkDeviceValue(): a value that is missing was lost, or was not           *)
(* published, or came too late; and it is told of.                            *)
LEMMA CheckDeviceValueKeepsInv ==
    ASSUME Inv, CheckDeviceValue
    PROVE  Inv'
  <1> USE DEF Inv, CheckDeviceValue, engineVars, deviceVars, hubVars, connVars, testVars, Goto,
              Raise, Uncategorized
  <1>1. FaultsAreKnown' /\ (Stopped => at = End)'
    BY DEF FaultsAreKnown, Fault, FaultKinds, Stopped
  <1>2. ConnectionIsOpen' /\ SubscriptionIsFollowed' /\ ConnectionShows'
    BY DEF ConnectionIsOpen, SubscriptionIsFollowed, SubscriptionLost, NoSubscription,
           ConnectionShows, Fault, Late, Stopped
  <1>3. HubShows'
    BY DEF HubShows, Fault, Late, Stopped
  <1>4. \A k \in Kinds : DeploymentsAreKnown(k)'
    BY DEF DeploymentsAreKnown, Fault, Late, Lingering, Lingers
  <1>5. \A k \in Kinds : DeletesAreOfDeployed(k)'
    BY DEF DeletesAreOfDeployed
  <1>6. InstancesAreDeployed' /\ StartupsAreDone'
    BY DEF InstancesAreDeployed, StartupsAreDone
  <1>7. CommandIsFollowed'
    BY DEF CommandIsFollowed, LostCommand, Fault, Late, Stopped
  <1>8. AnswerIsFollowed'
    BY DEF AnswerIsFollowed, CommandIsFollowed, LostCommand, Fault, Late, Stopped
  <1>9. EventIsFollowed'
    BY DEF EventIsFollowed, LostEvent, NoPublish, Late, Stopped, Fault
  <1>10. ValueIsFollowed'
    BY DEF ValueIsFollowed, LostValue, NoPublish, Fault, Late
  <1>11. IsNoticed'
    <2>1. CASE raised' # {}
      BY <2>1, RaisedIsNoticed
    <2>2. CASE UNCHANGED <<raised, faults>> /\ value = "stored" /\ ~NoEventService
      BY <2>2
         DEF IsNoticed, SubscriptionLost, SleptTooShort, NoEventService, LostValue, LostCommand,
             LostEvent, Stopped,
             ValueIsFollowed
    <2> QED
      BY <2>1, <2>2 DEF NoEventService
  <1>12. CleanupIsDone'
    BY DEF CleanupIsDone, Accountable, Fault
  <1>13. NoFalseAlarm'
    <2>1. CASE Fault("failed", "connection", "deviceType") /\ Raise("any", "DeviceRepoRequestErr")
      <3>1. Explains(<<"failed", "connection", "deviceType">>, <<"any", "DeviceRepoRequestErr">>)
        BY DEF Explains
      <3> QED
        BY <2>1, <3>1, FailureIsNoFalseAlarm
    <2>2. CASE /\ Fault("failed", "connection", "lastValues")
               /\ raised' = raised \cup {<<"connection", "DeviceDataRequestErr">>, UnexpectedData}
      <3>1. Explains(<<"failed", "connection", "lastValues">>, <<"connection", "DeviceDataRequestErr">>)
        BY DEF Explains
      <3>2. Explains(<<"failed", "connection", "lastValues">>, UnexpectedData)
        BY DEF Explains
      <3>3. faults \subseteq faults' /\ <<"failed", "connection", "lastValues">> \in faults'
        BY <2>2, FaultAdds
      <3> HIDE DEF Explains
      <3> QED
        BY <2>2, <3>1, <3>2, <3>3 DEF NoFalseAlarm, Accountable
    <2>3. CASE UNCHANGED <<raised, faults>>
      BY <2>3, NoNewAlarm
    <2>4. CASE /\ UNCHANGED faults /\ raised' = raised \cup {UnexpectedData}
               /\ (value # "stored" \/ NoEventService)
      <3>1. Accountable => Late \/ LostValue \/ NoPublish \/ NoEventService
        BY <2>4 DEF ValueIsFollowed, TypeOK, PlatformTypeOK
      <3>2. ASSUME Late PROVE \E f \in faults' : Explains(f, UnexpectedData)
        BY <2>4, <3>2, LateExplains
      <3>3. /\ Explains(<<"lost", "connection", "value">>, UnexpectedData)
            /\ Explains(<<"failed", "connection", "publish">>, UnexpectedData)
            /\ Explains(<<"missing", "event", "service">>, UnexpectedData)
        BY DEF Explains
      <3>4. Accountable => \E f \in faults' : Explains(f, UnexpectedData)
        BY <2>4, <3>1, <3>2, <3>3 DEF LostValue, NoPublish, NoEventService
      <3> QED
        BY <2>4, <3>4, NewAlarm
    <2> QED
      BY <2>1, <2>2, <2>3, <2>4 DEF NoEventService
  <1>14. TypeOK'
    BY NextType DEF Next, ConnectionStep
  <1> QED
    BY <1>1, <1>2, <1>3, <1>4, <1>5, <1>6, <1>7, <1>8, <1>9, <1>10, <1>11, <1>12, <1>13, <1>14

(* Disconnect(): answers that are still to be sent are orphaned only where a  *)
(* sleep was too short.                                                       *)
LEMMA DisconnectKeepsInv ==
    ASSUME Inv, Disconnect
    PROVE  Inv'
  <1> USE DEF Inv, Disconnect, engineVars, deviceVars, hubVars, connVars, testVars, Goto, Raise,
              Uncategorized
  <1>1. FaultsAreKnown' /\ (Stopped => at = End)'
    BY DEF FaultsAreKnown, Fault, FaultKinds, Stopped
  <1>2. ConnectionIsOpen' /\ SubscriptionIsFollowed' /\ ConnectionShows'
    BY DEF ConnectionIsOpen, SubscriptionIsFollowed, SubscriptionLost, NoSubscription,
           ConnectionShows, Fault, Late, Stopped
  <1>3. HubShows'
    BY DEF HubShows, Fault, Late, Stopped
  <1>4. \A k \in Kinds : DeploymentsAreKnown(k)'
    BY DEF DeploymentsAreKnown, Fault, Late, Lingering, Lingers
  <1>5. \A k \in Kinds : DeletesAreOfDeployed(k)'
    BY DEF DeletesAreOfDeployed
  <1>6. InstancesAreDeployed' /\ StartupsAreDone'
    BY DEF InstancesAreDeployed, StartupsAreDone
  <1>7. CommandIsFollowed'
    BY DEF CommandIsFollowed, LostCommand, Fault, Late, Stopped
  <1>8. AnswerIsFollowed'
    BY DEF AnswerIsFollowed, CommandIsFollowed, LostCommand, Fault, Late, Stopped
  <1>9. EventIsFollowed'
    BY DEF EventIsFollowed, LostEvent, NoPublish, Late, Stopped, Fault
  <1>10. ValueIsFollowed'
    BY DEF ValueIsFollowed, LostValue, NoPublish, Fault, Late
  <1>11. IsNoticed'
    BY DEF IsNoticed, SubscriptionLost, SleptTooShort, NoEventService, LostValue, LostCommand,
           LostEvent, Stopped, Fault
  <1>12. CleanupIsDone'
    BY DEF CleanupIsDone, Accountable, Fault
  <1>13. NoFalseAlarm'
    BY NoNewAlarm DEF Fault
  <1>14. TypeOK'
    BY NextType DEF Next, ConnectionStep
  <1> QED
    BY <1>1, <1>2, <1>3, <1>4, <1>5, <1>6, <1>7, <1>8, <1>9, <1>10, <1>11, <1>12, <1>13, <1>14
===============================================================================
