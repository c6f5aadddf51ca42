---------------------------- MODULE ConnectionTest ----------------------------
(***************************************************************************)
(* The goroutine of testDeviceConnection() in pkg/canary/test.go, with the *)
(* hub (hub.go), the MQTT connection and its checks (connector.go), and    *)
(* the two deployment tests it calls.                                      *)
(*                                                                         *)
(* Runs follow each other, as module Canary proves they do; a run may be   *)
(* cut by the end of the process.  The next one may start at once, or      *)
(* after the platform has settled.                                         *)
(***************************************************************************)
EXTENDS DeploymentTest

CONSTANT
    EarlyStarts     \* bound: whether a run may start before the platform has settled

ASSUME EarlyStartsAssumption == EarlyStarts \in BOOLEAN

VARIABLE
    start           \* how this run found the platform: "settled", "early" or "faulty"

vars == <<platformVars, testVars, start>>

(* The return of the test goroutine: the next thing is another run. *)
End == <<"connection", "end">>

Init ==
    /\ PlatformInit
    /\ at = End
    /\ ids = {} /\ depl = 0 /\ failedStartups = {}
    /\ received = FALSE
    /\ raised = {}
    /\ start = "settled"

(* Bound: there is an id left for a deployment of each kind. *)
IdsLeft == \A k \in Kinds : deployed[k] \cup listed[k] # Ids

(* Faults after which a run may end before what it has changed shows: a sleep *)
(* too short, no sleep at all, a deployment nobody waits for.                 *)
Lingers(f) == f[1] \in {"late", "stopped"} \/ (f[1] = "unanswered" /\ f[3] = "deploy")

(* A run reaches this test.  One that starts before the platform has settled  *)
(* is "early", or "faulty" if a fault of the runs before may still linger.    *)
StartRun ==
    /\ at = End
    /\ Settled \/ (EarlyStarts /\ IdsLeft)
    /\ Goto("event", "list")
    /\ start' = IF Settled THEN "settled"
                ELSE IF start = "faulty" \/ \E f \in faults : Lingers(f) THEN "faulty"
                ELSE "early"
    /\ faults' = {} /\ raised' = {} /\ failedStartups' = {} /\ depl' = 0 /\ ids' = {}
    /\ value' = "none"
    /\ UNCHANGED <<engineVars, connected, shown, event, hubVars, received, connVars>>

(* The process ends in the middle of a run (Canary: Exit, Crash): its memory  *)
(* and its connection are gone, what it has asked of the platform is not.     *)
StopRun ==
    /\ at # End
    /\ Fault("stopped", at[1], at[2])
    /\ at' = End /\ ids' = {} /\ depl' = 0 /\ failedStartups' = {}
    /\ received' = FALSE /\ raised' = {}
    /\ connected' = FALSE
    /\ subscribed' = FALSE /\ responses' = {} /\ orphans' = {}
    /\ UNCHANGED <<engineVars, shown, value, event, hubVars, start>>

-------------------------------------------------------------------------------
(* The hub. *)

(* listCanaryHubs(): the first hub listed is taken.  Whether it already has   *)
(* the device is left to chance.                                              *)
EnsureHub ==
    /\ at = <<"connection", "ensureHub">>
    /\ \/ listedHubs > 0 /\ Goto("connection", "connect") /\ UNCHANGED <<raised, faults>>
       \/ listedHubs > 0 /\ Goto("connection", "updateHub") /\ UNCHANGED <<raised, faults>>
       \/ listedHubs = 0 /\ Goto("connection", "createHub") /\ UNCHANGED <<raised, faults>>
       \/ /\ Fault("failed", "connection", "ensureHub")
          /\ Raise("any", "DeviceRepoRequestErr")
          /\ at' = End
    /\ UNCHANGED <<engineVars, deviceVars, hubVars, ids, depl, failedStartups, received,
                   connVars, start>>

AddHub == hubs' = IF hubs < MaxHubs THEN hubs + 1 ELSE hubs

(* Mutant: an error returns before the sleep. *)
ChangeHubNoSleep ==
    /\ at \in {<<"connection", "createHub">>, <<"connection", "updateHub">>}
    /\ \/ /\ Goto("connection", "hubSleep")
          /\ IF at[2] = "createHub" THEN AddHub ELSE UNCHANGED hubs
          /\ UNCHANGED <<raised, faults>>
       \/ /\ at' = End
          /\ Fault("unanswered", "connection", at[2])
          /\ IF at[2] = "createHub" THEN AddHub ELSE UNCHANGED hubs
          /\ Raise("any", "DeviceMetaUpdateErr")
    /\ UNCHANGED <<engineVars, deviceVars, listedHubs, ids, depl, failedStartups, received,
                   connVars, start>>

(* createCanaryHub() and updateCanaryHub(): both sleep whether or not the call *)
(* has failed; with an error, the test ends after that.                        *)
ChangeHub ==
    /\ at \in {<<"connection", "createHub">>, <<"connection", "updateHub">>}
    /\ \/ /\ Goto("connection", "hubSleep")
          /\ IF at[2] = "createHub" THEN AddHub ELSE UNCHANGED hubs
          /\ UNCHANGED <<raised, faults>>
       \/ /\ Goto("connection", "hubSleepError")
          /\ \/ Fault("failed", "connection", at[2]) /\ UNCHANGED hubs
             \/ /\ Fault("unanswered", "connection", at[2])
                /\ IF at[2] = "createHub" THEN AddHub ELSE UNCHANGED hubs
          /\ Raise("any", "DeviceMetaUpdateErr")
    /\ UNCHANGED <<engineVars, deviceVars, listedHubs, ids, depl, failedStartups, received,
                   connVars, start>>

(* Mutant: the sleeps are left out. *)
NoSleepStep(step, next) ==
    /\ at = <<"connection", step>>
    /\ at' = next
    /\ UNCHANGED <<platformVars, ids, depl, failedStartups, received, raised, start>>

(* time.Sleep(guarantee) at four places of the goroutine. *)
SleepStep(step, next) ==
    /\ at = <<"connection", step>>
    /\ GuaranteeElapsed
    /\ at' = next
    /\ UNCHANGED <<engineVars, deviceVars, hubVars, ids, depl, failedStartups, received, raised,
                   connVars, start>>

-------------------------------------------------------------------------------
(* The MQTT connection. *)

Connect ==
    /\ at = <<"connection", "connect">>
    /\ \/ /\ connected' = TRUE
          /\ Goto("connection", "subscribe")
          /\ UNCHANGED <<raised, faults>>
       \/ /\ Fault("failed", "connection", "connect")
          /\ Raise("connection", "ConnectorLoginErr")
          /\ at' = End
          /\ UNCHANGED connected
    /\ UNCHANGED <<engineVars, shown, value, event, hubVars, ids, depl, failedStartups, received,
                   connVars, start>>

(* A failed subscription is counted; the test goes on without it, and so with *)
(* a device that stays offline.                                               *)
Subscribe ==
    /\ at = <<"connection", "subscribe">>
    /\ Goto("connection", "publish")
    /\ \/ subscribed' = TRUE /\ UNCHANGED <<raised, faults>>
       \/ /\ \/ Fault("failed", "connection", "subscribe") /\ UNCHANGED subscribed
             \/ Fault("unanswered", "connection", "subscribe") /\ subscribed' = TRUE
          /\ Raise("connection", "ConnectorSubscribeErr")
    /\ UNCHANGED <<engineVars, deviceVars, hubVars, ids, depl, failedStartups, received,
                   responses, orphans, start>>

Publish ==
    /\ at = <<"connection", "publish">>
    /\ Goto("process", "list")
    /\ \/ value' = "sent" /\ event' = TRUE /\ UNCHANGED <<raised, faults>>
       \/ /\ \/ Fault("failed", "connection", "publish") /\ UNCHANGED <<value, event>>
             \/ Fault("unanswered", "connection", "publish") /\ value' = "sent" /\ event' = TRUE
          /\ Raise("connection", "ConnectorPublishErr")
    /\ UNCHANGED <<engineVars, connected, shown, hubVars, ids, depl, failedStartups, received,
                   connVars, start>>

(* Disconnect(): goroutines still in respond() keep the closed connection. *)
Disconnect ==
    /\ at = <<"connection", "disconnect">>
    /\ connected' = FALSE
    /\ subscribed' = FALSE
    /\ orphans' = orphans \cup responses
    /\ responses' = {}
    /\ Goto("connection", "sleepOffline")
    /\ UNCHANGED <<engineVars, shown, value, event, hubVars, faults, ids, depl, failedStartups,
                   received, raised, start>>

(* After the sleep in which the device should come online. *)
Teardown == {"teardown", "instances", "cleanup"}
CaughtUpOnline ==
    ({"process"} \X Teardown) \cup
    ({"connection"} \X {"checkOnline", "checkDeviceValue", "disconnect"})

(* The connection breaks.  paho reconnects (SetAutoReconnect), with a clean   *)
(* session: the subscription is gone and nobody subscribes again.  After the  *)
(* sleep it has served its purpose ("spent").                                 *)
Reconnect ==
    /\ subscribed
    /\ Fault("lost", "connection", IF at \in CaughtUpOnline THEN "spentSubscription"
                                   ELSE "subscription")
    /\ subscribed' = FALSE
    /\ UNCHANGED <<engineVars, deviceVars, hubVars, testVars, responses, orphans, start>>

-------------------------------------------------------------------------------
(* Commands, which paho hands to the callback of subscribe(). *)

(* NotifyCommand() counts every command; one that is as expected is answered  *)
(* by a goroutine of its own, any other is an error.                          *)
NotifyCommand(i) ==
    /\ i \in commands
    /\ subscribed
    /\ commands' = commands \ {i}
    /\ received' = TRUE
    /\ \/ responses' = responses \cup {i} /\ UNCHANGED <<raised, faults>>
       \/ Fault("unexpected", "process", "command") /\ Uncategorized /\ UNCHANGED responses
    /\ UNCHANGED <<deployed, listed, instance, deviceVars, hubVars, at, ids, depl, failedStartups,
                   subscribed, orphans, start>>

(* A command that does not reach the device; without a subscription that is   *)
(* what becomes of it.                                                        *)
LoseCommand(i) ==
    /\ i \in commands
    /\ commands' = commands \ {i}
    /\ IF i = depl /\ at # End
       THEN IF subscribed THEN Fault("lost", "process", "command")
                          ELSE faults' = faults \cup {<<"lost", "process", "command">>}
       ELSE ~subscribed /\ UNCHANGED faults
    /\ UNCHANGED <<deployed, listed, instance, deviceVars, hubVars, testVars, connVars, start>>

(* The engine completes the instance, if it is still there. *)
AnswerCommand(i) ==
    instance' = IF instance["process"][i] = "running"
                THEN [instance EXCEPT !["process"][i] = "completed"] ELSE instance

(* respond() publishes the answer. *)
Respond(i) ==
    /\ i \in responses
    /\ responses' = responses \ {i}
    /\ \/ AnswerCommand(i) /\ UNCHANGED <<raised, faults>>
       \/ /\ \/ Fault("failed", "process", "respond") /\ UNCHANGED instance
             \/ Fault("unanswered", "process", "respond") /\ AnswerCommand(i)
          /\ Uncategorized
    /\ UNCHANGED <<deployed, listed, commands, deviceVars, hubVars, at, ids, depl, failedStartups,
                   received, subscribed, orphans, start>>

(* respond() on a connection that has been closed: its Publish fails. *)
RespondOrphaned(i) ==
    /\ i \in orphans
    /\ orphans' = orphans \ {i}
    /\ Uncategorized
    /\ UNCHANGED <<engineVars, deviceVars, hubVars, faults, at, ids, depl, failedStartups,
                   received, subscribed, responses, start>>
-------------------------------------------------------------------------------
(* The checks. *)

(* checkDeviceConnState() *)
CheckConnState(step, expected, next) ==
    /\ at = <<"connection", step>>
    /\ at' = next
    /\ \/ /\ raised' = IF shown = expected THEN raised
                       ELSE raised \cup {<<"connection", IF expected THEN "UnexpectedDeviceOfflineStateErr"
                                                         ELSE "UnexpectedDeviceOnlineStateErr">>}
          /\ UNCHANGED faults
       \/ Fault("failed", "connection", step) /\ Raise("any", "DeviceRepoRequestErr")
    /\ UNCHANGED <<engineVars, deviceVars, hubVars, ids, depl, failedStartups, received,
                   connVars, start>>

UnexpectedData == <<"connection", "UnexpectedDeviceDataErr">>

(* Mutant: only that there are values is checked, not which. *)
CheckDeviceValueAny ==
    /\ at = <<"connection", "checkDeviceValue">>
    /\ at' = IF "process" \in failedStartups THEN <<"connection", "disconnect">>
             ELSE <<"process", "teardown">>
    /\ UNCHANGED <<platformVars, ids, depl, failedStartups, received, raised, start>>

(* checkDeviceValue(): without the sensor service it asks for the values of   *)
(* no service; after a failed request it goes on with no values.              *)
CheckDeviceValue ==
    /\ at = <<"connection", "checkDeviceValue">>
    /\ at' = IF "process" \in failedStartups THEN <<"connection", "disconnect">>
             ELSE <<"process", "teardown">>
    /\ \/ /\ raised' = IF value = "stored" /\ <<"missing", "event", "service">> \notin faults
                       THEN raised ELSE raised \cup {UnexpectedData}
          /\ UNCHANGED faults
       \/ Fault("failed", "connection", "deviceType") /\ Raise("any", "DeviceRepoRequestErr")
       \/ /\ Fault("failed", "connection", "lastValues")
          /\ raised' = raised \cup {<<"connection", "DeviceDataRequestErr">>, UnexpectedData}
    /\ UNCHANGED <<engineVars, deviceVars, hubVars, ids, depl, failedStartups, received,
                   connVars, start>>

(* What testDeviceConnection() calls, in its order. *)
ConnectionStep ==
    \/ (\E k \in Kinds : DeploymentStep(k)) /\ UNCHANGED <<connVars, start>>
    \/ StartupStart /\ UNCHANGED <<connVars, start>>
    \/ CheckConnState("checkOffline", FALSE, <<"connection", "ensureHub">>)
    \/ EnsureHub \/ ChangeHub
    \/ SleepStep("hubSleep", <<"connection", "connect">>)
    \/ SleepStep("hubSleepError", End)
    \/ Connect \/ Subscribe \/ Publish
    \/ SleepStep("sleep", <<"connection", "checkOnline">>)
    \/ CheckConnState("checkOnline", TRUE, <<"connection", "checkDeviceValue">>)
    \/ CheckDeviceValue
    \/ Disconnect
    \/ SleepStep("sleepOffline", <<"connection", "checkStillOffline">>)
    \/ CheckConnState("checkStillOffline", FALSE,
            IF "event" \in failedStartups THEN End ELSE <<"event", "teardown">>)

Callbacks ==
    \E i \in Ids : NotifyCommand(i) \/ LoseCommand(i) \/ Respond(i) \/ RespondOrphaned(i)

Next ==
    \/ StartRun \/ StopRun
    \/ ConnectionStep
    \/ Callbacks \/ Reconnect
    \/ PlatformStep /\ UNCHANGED <<connVars, testVars, start>>

Spec == Init /\ [][Next]_vars

(* Every goroutine that can run does, every call is answered or fails, and    *)
(* the platform brings up to date what it shows.                              *)
Fairness ==
    /\ WF_vars(ConnectionStep)
    /\ WF_vars(Callbacks)
    /\ WF_vars(PlatformStep /\ UNCHANGED <<connVars, testVars, start>>)

FairSpec == Spec /\ Fairness

-------------------------------------------------------------------------------
ConnectionSteps ==
    {"checkOffline", "ensureHub", "createHub", "updateHub", "hubSleep", "hubSleepError",
     "connect", "subscribe", "publish", "sleep", "checkOnline", "checkDeviceValue",
     "disconnect", "sleepOffline", "checkStillOffline", "end"}
DeploymentSteps ==
    {"list", "delete", "prepare", "deploy", "sleep", "start", "teardown", "instances", "cleanup"}

TypeOK ==
    /\ PlatformTypeOK
    /\ at \in ({"connection"} \X ConnectionSteps) \cup (Kinds \X DeploymentSteps)
    /\ ids \subseteq Ids
    /\ depl \in Ids \cup {0}
    /\ failedStartups \subseteq Kinds
    /\ received \in BOOLEAN
    /\ start \in {"settled", "early", "faulty"}

LostSubscription == <<"lost", "connection", "subscription">>
SpentSubscription == <<"lost", "connection", "spentSubscription">>

(* The faults of which a metric tells, directly or by what follows from them. *)
(* A sleep that was too short may show in any check.                          *)
Explains(f, m) ==
    \/ f[1] = "late" /\ m \in {<<"any", "UncategorizedErr">>,
            <<"connection", "UnexpectedDeviceOfflineStateErr">>,
            <<"connection", "UnexpectedDeviceOnlineStateErr">>, UnexpectedData,
            <<"event", "UnexpectedInstanceStateErr">>,
            <<"process", "UnexpectedInstanceStateErr">>,
            <<"process", "UnexpectedCommandCountError">>}
    \/ m = <<"any", "UncategorizedErr">> /\
        \/ f[1] \in {"failed", "unanswered"} /\ f[2] \in Kinds
           /\ f[3] \in {"list", "delete", "deviceType", "teardown", "instances", "cleanup",
                        "respond"}
        \/ f \in {<<"unexpected", "process", "command">>, <<"lost", "event", "value">>,
                 <<"failed", "connection", "publish">>}
    \/ m = <<"connection", "UnexpectedDeviceOfflineStateErr">> /\ f \in {
            <<"failed", "connection", "subscribe">>, LostSubscription, SpentSubscription}
    \/ m = UnexpectedData /\ f \in {<<"lost", "connection", "value">>,
            <<"failed", "connection", "publish">>, <<"failed", "connection", "lastValues">>,
            <<"missing", "event", "service">>}
    \/ m = <<"process", "UnexpectedInstanceStateErr">> /\ f \in {
            <<"lost", "process", "command">>, <<"unexpected", "process", "command">>,
            <<"failed", "process", "respond">>}
    \/ m = <<"process", "UnexpectedCommandCountError">> /\ f = <<"lost", "process", "command">>
    \/ m = <<"any", "DeviceRepoRequestErr">> /\ f[1] = "failed" /\ f[2] = "connection"
        /\ f[3] \in {"ensureHub", "checkOffline", "checkOnline", "checkStillOffline", "deviceType"}
    \/ m = <<"any", "DeviceMetaUpdateErr">> /\ f[3] \in {"createHub", "updateHub"}
    \/ m[2] \in {"PreparedDeploymentErr", "UnexpectedSelectablesErr"}
        /\ f[2] = m[1] /\ f[3] \in {"prepare", "selectable"}
    \/ m[2] = "DeploymentErr" /\ f[2] = m[1] /\ f[3] = "deploy"
    \/ m[2] = "StartErr" /\ f[2] = m[1] /\ f[3] = "start"
    \/ m[2] = "ConnectorLoginErr" /\ f[3] = "connect"
    \/ m[2] = "ConnectorSubscribeErr" /\ f[3] = "subscribe"
    \/ m[2] = "ConnectorPublishErr" /\ f[3] = "publish"
    \/ m[2] = "DeviceDataRequestErr" /\ f[3] = "lastValues"

(* A run answers for what it raises unless it began before the platform had   *)
(* settled after a faulty run, or, where deleting twice is an error, after    *)
(* any run: ProcessTeardown() of pkg/events does not wait for its deletes to  *)
(* show (events.go), and the next run lists first of all.                     *)
Accountable == start = "settled" \/ (start = "early" /\ ~RedeleteFails)

(* No false alarms: every metric that is raised names something that went     *)
(* wrong in this very run, whatever earlier runs have left behind: the        *)
(* startups clean up, the sleeps are where they are needed, and the order of  *)
(* test.go is right.                                                          *)
NoFalseAlarm ==
    Accountable => \A m \in raised : \E f \in faults : Explains(f, m)

(* What need not have any consequence: a view that was late but not looked    *)
(* at; a subscription that was lost after the sleep for its commands and for  *)
(* the online state, or before it, if that sleep was too short to show it.    *)
Harmless(f) ==
    \/ f[1] = "late" \/ f = SpentSubscription
    \/ f = LostSubscription /\ <<"late", "connection", "sleep">> \in faults

(* What the code returns as an error that no metric counts. *)
Uncounted == {<<"missing", "process", "service">>, <<"missing", "event", "service">>}

(* A run that came to its end, and had nothing of a faulty one in its way: an *)
(* event of that one which fires late can stand in for a lost one of this.    *)
Completed == at = End /\ start # "faulty" /\ \A f \in faults : f[1] # "stopped"

(* No silent faults: a completed run in which something went wrong has raised *)
(* a metric, although most faults happen elsewhere and are only noticed by    *)
(* what is missing later, past the early returns.                             *)
FaultsAreReported ==
    Completed /\ (\E f \in faults : ~Harmless(f) /\ f \notin Uncounted) => raised # {}

(* README: the canary is there "to test if components of the platform are     *)
(* running correctly": the same without an exception.                         *)
EveryFaultIsReported ==
    Completed /\ (\E f \in faults : ~Harmless(f)) => raised # {}

(* Deployments do not pile up: when a run deploys, everything deployed before *)
(* it is gone, however the runs before it ended (ProcessStartup() "cleanup"). *)
DeploysOnlyOne ==
    [][\A k \in Kinds : start # "faulty" /\ ~(deployed'[k] \subseteq deployed[k])
                        => Cardinality(deployed'[k]) = 1]_vars

(* The canary's hub is created once: every create is followed by the          *)
(* guarantee, whether it failed or not, so no later run misses the hub.       *)
CreatesHubOnce == [][start # "faulty" /\ hubs' > hubs => hubs = 0]_vars

(* receivedCommands is one counter for the life of the process (process.go    *)
(* 59), and a command does not say whose it is.  Still the one that is        *)
(* counted is of this run's own deployment and the only one, and it comes     *)
(* while testDeviceConnection() sleeps for it, unless that was too short: the *)
(* cleanups and sleeps of the runs before leave none.                         *)
ReceivesOwnCommand ==
    [][\A i \in Ids : start # "faulty" /\ NotifyCommand(i) =>
         /\ i = depl /\ ~received
         /\ at = <<"connection", "sleep">> \/ \E f \in faults : f[1] = "late"]_vars

(* A run without faults cleans up after itself, whatever it has found: no     *)
(* deployment, connection, command or answer of it is left.                   *)
CleanAfterRun ==
    at = End /\ faults = {} /\ Accountable =>
        /\ \A k \in Kinds : deployed[k] = {}
        /\ ~connected /\ commands = {} /\ responses = {} /\ orphans = {}

(* The metric's help text: "unexpected device data value errors": it speaks   *)
(* of values that were read.                                                  *)
UnexpectedDataIsData ==
    Accountable /\ UnexpectedData \in raised =>
        \E f \in faults : Explains(f, UnexpectedData) /\ f[3] # "lastValues"

(* The connection test ends whatever goes wrong, and with it the run that     *)
(* waits for it: no loop over listed ids and no wait for the platform is      *)
(* endless.                                                                   *)
TestEnds == at # End ~> at = End
=============================================================================
