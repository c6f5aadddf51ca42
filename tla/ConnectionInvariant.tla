-------------------------- MODULE ConnectionInvariant --------------------------
(***************************************************************************)
(* What holds at each place of the connection test, so that the properties *)
(* of module ConnectionTest hold: an inductive invariant, in parts that    *)
(* each follow one thing through the course of a run.                      *)
(*                                                                         *)
(* A run has the following course; an error may take it from the middle of *)
(* ProcessStartup() or ProcessTeardown() to their end, or to its own end.  *)
(*                                                                         *)
(*   event startup, checkOffline, hub, connect,          not connected     *)
(*   subscribe, publish, process startup,                                  *)
(*   sleep, checkOnline, checkDeviceValue,                                 *)
(*   process teardown, disconnect,                       connected         *)
(*   sleepOffline, checkStillOffline, event teardown     not connected     *)
(***************************************************************************)
EXTENDS ConnectionTest

Startup == {"list", "delete", "prepare", "deploy", "sleep"}
HubSleeps == {"connection"} \X {"hubSleep", "hubSleepError"}

BeforeHub ==
    ({"event"} \X Startup) \cup
    ({"connection"} \X {"checkOffline", "ensureHub", "createHub", "updateHub"})
BeforeConnect == BeforeHub \cup HubSleeps \cup {<<"connection", "connect">>}
BeforeSubscribe == BeforeConnect \cup {<<"connection", "subscribe">>}
BeforePublish == BeforeSubscribe \cup {<<"connection", "publish">>}
BeforeStart == BeforePublish \cup ({"process"} \X (Startup \cup {"start"}))

(* From the publishing of the values to the look at what became of them. *)
BeforeCheck ==
    ({"process"} \X (Startup \cup {"start"})) \cup
    ({"connection"} \X {"sleep", "checkOnline", "checkDeviceValue"})

Online ==
    ({"process"} \X DeploymentSteps) \cup
    ({"connection"} \X {"subscribe", "publish", "sleep", "checkOnline", "checkDeviceValue",
                        "disconnect"})

(* After the sleep that waits for the end of the connection (or without a     *)
(* connection); CaughtUpOnline is after the one that waits for the commands.  *)
CaughtUpOffline ==
    ({"event"} \X Teardown) \cup ({"connection"} \X {"checkStillOffline", "end"})
CaughtUp == CaughtUpOnline \cup {<<"connection", "sleepOffline">>} \cup CaughtUpOffline

(* Where the startup of kind k has not listed, and where it has not deployed. *)
BeforeList(k) ==
    {<<k, "list">>} \cup
    IF k = "process" THEN BeforePublish ELSE {}
BeforeDeploy(k) == BeforeList(k) \cup ({k} \X {"delete", "prepare", "deploy"})

(* Where the deployment of kind k has been made and shown. *)
Running(k) ==
    {<<k, "teardown">>} \cup
    IF k = "process"
    THEN {<<"process", "start">>} \cup
         ({"connection"} \X {"sleep", "checkOnline", "checkDeviceValue"})
    ELSE ({"connection"} \X (ConnectionSteps \ {"end"})) \cup ({"process"} \X DeploymentSteps)

Undisturbed == start # "faulty"
Late == \E f \in faults : f[1] = "late"
Stopped == \E f \in faults : f[1] = "stopped"
Lingering == \E f \in faults : Lingers(f)

LostValue == <<"lost", "connection", "value">> \in faults
LostEvent == <<"lost", "event", "value">> \in faults
LostCommand == <<"lost", "process", "command">> \in faults
SubscriptionLost == LostSubscription \in faults
NoSubscription ==
    \/ <<"failed", "connection", "subscribe">> \in faults
    \/ SubscriptionLost \/ SpentSubscription \in faults
SleptTooShort == <<"late", "connection", "sleep">> \in faults
NoPublish == <<"failed", "connection", "publish">> \in faults
NoEventService == <<"missing", "event", "service">> \in faults

-------------------------------------------------------------------------------
(* The connection is open from connect to disconnect, and only then are there *)
(* a subscription and answers on it.                                          *)
ConnectionIsOpen ==
    /\ connected <=> at \in Online
    /\ subscribed \/ responses # {} => connected

(* There is a subscription from subscribe on, or a fault that tells why not;  *)
(* one that was lost does not come back.                                      *)
SubscriptionIsFollowed ==
    /\ at \in BeforeSubscribe => ~subscribed /\ ~SubscriptionLost
    /\ at \in Online \ BeforeSubscribe => subscribed \/ NoSubscription
    /\ SubscriptionLost => ~subscribed

(* The connection state that shows, if no run before has left another. *)
ConnectionShows ==
    Undisturbed =>
        /\ at \in BeforeSubscribe => ~shown
        /\ at \in CaughtUpOnline => shown \/ ~subscribed \/ Late
        /\ at \in CaughtUpOffline => ~shown \/ Late \/ Stopped

(* The hubs that show, and that a hub is created only where there is none. *)
HubShows ==
    Undisturbed =>
        /\ listedHubs = hubs \/ at \in HubSleeps \/ Late \/ Stopped
        /\ at \in BeforeHub => listedHubs = hubs
        /\ at = <<"connection", "createHub">> => hubs = 0

(* The deployments that are there: before the startup of a kind has listed    *)
(* them they all show; it deletes them all; then there is the new one only.   *)
DeploymentsAreKnown(k) ==
    Undisturbed =>
        /\ deployed[k] \subseteq listed[k] \/ at = <<k, "sleep">> \/ Lingering
        /\ at \in BeforeDeploy(k) => deployed[k] \subseteq listed[k]
        /\ at = <<k, "delete">> => deployed[k] \subseteq ids
        /\ at \in {k} \X {"prepare", "deploy"} => deployed[k] = {}
        /\ at = <<k, "sleep">> => \E d \in Ids : deployed[k] = {d}
        /\ at \in Running(k) /\ k \notin failedStartups =>
            \E d \in Ids : deployed[k] = {d} /\ (listed[k] = {d} \/ Late)
        /\ at = <<k, "instances">> => \E d \in Ids : deployed[k] = {d} /\ (ids = {d} \/ Late)
        /\ at = <<k, "cleanup">> => ids = deployed[k] \/ Late

(* A run that found everything settled deletes nothing that is gone. *)
DeletesAreOfDeployed(k) ==
    start = "settled" =>
        /\ at \in BeforeList(k) => listed[k] = deployed[k]
        /\ at = <<k, "delete">> => ids = deployed[k]

(* Who is where: instances, commands, the deployment that is to be started. *)
InstancesAreDeployed ==
    /\ \A k \in Kinds, i \in Ids : instance[k][i] # "none" => i \in deployed[k]
    /\ commands \subseteq deployed["process"]
    /\ at \in {"process"} \X {"sleep", "start"} => depl \in deployed["process"]

StartupsAreDone ==
    /\ at[1] \notin failedStartups
    /\ "process" \in failedStartups => at \notin BeforeStart

(* The command of this run is the only one, and it is still to come, or has   *)
(* been received, or is lost.                                                 *)
CommandIsFollowed ==
    Undisturbed =>
        /\ at \in BeforeStart => commands = {} /\ responses = {} /\ ~LostCommand
        /\ at \in {"process"} \X {"delete", "prepare", "deploy", "sleep", "start"} => ~received
        /\ at # End => commands \subseteq {depl}
        /\ commands # {} => ~received /\ ~LostCommand
        /\ LostCommand => ~received
        /\ at \in CaughtUp => (commands = {} /\ responses = {}) \/ Late \/ Stopped
        /\ orphans = {} \/ Late
        /\ at \in Running("process") \ {<<"process", "start">>} /\ "process" \notin failedStartups =>
            \/ received \/ LostCommand
            \/ depl \in commands /\ (at = <<"connection", "sleep">> \/ Late)
        /\ at \in {"process"} \X {"instances", "cleanup"} => received \/ LostCommand \/ Late

(* Its instance is running until the answer has come, or cannot come. *)
AnswerIsFollowed ==
    Undisturbed =>
        (at \in Running("process") \cup {<<"process", "sleep">>, <<"process", "instances">>}
            /\ "process" \notin failedStartups =>
            /\ deployed["process"] = {depl}
            /\ at \notin {"process"} \X {"sleep", "start"} =>
                /\ instance["process"][depl] \in {"running", "completed"}
                /\ \/ instance["process"][depl] = "completed"
                   \/ depl \in commands \cup responses /\ (at = <<"connection", "sleep">> \/ Late)
                   \/ LostCommand
                   \/ <<"unexpected", "process", "command">> \in faults
                   \/ <<"failed", "process", "respond">> \in faults)

(* The event of this run is the only one, and starts an instance of the event *)
(* process unless it is lost.                                                 *)
EventIsFollowed ==
    Undisturbed =>
        /\ at \in BeforePublish => ~event /\ ~LostEvent
        /\ event => ~LostEvent
        /\ at \in CaughtUp => ~event \/ Late \/ Stopped
        /\ at \in CaughtUpOffline \ {End} => (\A i \in Ids : instance["event"][i] # "running") \/ Late
        /\ at \in {"event"} \X {"prepare", "deploy", "sleep"} => \A i \in Ids : instance["event"][i] = "none"
        /\ at \in Running("event") \cup {<<"event", "instances">>} /\ "event" \notin failedStartups =>
            /\ event \/ LostEvent \/ at \in BeforePublish => \A i \in Ids : instance["event"][i] = "none"
            /\ \A i \in Ids : instance["event"][i] # "several"
            /\ \/ at \in BeforePublish \/ event \/ LostEvent \/ NoPublish
               \/ \A i \in deployed["event"] : instance["event"][i] # "none"

(* The values of this run are sent once, and are stored or lost. *)
ValueIsFollowed ==
    /\ at \in BeforePublish => value = "none" /\ ~LostValue
    /\ at \in BeforeCheck => value # "none" \/ LostValue \/ NoPublish
    /\ at \in {"connection"} \X {"checkOnline", "checkDeviceValue"} => value # "sent" \/ Late
    /\ value # "none" => ~LostValue

-------------------------------------------------------------------------------
FaultKinds == {"failed", "unanswered", "unexpected", "late", "stopped"}
FaultsAreKnown ==
    \A f \in faults :
        \/ f[1] \in FaultKinds
        \/ f \in {"lost"} \X {"connection"} \X {"value", "subscription", "spentSubscription"}
        \/ f \in {<<"lost", "event", "value">>, <<"lost", "process", "command">>}
        \/ f \in {"missing"} \X Kinds \X {"selectable", "service"}

(* A fault that a metric is still to tell of. *)
IsNoticed ==
    /\ \A f \in faults :
        f[1] \in {"failed", "unanswered", "unexpected"} \/ f[3] = "selectable" =>
            raised # {} \/ Stopped
    /\ at = <<"connection", "hubSleepError">> => raised # {}
    /\ "event" \in failedStartups => raised # {} \/ NoEventService
    /\ NoEventService =>
        \/ raised # {} \/ Stopped
        \/ at \in BeforePublish \cup BeforeCheck
    /\ SubscriptionLost =>
        \/ raised # {} \/ Stopped \/ SleptTooShort
        \/ at \in BeforeStart \cup {<<"connection", "sleep">>}
        \/ at = <<"connection", "checkOnline">> /\ ~shown
    /\ value = "sent" \/ LostValue => raised # {} \/ Stopped \/ at \in BeforeCheck
    /\ Undisturbed =>
        /\ commands # {} \/ LostCommand =>
            \/ raised # {} \/ Stopped
            \/ "process" \notin failedStartups
               /\ at \in Running("process") \cup ({"process"} \X {"instances", "cleanup"})
        /\ event \/ LostEvent =>
            \/ raised # {} \/ Stopped
            \/ "event" \in failedStartups /\ at \in BeforeCheck
            \/ "event" \notin failedStartups
               /\ at \in Running("event") \cup {<<"event", "instances">>}

(* Without a fault a run that answers for itself leaves nothing deployed. *)
CleanupIsDone ==
    Accountable =>
        /\ failedStartups # {} => faults # {}
        /\ at = <<"connection", "hubSleepError">> => faults # {}
        /\ at \in ({"connection"} \X {"disconnect", "sleepOffline", "checkStillOffline", "end"})
                  \cup ({"event"} \X Teardown) => deployed["process"] = {} \/ faults # {}
        /\ at = End => deployed["event"] = {} \/ faults # {}

(* What keeps the properties of ConnectionTest, and is inductive. *)
Inv ==
    /\ TypeOK
    /\ Stopped => at = End
    /\ FaultsAreKnown
    /\ ConnectionIsOpen
    /\ SubscriptionIsFollowed
    /\ ConnectionShows
    /\ HubShows
    /\ \A k \in Kinds : DeploymentsAreKnown(k) /\ DeletesAreOfDeployed(k)
    /\ InstancesAreDeployed
    /\ StartupsAreDone
    /\ CommandIsFollowed
    /\ AnswerIsFollowed
    /\ EventIsFollowed
    /\ ValueIsFollowed
    /\ IsNoticed
    /\ CleanupIsDone
    /\ NoFalseAlarm
=============================================================================
