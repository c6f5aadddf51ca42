------------------------------- MODULE Platform -------------------------------
(***************************************************************************)
(* The platform the canary tests, as far as the connection test can tell:  *)
(* the deployments of the canary's event process and of its command        *)
(* process, their instances, the canary's hub, and the state and last      *)
(* value of its device.  None of it is under src/: it is modelled from     *)
(* what pkg/process, pkg/events and pkg/canary ask of it.                  *)
(*                                                                         *)
(* Every change is made at one place and shows at another only later; the  *)
(* canary counts on guarantee_change_after to be long enough.  What goes   *)
(* wrong in the platform is recorded in faults, so that properties can     *)
(* compare it with the metrics that the canary raises.                     *)
(***************************************************************************)
EXTENDS Integers, FiniteSets

CONSTANTS
    Ids,            \* bound: the ids of deployments that exist or are listed at once
    MaxHubs,        \* bound: hubs are counted up to this number
    MaxFaults       \* bound: faults in one run

ASSUME IdsAssumption == IsFiniteSet(Ids) /\ Ids # {}
ASSUME MaxHubsAssumption == MaxHubs \in Nat \ {0}
ASSUME MaxFaultsAssumption == MaxFaults \in Nat

VARIABLES
    deployed,       \* deployed[k]: the deployments of kind k there are
    listed,         \* listed[k]: the deployments of kind k a listing shows
    instance,       \* instance[k][i]: the process instance of deployment i, or that there are
                    \* "several"
    commands,       \* deployments whose instance has sent its command to the device
    connected,      \* whether a client of the canary's hub is connected
    shown,          \* whether the device repository shows the device as online
    subscribed,     \* whether the broker has that client's subscription to the commands: the
                    \* device is online as long as it has (devicemeta.go:174)
    responses,      \* respond() goroutines on the open connection, by deployment
    orphans,        \* respond() goroutines whose connection has been closed
    value,          \* the values of this run: "none", "sent", or "stored"
    event,          \* whether published values are on their way to the event worker
                    \* (bound: those of two runs, the first of them faulty, count as one)
    hubs,           \* how many hubs of the canary there are (up to MaxHubs)
    listedHubs,     \* how many of them a listing shows
    faults          \* what went wrong in this run: <<what, kind, where>>

engineVars == <<deployed, listed, instance, commands>>
deviceVars == <<connected, shown, value, event>>
hubVars == <<hubs, listedHubs>>
connVars == <<subscribed, responses, orphans>>
platformVars == <<engineVars, deviceVars, hubVars, connVars, faults>>

Kinds == {"event", "process"}

PlatformTypeOK ==
    /\ deployed \in [Kinds -> SUBSET Ids]
    /\ listed \in [Kinds -> SUBSET Ids]
    /\ instance \in [Kinds -> [Ids -> {"none", "running", "completed", "several"}]]
    /\ commands \subseteq Ids
    /\ connected \in BOOLEAN /\ shown \in BOOLEAN /\ subscribed \in BOOLEAN
    /\ responses \subseteq Ids /\ orphans \subseteq Ids
    /\ value \in {"none", "sent", "stored"}
    /\ event \in BOOLEAN
    /\ hubs \in 0 .. MaxHubs /\ listedHubs \in 0 .. MaxHubs

PlatformInit ==
    /\ deployed = [k \in Kinds |-> {}]
    /\ listed = [k \in Kinds |-> {}]
    /\ instance = [k \in Kinds |-> [i \in Ids |-> "none"]]
    /\ commands = {}
    /\ connected = FALSE /\ shown = FALSE
    /\ subscribed = FALSE /\ responses = {} /\ orphans = {}
    /\ value = "none"
    /\ event = FALSE
    /\ hubs = 0 /\ listedHubs = 0
    /\ faults = {}

(* Something goes wrong, if the bound still allows it. *)
Fault(what, kind, where) ==
    /\ faults' = faults \cup {<<what, kind, where>>}
    /\ Cardinality(faults') <= MaxFaults

(* All that was asked for shows, and every command that was sent has been     *)
(* answered or lost.                                                          *)
Settled ==
    /\ listed = deployed
    /\ commands = {} /\ responses = {} /\ orphans = {}
    /\ \A i \in Ids : instance["event"][i] # "running"
    /\ shown = subscribed
    /\ value # "sent" /\ ~event
    /\ listedHubs = hubs

-------------------------------------------------------------------------------
(* What a call of the canary changes. *)

CreateDeployment(k, i) ==
    /\ i \notin deployed[k] \cup listed[k]
    /\ deployed' = [deployed EXCEPT ![k] = @ \cup {i}]
    /\ UNCHANGED <<listed, instance, commands>>

(* The instance of a deployment goes with it. *)
RemoveDeployment(k, i) ==
    /\ deployed' = [deployed EXCEPT ![k] = @ \ {i}]
    /\ instance' = [instance EXCEPT ![k][i] = "none"]
    /\ commands' = IF k = "process" THEN commands \ {i} ELSE commands
    /\ UNCHANGED listed

(* The command process sends a command to the device and waits for the answer. *)
StartInstance(i) ==
    /\ instance' = [instance EXCEPT !["process"][i] = "running"]
    /\ commands' = commands \cup {i}
    /\ UNCHANGED <<deployed, listed>>

Instances(k) == {i \in Ids : instance[k][i] # "none"}

-------------------------------------------------------------------------------
(* What the platform does by itself. *)

ShowDeployment(k, i) ==
    /\ (i \in deployed[k]) # (i \in listed[k])
    /\ listed' = [listed EXCEPT ![k] = IF i \in @ THEN @ \ {i} ELSE @ \cup {i}]
    /\ UNCHANGED <<deployed, instance, commands, deviceVars, hubVars, faults>>

(* The online state is "by subscription", says the description of the command *)
(* service in devicemeta.go: a client that has connected and not subscribed,  *)
(* or lost its subscription, leaves the device offline.                       *)
ShowConnection ==
    /\ shown # subscribed
    /\ shown' = subscribed
    /\ UNCHANGED <<engineVars, connected, value, event, hubVars, faults>>

ShowHub ==
    /\ listedHubs # hubs
    /\ listedHubs' = hubs
    /\ UNCHANGED <<engineVars, deviceVars, hubs, faults>>

StoreValue ==
    /\ value = "sent"
    /\ \/ value' = "stored" /\ UNCHANGED faults
       \/ value' = "none" /\ Fault("lost", "connection", "value")
    /\ UNCHANGED <<engineVars, connected, shown, event, hubVars>>

(* The event worker starts an instance of every deployed event process, beside *)
(* the one it may have by an earlier event.                                    *)
FireEvent ==
    /\ event
    /\ event' = FALSE
    /\ \/ /\ instance' = [instance EXCEPT !["event"] =
                            [i \in Ids |-> IF i \notin deployed["event"] THEN @[i]
                                           ELSE IF @[i] = "none" THEN "running" ELSE "several"]]
          /\ UNCHANGED faults
       \/ /\ Fault("lost", "event", "value")
          /\ UNCHANGED instance
    /\ UNCHANGED <<deployed, listed, commands, connected, shown, value, hubVars>>

(* The event process has nothing to wait for. *)
CompleteEvent(i) ==
    /\ instance["event"][i] = "running"
    /\ instance' = [instance EXCEPT !["event"][i] = "completed"]
    /\ UNCHANGED <<deployed, listed, commands, deviceVars, hubVars, faults>>

PlatformStep ==
    \/ \E k \in Kinds, i \in Ids : ShowDeployment(k, i)
    \/ ShowConnection \/ ShowHub \/ StoreValue \/ FireEvent
    \/ \E i \in Ids : CompleteEvent(i)
=============================================================================
