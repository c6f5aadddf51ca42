---------------------------- MODULE DeviceMetadata ----------------------------
(***************************************************************************)
(* The device and the device type of the canary and the test of its        *)
(* metadata: EnsureDevice() and TestMetadata() of pkg/devicemetadata,      *)
(* which canary.StartTests() calls one after the other in every run.       *)
(*                                                                         *)
(* Changes are posted to the device manager and read from the device       *)
(* repository, which shows them some time later.  Neither is under src/:   *)
(* they are modelled from how the code uses them, their faults included.   *)
(*                                                                         *)
(* Runs follow each other, as module Canary proves they do.  The end of    *)
(* the process may cut a run anywhere, and the next run may start at once. *)
(***************************************************************************)
EXTENDS Integers, FiniteSets

CONSTANTS
    TypeIds,        \* bound: the device types there can be
    DeviceIds,      \* bound: the devices there can be
    None,           \* the id of a struct that was never filled
    MaxFaults       \* bound: faults in one run

ASSUME IdsAssumption == None \notin TypeIds \cup DeviceIds
ASSUME MaxFaultsAssumption == MaxFaults \in Nat

VARIABLES
    types,          \* the canary's device types
    listedTypes,    \* those of them the repository lists
    devices,        \* the canary's devices
    listedDevices,  \* those of them the repository lists
    typeOf,         \* DeviceTypeId of each device
    name,           \* whether a device has the name this run gives it: "old" or "new"
    shownName,      \* the name the repository shows
    at,             \* where the run is
    dt,             \* the id in the local variable dt of CreateCanaryDevice()
    info,           \* the id in the DeviceInfo that the run works with
    faults,         \* what went wrong in this run: <<what, where>>
    raised,         \* the error metrics raised in this run
    faulty          \* whether this run began with consequences of an earlier one's faults

repoVars == <<types, listedTypes, devices, listedDevices, typeOf, name, shownName>>
runVars == <<at, dt, info>>
vars == <<repoVars, runVars, faults, raised, faulty>>

Init ==
    /\ types = {} /\ listedTypes = {}
    /\ devices = {} /\ listedDevices = {}
    /\ typeOf = [d \in DeviceIds |-> None]
    /\ name = [d \in DeviceIds |-> "old"] /\ shownName = [d \in DeviceIds |-> "old"]
    /\ at = "end"
    /\ dt = None /\ info = None
    /\ faults = {} /\ raised = {}
    /\ faulty = FALSE

(* Something goes wrong at this step, if the bound still allows it. *)
Fault(what) ==
    /\ faults' = faults \cup {<<what, at>>}
    /\ Cardinality(faults') <= MaxFaults

Raise(metric) == raised' = raised \cup {metric}

(* The repository shows all that was changed. *)
Settled == listedTypes = types /\ listedDevices = devices /\ shownName = name

-------------------------------------------------------------------------------
(* Faults after which a run may end before what it has changed shows. *)
Lingering == \E f \in faults : f[1] \in {"late", "stopped"}

(* Bound: there is an id left for whatever an early run may create. *)
IdsLeft == types # TypeIds /\ devices # DeviceIds

(* The next run.  The name it will give is new, whatever the device had.  It  *)
(* is faulty if it starts too early after a run that waited for too short a   *)
(* time, or was cut.                                                          *)
StartRun ==
    /\ at = "end"
    /\ Settled \/ IdsLeft
    /\ at' = "listDevices"
    /\ faulty' = (~Settled /\ (faulty \/ Lingering))
    /\ dt' = None /\ info' = None
    /\ faults' = {} /\ raised' = {}
    /\ name' = [d \in DeviceIds |-> "old"]
    /\ shownName' = [d \in DeviceIds |-> "old"]
    /\ UNCHANGED <<types, listedTypes, devices, listedDevices, typeOf>>

(* The process ends in the middle of a run (Canary: Exit, Crash). *)
StopRun ==
    /\ at # "end"
    /\ Fault("stopped")
    /\ at' = "end"
    /\ dt' = None /\ info' = None
    /\ raised' = {}
    /\ UNCHANGED <<repoVars, faulty>>

-------------------------------------------------------------------------------
(* EnsureDevice(): look for the device, create it and its type if need be. *)

(* A query of the repository that returns an error, which ends the run. *)
QueryFails ==
    /\ Fault("failed")
    /\ Raise("DeviceRepoRequestErr")
    /\ at' = "end"

(* ListCanaryDevices() has a limit of 1 and no order: any device may come. *)
EnsureDevice ==
    /\ at = "listDevices"
    /\ \/ /\ info' \in listedDevices
          /\ at' = "read"
          /\ UNCHANGED <<faults, raised>>
       \/ /\ listedDevices = {}
          /\ at' = "listTypes"
          /\ UNCHANGED <<info, faults, raised>>
       \/ QueryFails /\ UNCHANGED info
    /\ UNCHANGED <<repoVars, dt, faulty>>

(* Mutant: an error of the listing is only counted. *)
EnsureDeviceTypeGoesOn ==
    /\ at = "listTypes"
    /\ \/ /\ dt' \in listedTypes
          /\ at' = "createDevice"
          /\ UNCHANGED <<faults, raised>>
       \/ /\ listedTypes = {}
          /\ at' = "createType"
          /\ UNCHANGED <<dt, faults, raised>>
       \/ /\ Fault("failed")
          /\ Raise("DeviceRepoRequestErr")
          /\ at' = "createDevice"
          /\ UNCHANGED dt
    /\ UNCHANGED <<repoVars, info, faulty>>

EnsureDeviceType ==
    /\ at = "listTypes"
    /\ \/ /\ dt' \in listedTypes
          /\ at' = "createDevice"
          /\ UNCHANGED <<faults, raised>>
       \/ /\ listedTypes = {}
          /\ at' = "createType"
          /\ UNCHANGED <<dt, faults, raised>>
       \/ QueryFails /\ UNCHANGED dt
    /\ UNCHANGED <<repoVars, info, faulty>>

(* A post or a put that returns an error: it had its effect, or it had none. *)
ChangeFails(effect, noEffect) ==
    /\ \/ Fault("failed") /\ noEffect
       \/ Fault("unanswered") /\ effect
    /\ Raise("DeviceMetaUpdateErr")

(* Mutant: the id is chosen before the post, and kept when the post fails. *)
CreateCanaryDeviceTypeOwnId ==
    /\ at = "createType"
    /\ \E t \in TypeIds \ types :
        LET Add == types' = types \cup {t} IN
        /\ dt' = t
        /\ \/ Add /\ at' = "typeSleep" /\ UNCHANGED <<faults, raised>>
           \/ ChangeFails(Add, UNCHANGED types) /\ at' = "typeSleepError"
    /\ UNCHANGED <<listedTypes, devices, listedDevices, typeOf, name, shownName, info, faulty>>

(* With an error and without, there is a sleep before CreateCanaryDeviceType() *)
(* returns; with one, the run ends after it.                                   *)
CreateCanaryDeviceType ==
    /\ at = "createType"
    /\ \E t \in TypeIds \ types :
        LET Add == types' = types \cup {t} IN
        \/ Add /\ dt' = t /\ at' = "typeSleep" /\ UNCHANGED <<faults, raised>>
        \/ ChangeFails(Add, UNCHANGED types) /\ at' = "typeSleepError" /\ UNCHANGED dt
    /\ UNCHANGED <<listedTypes, devices, listedDevices, typeOf, name, shownName, info, faulty>>

AddDevice(d) ==
    /\ devices' = devices \cup {d}
    /\ typeOf' = [typeOf EXCEPT ![d] = dt]

(* Mutant: after an error of the post EnsureDevice() tries again at once. *)
CreateCanaryDeviceRetries ==
    /\ at = "createDevice"
    /\ \E d \in DeviceIds \ devices :
        \/ /\ AddDevice(d)
           /\ info' = d
           /\ at' = "deviceSleep"
           /\ UNCHANGED <<faults, raised>>
        \/ /\ ChangeFails(AddDevice(d), UNCHANGED <<devices, typeOf>>)
           /\ at' = "listDevices"
           /\ UNCHANGED info
    /\ UNCHANGED <<types, listedTypes, listedDevices, name, shownName, dt, faulty>>

(* The rest of CreateCanaryDevice(), which sleeps in the same way. *)
CreateCanaryDevice ==
    /\ at = "createDevice"
    /\ \E d \in DeviceIds \ devices :
        \/ /\ AddDevice(d)
           /\ info' = d
           /\ at' = "deviceSleep"
           /\ UNCHANGED <<faults, raised>>
        \/ /\ ChangeFails(AddDevice(d), UNCHANGED <<devices, typeOf>>)
           /\ at' = "deviceSleepError"
           /\ UNCHANGED info
    /\ UNCHANGED <<types, listedTypes, listedDevices, name, shownName, dt, faulty>>

(* Mutant: the sleeps are left out. *)
NoSleep(step, next) ==
    /\ at = step
    /\ at' = next
    /\ UNCHANGED <<repoVars, dt, info, faults, raised, faulty>>

(* time.Sleep(guarantee): what was changed before shows afterwards, unless    *)
(* the platform breaks its guarantee.                                         *)
SleepStep(step, next) ==
    /\ at = step
    /\ \/ Settled /\ UNCHANGED faults
       \/ ~Settled /\ Fault("late")
    /\ at' = next
    /\ UNCHANGED <<repoVars, dt, info, raised, faulty>>

-------------------------------------------------------------------------------
(* TestMetadata(): give the device a new name and see whether it shows. *)

(* Mutant: a device that cannot be read is looked for again. *)
ReadDeviceOrEnsure ==
    /\ at = "read"
    /\ \/ info \in listedDevices /\ at' = "save" /\ UNCHANGED <<faults, raised>>
       \/ /\ info \notin listedDevices
          /\ Raise("DeviceRepoRequestErr")
          /\ at' = "listDevices"
          /\ UNCHANGED faults
       \/ QueryFails
    /\ UNCHANGED <<repoVars, dt, info, faulty>>

(* A device that does not show yet cannot be read. *)
ReadDevice ==
    /\ at = "read"
    /\ \/ info \in listedDevices /\ at' = "save" /\ UNCHANGED <<faults, raised>>
       \/ /\ info \notin listedDevices
          /\ Raise("DeviceRepoRequestErr")
          /\ at' = "end"
          /\ UNCHANGED faults
       \/ QueryFails
    /\ UNCHANGED <<repoVars, dt, info, faulty>>

(* The put; after an error of it the test goes on. *)
SaveDevice ==
    /\ at = "save"
    /\ LET Rename == name' = [name EXCEPT ![info] = "new"] IN
        \/ Rename /\ UNCHANGED <<faults, raised>>
        \/ ChangeFails(Rename, UNCHANGED name)
    /\ at' = "sleep"
    /\ UNCHANGED <<types, listedTypes, devices, listedDevices, typeOf, shownName, dt, info, faulty>>

(* Mutant: only that the device can still be read is checked. *)
CheckDeviceExists ==
    /\ at = "check"
    /\ UNCHANGED <<faults, raised>> \/ (Fault("failed") /\ Raise("DeviceRepoRequestErr"))
    /\ at' = "end"
    /\ UNCHANGED <<repoVars, dt, info, faulty>>

CheckDevice ==
    /\ at = "check"
    /\ \/ /\ raised' = IF shownName[info] = "new" THEN raised
                       ELSE raised \cup {"UnexpectedDeviceRepoMetadataErr"}
          /\ UNCHANGED faults
       \/ Fault("failed") /\ Raise("DeviceRepoRequestErr")
    /\ at' = "end"
    /\ UNCHANGED <<repoVars, dt, info, faulty>>

RunStep ==
    \/ EnsureDevice \/ EnsureDeviceType
    \/ CreateCanaryDeviceType
    \/ SleepStep("typeSleep", "createDevice") \/ SleepStep("typeSleepError", "end")
    \/ CreateCanaryDevice
    \/ SleepStep("deviceSleep", "read") \/ SleepStep("deviceSleepError", "end")
    \/ ReadDevice \/ SaveDevice
    \/ SleepStep("sleep", "check")
    \/ CheckDevice

-------------------------------------------------------------------------------
(* What the platform does by itself. *)

ShowType ==
    /\ \E t \in types \ listedTypes : listedTypes' = listedTypes \cup {t}
    /\ UNCHANGED <<types, devices, listedDevices, typeOf, name, shownName, faults>>

ShowDevice ==
    /\ \E d \in devices \ listedDevices : listedDevices' = listedDevices \cup {d}
    /\ UNCHANGED <<types, listedTypes, devices, typeOf, name, shownName, faults>>

ShowName ==
    /\ shownName # name
    /\ shownName' = name
    /\ UNCHANGED <<types, listedTypes, devices, listedDevices, typeOf, name, faults>>

(* A change that was accepted never reaches the repository. *)
LoseName ==
    /\ shownName # name
    /\ name' = shownName
    /\ Fault("lost")
    /\ UNCHANGED <<types, listedTypes, devices, listedDevices, typeOf, shownName>>

PlatformStep ==
    /\ ShowType \/ ShowDevice \/ ShowName \/ LoseName
    /\ UNCHANGED <<runVars, raised, faulty>>

Next == StartRun \/ StopRun \/ RunStep \/ PlatformStep

Spec == Init /\ [][Next]_vars

(* The run does what it can, every call is answered or fails, and the         *)
(* repository comes to show every change.                                     *)
FairSpec == Spec /\ WF_vars(RunStep) /\ WF_vars(PlatformStep)

-------------------------------------------------------------------------------
Steps ==
    {"listDevices", "listTypes", "createType", "typeSleep", "typeSleepError", "createDevice",
     "deviceSleep", "deviceSleepError", "read", "save", "sleep", "check", "end"}
FaultKinds == {"failed", "unanswered", "late", "lost", "stopped"}
Metrics == {"DeviceRepoRequestErr", "DeviceMetaUpdateErr", "UnexpectedDeviceRepoMetadataErr"}

TypeOK ==
    /\ types \subseteq TypeIds /\ listedTypes \subseteq types
    /\ devices \subseteq DeviceIds /\ listedDevices \subseteq devices
    /\ typeOf \in [DeviceIds -> TypeIds \cup {None}]
    /\ name \in [DeviceIds -> {"old", "new"}]
    /\ shownName \in [DeviceIds -> {"old", "new"}]
    /\ at \in Steps
    /\ dt \in types \cup {None}
    /\ info \in devices \cup {None}
    /\ faults \subseteq FaultKinds \X Steps
    /\ raised \subseteq Metrics
    /\ faulty \in BOOLEAN

(* README: "the tests will create a canary device-type and device, if they    *)
(* don't already exist": there is never a second one, although the listing    *)
(* lags and the answer of a create may be lost, because every create is       *)
(* followed by the guarantee before its run can end (devicemeta.go 116, 283). *)
CreatesOnce ==
    [][~faulty => (types' # types => types = {}) /\ (devices' # devices => devices = {})]_vars

(* A device is created with a type that exists and already shows, so that the *)
(* platform can know it: the early returns of EnsureDeviceType() and its      *)
(* sleep see to that, whatever earlier runs have left.                        *)
TypeShowsBeforeDevice ==
    [][\A d \in devices' \ devices :
         typeOf'[d] \in listedTypes \/ (typeOf'[d] \in types /\ <<"late", "typeSleep">> \in faults)]_vars

(* What a fault can cause, directly or by what follows from it. *)
Explains(f, m) ==
    \/ /\ m = "DeviceRepoRequestErr"
       /\ \/ f = <<"late", "deviceSleep">>
          \/ f[1] = "failed" /\ f[2] \in {"listDevices", "listTypes", "read", "check"}
    \/ /\ m = "DeviceMetaUpdateErr"
       /\ f[1] \in {"failed", "unanswered"}
       /\ f[2] \in {"createType", "createDevice", "save"}
    \/ /\ m = "UnexpectedDeviceRepoMetadataErr"
       /\ f = <<"failed", "save">> \/ f = <<"late", "sleep">> \/ f[1] = "lost"

(* No false alarms: each metric a run raises names something that went wrong  *)
(* in this very run, even in one that starts before the repository shows what *)
(* a cut run has left.  A put that failed without effect is counted twice     *)
(* (test.go goes on after line 71), a put whose answer was lost only once.    *)
NoFalseAlarm == \A m \in raised : \E f \in faults : Explains(f, m)

(* No silent faults: a run that came to its end and in which something went   *)
(* wrong has raised a metric; a rename that was accepted and lost is noticed  *)
(* by nothing but the comparison at the end.  A guarantee that was broken     *)
(* where nobody looked need not be.                                           *)
FaultsAreReported ==
    at = "end" /\ (\A f \in faults : f[1] # "stopped") =>
        ((\E f \in faults : f[1] # "late") => raised # {})

(* EnsureDevice() and TestMetadata() fill the places that the course of runs  *)
(* has for them: TestMetadata() is called once, with a device that            *)
(* EnsureDevice() returned without an error, and never goes back to it.       *)
Ensuring ==
    {"listDevices", "listTypes", "createType", "typeSleep", "typeSleepError", "createDevice",
     "deviceSleep", "deviceSleepError"}

Course == INSTANCE RunCourse WITH
    Tests <- {"metadata"},
    working <- IF at = "end" THEN {}
               ELSE IF at \in Ensuring THEN {"ensureDevice"}
               ELSE {"metadata"}

FollowsCourse == Course!Spec

Creating == {"listTypes", "createType", "typeSleep", "createDevice"}
Renaming == {"sleep", "check"}
Failed == \E f \in faults : f[1] \in {"failed", "unanswered"}
Lost == \E f \in faults : f[1] = "lost"
Stopped == \E f \in faults : f[1] = "stopped"

(* What is not listed yet is being waited for, or is left by a fault; while   *)
(* the run looks for its device nothing has gone wrong with its waiting yet.  *)
ListsAreComplete ==
    /\ listedTypes # types => faulty \/ Lingering \/ at \in {"typeSleep", "typeSleepError"}
    /\ listedDevices # devices => faulty \/ Lingering \/ at \in {"deviceSleep", "deviceSleepError"}
    /\ at \in {"listDevices", "listTypes", "createType"} => ~Lingering

(* A run that goes to create a device or a type has reason to. *)
NothingToFind ==
    /\ ~faulty /\ at \in Creating => devices = {}
    /\ ~faulty /\ at = "createType" => types = {}
    /\ at = "typeSleep" => dt \in types
    /\ at = "createDevice" =>
        dt \in listedTypes \/ (dt \in types /\ <<"late", "typeSleep">> \in faults)

(* The device a run works with can be read, unless it shows late. *)
DeviceIsKnown ==
    /\ at \in {"deviceSleep", "read", "save"} \cup Renaming => info \in devices
    /\ at = "read" /\ info \notin listedDevices => <<"late", "deviceSleep">> \in faults

(* Where the new name can be, and what has happened where it is not. *)
NameIsFollowed ==
    /\ \A d \in DeviceIds : shownName[d] = "new" => name[d] = "new"
    /\ at \notin Renaming \cup {"end"} => \A d \in DeviceIds : name[d] = "old"
    /\ at \in Renaming => \A d \in DeviceIds : name[d] = "new" => d = info
    /\ at \in Renaming /\ name[info] = "old" => <<"failed", "save">> \in faults \/ Lost
    /\ at = "check" /\ shownName[info] = "old" =>
        <<"failed", "save">> \in faults \/ <<"late", "sleep">> \in faults \/ Lost
    /\ at = "end" /\ shownName # name => raised # {} \/ Stopped

(* A failed call has been counted; a lost rename has been, or will be when    *)
(* the run comes to compare the names.                                        *)
FaultsAreFollowed ==
    ~Stopped =>
        /\ Failed => raised # {}
        /\ Lost => raised # {} \/ (at \in Renaming /\ \A d \in DeviceIds : name[d] = "old")

(* What keeps the above, and is inductive. *)
Inv ==
    /\ TypeOK
    /\ ListsAreComplete
    /\ NothingToFind
    /\ DeviceIsKnown
    /\ NameIsFollowed
    /\ FaultsAreFollowed
    /\ Stopped => at = "end"
    /\ NoFalseAlarm

(* The run ends whatever goes wrong: EnsureDevice() and the goroutine of      *)
(* testMetadata() come back, which is what module Canary assumes of them.     *)
RunEnds == at # "end" ~> at = "end"
=============================================================================
