---------------------------- MODULE DeploymentTest ----------------------------
(***************************************************************************)
(* ProcessStartup(), ProcessTeardown() and NotifyCommand() of pkg/process  *)
(* and pkg/events.  The two packages differ in the metrics they raise and  *)
(* in what pkg/process adds, so the actions are written once, for a kind   *)
(* k, and name the lines of both.                                          *)
(*                                                                         *)
(* Each call to the platform is one step: it answers, it fails, or it      *)
(* takes effect and its answer is lost.  time.Sleep(guarantee) is a step   *)
(* that waits for the platform to settle, or is too short (a fault).       *)
(***************************************************************************)
EXTENDS Platform

CONSTANT
    RedeleteFails   \* whether deleting a deployment that is gone is an error

ASSUME RedeleteFailsAssumption == RedeleteFails \in BOOLEAN

VARIABLES
    at,             \* where the goroutine of the connection test is: <<part, step>>
    ids,            \* the local variable ids: deployments listed and not yet deleted
    depl,           \* deplId of the command process of this run; 0 before there is one
    failedStartups, \* kinds whose ProcessStartup() of this run returned an error
    received,       \* whether Process.receivedCommands is above 0
    raised          \* the error metrics raised in this run: <<part, metric>>

testVars == <<at, ids, depl, failedStartups, received, raised>>

Raise(part, metric) == raised' = raised \cup {<<part, metric>>}
Uncategorized == Raise("any", "UncategorizedErr")

(* Where testDeviceConnection() goes on after the two calls for kind k. *)
AfterStartup(k) == <<"connection", IF k = "event" THEN "checkOffline" ELSE "sleep">>
AfterTeardown(k) == <<"connection", IF k = "event" THEN "end" ELSE "disconnect">>

Goto(part, step) == at' = <<part, step>>

(* return err from ProcessStartup() *)
StartupError(k) ==
    /\ at' = AfterStartup(k)
    /\ failedStartups' = failedStartups \cup {k}
    /\ ids' = {}

(* time.Sleep(guarantee): what was changed before shows afterwards. *)
GuaranteeElapsed ==
    \/ Settled /\ UNCHANGED faults
    \/ ~Settled /\ Fault("late", at[1], at[2])

-------------------------------------------------------------------------------
(* ProcessStartup(): clean up what earlier runs have left, then deploy. *)

(* The process test first forgets the commands of earlier runs. *)
StartupList(k) ==
    /\ at = <<k, "list">>
    /\ received' = (received /\ k # "process")
    /\ \/ /\ ids' = listed[k]
          /\ Goto(k, "delete")
          /\ UNCHANGED <<failedStartups, raised, faults>>
       \/ /\ Fault("failed", k, "list")
          /\ Uncategorized
          /\ StartupError(k)
    /\ UNCHANGED <<engineVars, deviceVars, hubVars, depl>>

(* Mutant: the loop goes on until no ids are left, and forgets to take one off. *)
DeleteProcessForever(k, i, onError) ==
    \/ /\ i \in deployed[k] \/ ~RedeleteFails
       /\ RemoveDeployment(k, i)
       /\ UNCHANGED <<at, ids, failedStartups, raised, faults>>
    \/ Fault("failed", k, at[2]) /\ UNCHANGED engineVars /\ Uncategorized /\ onError

(* DeleteProcess() of one deployment; onError is what the caller does next. *)
DeleteProcess(k, i, onError) ==
    \/ /\ i \in deployed[k] \/ ~RedeleteFails
       /\ RemoveDeployment(k, i)
       /\ ids' = ids \ {i}
       /\ UNCHANGED <<at, failedStartups, raised, faults>>
    \/ /\ \/ Fault("failed", k, at[2]) /\ UNCHANGED engineVars
          \/ Fault("unanswered", k, at[2]) /\ RemoveDeployment(k, i)
          \/ i \notin deployed[k] /\ RedeleteFails /\ UNCHANGED <<engineVars, faults>>
       /\ Uncategorized
       /\ onError

StartupDelete(k) ==
    /\ at = <<k, "delete">>
    /\ \E i \in ids : DeleteProcess(k, i, StartupError(k))
    /\ UNCHANGED <<deviceVars, hubVars, depl, received>>

(* Mutant: the cleanup of the startup is left out. *)
StartupReadDeviceTypeFirst(k) ==
    /\ at = <<k, "delete">>
    /\ Goto(k, "prepare")
    /\ ids' = {}
    /\ UNCHANGED <<platformVars, depl, failedStartups, received, raised>>

(* ReadDeviceType(), and the search for the service in its answer: that the *)
(* service is missing is returned as an error that no metric counts.        *)
StartupReadDeviceType(k) ==
    /\ at = <<k, "delete">> /\ ids = {}
    /\ \/ /\ Goto(k, "prepare")
          /\ UNCHANGED <<failedStartups, ids, raised, faults>>
       \/ /\ Fault("failed", k, "deviceType")
          /\ Uncategorized
          /\ StartupError(k)
       \/ /\ Fault("missing", k, "service")
          /\ UNCHANGED raised
          /\ StartupError(k)
    /\ UNCHANGED <<engineVars, deviceVars, hubVars, depl, received>>

(* PrepareProcessDeployment(): what is wrong with its answer is only counted. *)
StartupPrepare(k) ==
    /\ at = <<k, "prepare">>
    /\ Goto(k, "deploy")
    /\ \/ UNCHANGED <<raised, faults>>
       \/ Fault("failed", k, "prepare") /\ Raise(k, "PreparedDeploymentErr")
       \/ Fault("missing", k, "selectable") /\ Raise(k, "UnexpectedSelectablesErr")
    /\ UNCHANGED <<engineVars, deviceVars, hubVars, ids, depl, failedStartups, received>>

(* Mutant: the error of the deploy is counted, and the startup goes on. *)
StartupDeployGoesOn(k) ==
    /\ at = <<k, "deploy">>
    /\ Goto(k, "sleep")
    /\ \/ \E i \in Ids :
            /\ CreateDeployment(k, i)
            /\ depl' = IF k = "process" THEN i ELSE depl
            /\ UNCHANGED <<raised, faults>>
       \/ /\ Fault("failed", k, "deploy")
          /\ Raise(k, "DeploymentErr")
          /\ UNCHANGED <<engineVars, depl>>
    /\ UNCHANGED <<deviceVars, hubVars, ids, failedStartups, received>>

(* The id of the command process is kept, to start it and to know its commands. *)
StartupDeploy(k) ==
    /\ at = <<k, "deploy">>
    /\ \/ \E i \in Ids :
            /\ CreateDeployment(k, i)
            /\ depl' = IF k = "process" THEN i ELSE depl
            /\ Goto(k, "sleep")
            /\ UNCHANGED <<ids, failedStartups, raised, faults>>
       \/ /\ \/ Fault("failed", k, "deploy") /\ UNCHANGED engineVars
             \/ Fault("unanswered", k, "deploy") /\ \E i \in Ids : CreateDeployment(k, i)
          /\ Raise(k, "DeploymentErr")
          /\ StartupError(k)
          /\ UNCHANGED depl
    /\ UNCHANGED <<deviceVars, hubVars, received>>

StartupSleep(k) ==
    /\ at = <<k, "sleep">>
    /\ GuaranteeElapsed
    /\ at' = IF k = "process" THEN <<k, "start">> ELSE AfterStartup(k)
    /\ UNCHANGED <<engineVars, deviceVars, hubVars, ids, depl, failedStartups, received, raised>>

(* StartProcess(), of the command process only: the event process is started *)
(* by the published value.                                                   *)
StartupStart ==
    /\ at = <<"process", "start">>
    /\ \/ /\ StartInstance(depl)
          /\ at' = AfterStartup("process")
          /\ UNCHANGED <<ids, failedStartups, raised, faults>>
       \/ /\ \/ Fault("failed", "process", "start") /\ UNCHANGED engineVars
             \/ Fault("unanswered", "process", "start") /\ StartInstance(depl)
          /\ Raise("process", "StartErr")
          /\ StartupError("process")
    /\ UNCHANGED <<deviceVars, hubVars, depl, received>>

-------------------------------------------------------------------------------
(* ProcessTeardown(): look at what became of the instance, then clean up. *)

TeardownList(k) ==
    /\ at = <<k, "teardown">>
    /\ \/ /\ ids' = listed[k]
          /\ IF Cardinality(listed[k]) = 1 THEN UNCHANGED raised ELSE Uncategorized
          /\ Goto(k, "instances")
          /\ UNCHANGED faults
       \/ /\ Fault("failed", k, "teardown")
          /\ Uncategorized
          /\ at' = AfterTeardown(k)
          /\ UNCHANGED ids
    /\ UNCHANGED <<engineVars, deviceVars, hubVars, depl, failedStartups, received>>

(* Mutant: the state of the instances is looked at, but not their number. *)
TeardownInstancesUncounted(k) ==
    /\ at = <<k, "instances">>
    /\ Goto(k, "cleanup")
    /\ IF \E i \in Instances(k) : instance[k][i] # "completed"
       THEN Raise(k, "UnexpectedInstanceStateErr")
       ELSE UNCHANGED raised
    /\ UNCHANGED <<platformVars, ids, depl, failedStartups, received>>

(* Instances are counted, over all the deployments. *)
TeardownInstances(k) ==
    /\ at = <<k, "instances">>
    /\ Goto(k, "cleanup")
    /\ \/ /\ IF Cardinality(Instances(k)) # 1 \/ \E i \in Ids : instance[k][i] = "several"
             THEN Uncategorized
             ELSE IF \E i \in Instances(k) : instance[k][i] # "completed"
             THEN Raise(k, "UnexpectedInstanceStateErr")
             ELSE UNCHANGED raised
          /\ UNCHANGED faults
       \/ Fault("failed", k, "instances") /\ Uncategorized
    /\ UNCHANGED <<engineVars, deviceVars, hubVars, ids, depl, failedStartups, received>>

TeardownDelete(k) ==
    /\ at = <<k, "cleanup">>
    /\ \E i \in ids :
        DeleteProcess(k, i, at' = AfterTeardown(k) /\ ids' = {} /\ UNCHANGED failedStartups)
    /\ UNCHANGED <<deviceVars, hubVars, depl, received>>

(* Mutant: the teardown may return with deployments left to delete. *)
TeardownReturnEarly(k) ==
    /\ at = <<k, "cleanup">>
    /\ at' = AfterTeardown(k)
    /\ ids' = {}
    /\ UNCHANGED <<platformVars, depl, failedStartups, received, raised>>

(* The cleanup is done; the process test has a last look at its counter. *)
TeardownReturn(k) ==
    /\ at = <<k, "cleanup">> /\ ids = {}
    /\ at' = AfterTeardown(k)
    /\ IF k = "process" /\ ~received
       THEN Raise("process", "UnexpectedCommandCountError")
       ELSE UNCHANGED raised
    /\ UNCHANGED <<engineVars, deviceVars, hubVars, faults, ids, depl, failedStartups, received>>

DeploymentStep(k) ==
    \/ StartupList(k) \/ StartupDelete(k) \/ StartupReadDeviceType(k)
    \/ StartupPrepare(k) \/ StartupDeploy(k) \/ StartupSleep(k)
    \/ TeardownList(k) \/ TeardownInstances(k) \/ TeardownDelete(k) \/ TeardownReturn(k)
=============================================================================
