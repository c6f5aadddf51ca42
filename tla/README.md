# A verification of snowflake-canary

snowflake-canary imitates a user of the SENERGY platform and reports through prometheus
metrics whether the platform works. Every `GET /metrics` answers with the metrics and starts
a test run, unless one is in progress. A run logs in, makes sure that its device exists, and
then does two tests at the same time: the connection test (hub, MQTT connection, published
values, a command process and an event process) and the metadata test (rename the device, see
the new name).

The code has no unit tests. What could be wrong with it is a matter of order, concurrency and
failure: what overlaps, what is left behind, what is read too soon, and whether an alarm means
what it says. That is what the modules here are about.

## Inventory

| Component | State | Operations | Works with |
|---|---|---|---|
| Process lifecycle (`main.go`, `pkg/start.go`) | context, WaitGroup `wg` | start, signal, exit | creates the canary and the api |
| Metrics API (`pkg/api/api.go`) | http server | listen, serve, `Shutdown()` | calls `ServeHTTP()` per scrape |
| Run gate (`pkg/canary/canary.go`) | `isRunning`, `isRunningMux`, `promHttpHandler` | `ServeHTTP()`, `running()`, `done()` | spawns `StartTests()` |
| Test run (`pkg/canary/test.go`) | per run: WaitGroup, token | `StartTests()`, `testDeviceConnection()`, `testMetadata()` | everything below |
| Session (`pkg/canary/auth.go`) | tokens | `login()`, `logout()` (5s timeout) | auth server |
| Connection (`pkg/canary/connector.go`) | `Conn`, callback of the subscription | connect, subscribe, publish, disconnect, `respond()`, the checks | MQTT broker, device repository, last values |
| Hub (`pkg/canary/hub.go`) | none | `ensureHub()`: list, create, update | device repository, device manager |
| Command process (`pkg/process`) | `receivedCommands` | `ProcessStartup()`, `ProcessTeardown()`, `NotifyCommand()` | process deployment, process engine |
| Event process (`pkg/events`) | none | `ProcessStartup()`, `ProcessTeardown()` | process deployment, process engine |
| Device and type (`pkg/devicemetadata/devicemeta.go`) | none | `EnsureDevice()`, `EnsureDeviceType()` | device repository, device manager |
| Metadata test (`pkg/devicemetadata/test.go`) | none | `TestMetadata()` | device repository, device manager |
| Metrics (`pkg/metrics`) | counters and gauges | `Inc`, `Set` | read by every scrape |
| Configuration (`pkg/configuration`) | `Config` | `Load()` | read once |

What is hard about them:

* Concurrency: scrapes, `StartTests()` goroutines, two test goroutines per run, MQTT callbacks
  and `respond()` goroutines. Only the flag `isRunning` and `receivedCommands` are protected;
  everything else relies on there being one run at a time.
* Failure: any call may fail, may take effect without an answer, or (on `http.DefaultClient`)
  may never come back. Early returns decide what is released and what is cleaned up.
* Time: the platform shows a change only some time after it was made; the code sleeps
  `guarantee_change_after` where it counts on having seen it.
* Ends: a signal or a crash ends the process in the middle of a run.

What makes each part correct: the gate lets one run in at a time and is given back; a test
never works with a session that is closed; a run cleans up what it and earlier runs have
deployed; a metric is raised because of something that went wrong, and if something went wrong
one is raised; the connection test comes to an end.

## Modules

| Module | Models | Variables and their counterparts |
|---|---|---|
| `RunGate` | what the comment on `running()` promises: ask, grant, refuse, release | `asking`, `holders` |
| `RunCourse` | the course of the runs as the parts of a run count on it: ensure the device, then both tests, each once, then the next run | `working` |
| `Canary` | lifecycle, http server, handler, gate, run and session | `main` and `server` (the two sides of the context), `promHttpHandler` (the words of the interface value that are set), `isRunning`, `pc[s]` (the goroutines of a scrape and its `StartTests()`), `wg[s]` and `tests[s]` (the WaitGroup of a run and the goroutines it should count), `sessions` (tokens in use), `hung` (calls never answered), `stops` |
| `CanaryProofs` | the theorems about `Canary` | |
| `Platform` | the services the connection test uses, from how it uses them (external) | `deployed`/`listed`, `subscribed`/`shown`, `hubs`/`listedHubs`: the truth and what is shown of it; `instance`, `commands`, `value`, `event`: what is under way; `connected`, `responses`, `orphans`: the MQTT session and the goroutines on it; `faults`: what went wrong |
| `DeploymentTest` | `ProcessStartup()`, `ProcessTeardown()` of `pkg/process` and `pkg/events`, for a kind `k` | `at` (where the goroutine is), `ids`, `depl` (local variables), `failedStartups` (`eventDeplErr`, `processErr`), `received` (`receivedCommands > 0`), `raised` (error metrics) |
| `ConnectionTest` | `testDeviceConnection()` with hub, connection, callbacks and checks; one run after the other | `start`: how the run found the platform |
| `ConnectionInvariant` | what holds at each place of the connection test; no part of the model | |
| `ConnectionLemmas`, `ConnectionStepProofs`, `ConnectionDeploymentProofs`, `ConnectionProofs` | the theorems about `ConnectionTest`: types and faults; the steps of `testDeviceConnection()`; those of the startups and teardowns; the rest and the theorems | |
| `DeviceMetadata` | `EnsureDevice()`, `EnsureDeviceType()`, both creates, `TestMetadata()`; one run after the other, any of them cut short | external: `types`/`listedTypes`, `devices`/`listedDevices`, `name`/`shownName`: the truth and what is shown of it, `typeOf`; the run: `at`, the local variables `dt` and `info`, `faults`, `raised`, `faulty` (how it found the platform) |
| `DeviceMetadataProofs` | the theorems about `DeviceMetadata` | |
| `DeploymentListing` | `ListCanaryProcessDeployments()`, one step per page, on a list that changes | external: `pos` and `total` (the list); the call: `at`, `offset`, `ids`, `twice` (an id was appended again); observed: `inserted`, `removed` since the first page |
| `DeploymentListingProofs` | the theorems about `DeploymentListing` | |
| `Configuration` | `configuration.Load()` and the guarantee in `canary.New()` | `file`, `env` (the inputs), `value`, `guarantee`, `left` (fields the loop has not come to), `reported` (variables printed as used), `at` |
| `MCCanary`, `MCConnectionTest` | instances for TLC: the symmetry of slots and of deployment ids | |

`ConnectionTest` EXTENDS `DeploymentTest`, which EXTENDS `Platform`. It refines two steps of
`Canary`, the start and the end of the test goroutine `"connection"`: that it comes to an end
(`TestEnds` of `ConnectionTest`) is what the fairness of `Canary` assumes, and that one run
follows the other is what `Canary` proves (`OneRunAtATime`, `FollowsCourse`). The metadata test runs beside it
and shares the device, of which it changes only the name; nothing in the connection test reads
the name, so it is left out there.

`DeviceMetadata` stands to `Canary` in the same way: its `EnsureDevice()` part is the step
`"ensureDevice"` of `Canary`, its `TestMetadata()` part the test goroutine `"metadata"`, and
`RunEnds` says that both come back, which `Canary` assumes. That the two modules mean the same
course of runs is checked and proved: both implement `RunCourse`, `Canary` with its slots,
WaitGroups and sessions, `DeviceMetadata` with the places of its run. `DeploymentListing` opens up one
step of `DeploymentTest`: there a listing is a snapshot of what is listed, and `Snapshot` says
that the loop over the pages gives just that while the list stays as it is. While it changes,
`Complete` and `NoDuplicates` say what can still be relied on.

An operator whose comment begins with "Mutant:" is no part of the model. It is a plausible bug,
kept beside the definition it replaces: each property is known to fail under one of them.

### How the code is translated

*Canary.* A slot is a scrape from its arrival to the end of its `StartTests()` goroutine.
`running()` and `done()` are one step each, being critical sections. Each early return of
`StartTests()` is a step to the first deferred call that is left to do. `wg.Add(1)` and the go
statement are one step, since nobody else uses that WaitGroup before `wg.Wait()`. The end of
the process throws all of its memory away.

*The metrics handler.* `ServeHTTP()` looks whether `promHttpHandler` is nil and assigns it
without a lock. A Go interface value is two words, stored one after the other, and it is nil as
long as the first is; two requests that come together before there is a handler are a data
race. `FindHandler` therefore sees whatever words are stored at that time, `StoreHandler` and
`HandlerStored` are the two stores, and `ServePanics` is the call of a handler without data:
the http server recovers the panic, the request gets no answer and `StartTests()` is not
reached.

*Device and metadata.* Each request is one step with the outcomes below. With an error and
without, both creates sleep before they return. The name that a run gives is made of the
current time, so it differs from whatever the device had: at the start of a run every name is
`"old"`. A call that is under way when the process ends has had its effect or has not. It is
not followed by a later effect in the next process, which sleeps five seconds before it does
anything (`main.go:33`).

*The listing.* The list is the place of each deployment in it. Between two pages deployments
are inserted anywhere, since the request asks for no order, and removed. A page is what lies
between `offset` and `offset + Limit`; the service is taken to honour `maxResults`.

*Configuration.* The fields of `Config` are told apart by kind, by whether they are secret and
by whether they are parsed later; one field of each sort is kept. The branches for kinds that
`Config` does not use are never taken and left out, as is the making of a variable name.

*Deployment test.* Each request is one step with three outcomes: it is answered; it fails
without an effect (`"failed"`); it has its effect and the answer is lost (`"unanswered"`). The
loops over `ids` are one step for each delete. `time.Sleep` waits for the platform to be
settled; it may be too short, which is a fault (`"late"`).

*Online state.* The device is online by subscription, says the description of the command
service (`devicemeta.go:174`): the platform shows it online while the broker has the canary's
subscription, and a connection alone is not enough. A run whose subscription has failed, or was
lost when paho reconnected, therefore finds its device offline at `connector.go:52`. A subscription
that is lost only after the sleep may or may not be seen by the check that follows.

*Events.* An event starts an instance of every event process that is deployed. A deployment that
has one already then has `"several"`, which the teardown takes for an error, as it does a count of
instances that is not one.

*Faults and metrics.* `faults` is what went wrong in this run, `raised` is what the run has
reported. `Explains` says which fault explains which metric. `UncategorizedErr` is raised in
about a dozen places, the others in one or two.

## Runs

| Run | Question | Bounds | Size |
|---|---|---|---|
| `canary_safety` | Do runs overlap, do tests outlive their session, do flag and WaitGroups implement the gate and the course of runs, when does a request go unserved? | 4 slots, 2 ends of the process, calls may hang | 8 423 states (modulo symmetry) |
| `canary_liveness` | Does each run end, do scrapes keep starting runs? | 3 slots, 1 end, no hanging calls | 6 105 states |
| `canary_exit` | Does an orderly exit wait for the run in progress? It does not. | 2 slots, 1 end | violation |
| `canary_race` | Is every scrape served, and does it start a run? The first ones of a process may not be. | 2 slots | violation |
| `connection_early` | Are alarms right and is everything cleaned up, when runs may follow each other at once; does the invariant of the proofs hold? | 1 fault per run, any number of runs, 2 ids, 2 hubs | 522 367 states |
| `connection_settled` | The same for several faults in a run, and where deleting twice is an error | 3 faults per run, any number of runs | 1 624 783 states |
| `connection_liveness` | Does the connection test end? | 1 fault per run | 31 578 states |
| `connection_silent` | Is every fault reported? It is not. | 1 fault | violation |
| `connection_data` | Is `UnexpectedDeviceDataErr` about data? It is not. | 1 fault | violation |
| `metadata` | Is a device or a type ever created twice, or a device without its type; are alarms right; does the run end? | 3 faults per run, any number of runs, 2 types, 2 devices | 8 129 states |
| `listing` | What does a listing by pages find on a list that changes? | 4 deployments, 2 of the canary, pages of 2 | 40 692 states |
| `config_env` | Does every variable that is reported as used take effect? It does not. | one field of each sort | violation |

### Bounds and why they are enough

* `Slots`: one run, one goroutine about to be refused or granted, one being served and one
  more. The proofs hold for any finite set.
* `MaxStops`: one end of each sort. The proofs hold for any number.
* `Ids`: one deployment that is left over and one that is new, of each kind. A run that starts
  before the platform has settled needs a free id (`IdsLeft`); there is always a later start
  that needs none.
* `MaxHubs`: two is one too many.
* `event`: the values of two runs that are on their way at once are one event. That takes a run
  that starts early after a faulty one, of which the properties say nothing.
* `instance`: two instances of a deployment and more are `"several"`.
* `MaxFaults` bounds the faults of one run, not of a history of runs. `connection_early` was
  also run with two faults in each run (19.1 million states, the same result); with one it
  takes seconds. `Inv` of `ConnectionInvariant` was also checked with the constants of
  `connection_settled`. The proofs hold for any finite set of ids and any `MaxHubs` and
  `MaxFaults`.
* `DeviceMetadata`: two devices and two types are one too many of each, and `IdsLeft` works as
  it does for `Ids`. Three faults in one run are enough to lose an answer, break the guarantee
  and be stopped. The proofs hold for any sets of ids and any number of faults.
* `DeploymentListing`: with four deployments and pages of two the list ends inside a page, with
  a page, and after two. The code's limit is 200; the proofs hold for any. Five deployments,
  three of the canary, were run once as well (762 820 states, the same result).
* `EarlyStarts = FALSE` lets a run start only when the platform has settled, which is what a
  long scrape interval does, and pays for three faults in each run.

### What the properties say

* `OneRunAtATime`, `TestsHoldSession`, `Inv`: see Proofs.
* `ImplementsGate`: `Canary` implements `RunGate`. In particular a scrape is refused only while
  another run is between `running()` and `done()`; a flag that stays set after its run would
  refuse with no holder.
* `FollowsCourse`: `Canary` and `DeviceMetadata` implement `RunCourse`. In `Canary` nothing of
  an earlier run is at work when `EnsureDevice()` is called, no test works without a device, and
  each works once; in `DeviceMetadata` the run goes from `EnsureDevice()` to `TestMetadata()`
  only once and never back.
* `RunsEnd`, `ScrapesKeepStartingTests`: under the fairness below.
* `NoFalseAlarm`: a metric that is raised is explained by a fault of the same run, whatever
  earlier runs have left. This is about the order in `test.go`, the cleanup of the startups and
  the places of the sleeps.
* `FaultsAreReported`: a run in which something went wrong raises a metric. This is about the
  early returns: most faults are noticed only later by what is missing. Two errors that no
  metric counts are excepted here and shown in `connection_silent`. Harmless are views that were
  late and not looked at, a subscription lost after the sleep (`SpentSubscription`), and one lost
  before the end of a sleep that was too short to show it. One lost earlier must be reported, if
  by nothing else then by the device that is found offline.
* `DeploysOnlyOne`, `CreatesHubOnce`: deployments and hubs do not pile up.
* `ReceivesOwnCommand`: `receivedCommands` is one counter for all runs, and nothing in a command
  says which run it is of; still what is counted is the one command of this run's deployment, and
  it comes in the sleep before the checks, unless a sleep was too short.
* `CleanAfterRun`: a run without faults leaves no deployment, connection, command or answer,
  whatever it has found.
* `TestEnds`: the connection test ends.
* `FailsOnlyInTheRace`: a request goes unserved (by a live process) only while another one is
  storing the first handler; after that no assignment does harm, although each of the racing
  requests assigns a handler of its own. `EveryScrapeIsServed` is the same without the
  exception, and fails.
* `CreatesOnce`: there is never a second device or type, although the repository lags, the
  answer of a create may be lost and `ListDevices` is asked for one device only. It rests on
  the sleeps inside the creates, with an error too; it makes an exception for a run that starts
  at once after one that was stopped or waited in vain (`faulty`).
* `TypeShowsBeforeDevice`: a device is created with a type that shows already, or that should
  by the guarantee.
* `NoFalseAlarm` and `FaultsAreReported` of `DeviceMetadata`: as for the connection test, but
  with no exception for what an earlier run has left. A put that failed without effect is
  counted twice, one whose answer was lost once: `Explains` says so.
* `RunEnds`, `ListingEnds`: the run comes to its end, and so does the loop over the pages.
* `Complete`: a deployment of the canary that was there from the first page to the last is
  found, unless something has left the list. `NoDuplicates`: none is found twice, unless
  something has come into it. Other deployments of the user may go at any
  time, and a delete of the canary's own may show late; with more than one page that can hide
  a deployment of the canary until the next listing.

A run that starts before the platform has settled can suffer from what happened before it.
The model says when: after a stop, a sleep that was too short, or a deployment whose answer was
lost (`Lingers`), and the properties make an exception for such a run (`start = "faulty"`).
There is one more case. `ProcessTeardown()` of the event process deletes and does not sleep,
and the next run lists first of all: it may delete the same deployment again. The code is right
if that is not an error (`RedeleteFails = FALSE`, checked in `connection_early`); where it is
one, a scrape soon after the end of a run gives a false alarm, and `NoFalseAlarm` excepts it
(`Accountable`).

### Fairness

* `Canary`: weak fairness of each `StartTests()` goroutine and each test goroutine: the Go
  scheduler runs what can run, and calls come back. Two calls have a timeout, the others do
  not, so this is an assumption about the platform: with `MayHang = TRUE` a call that is never
  answered keeps the gate closed for good, and `RunsEnd` and `ScrapesKeepStartingTests` fail.
  Nothing is assumed of scrapes, signals and restarts.
* `DeviceMetadata`: weak fairness of the run and of the platform, for the same reason. Nothing
  is assumed of new runs and of stops.
* `DeploymentListing`: weak fairness of `NextPage`: the caller goes on and requests come back.
  The list may go on changing, even with every step.
* `ConnectionTest`: weak fairness of the goroutine, of the callbacks, and of the platform, which
  brings up to date what it shows. Nothing is assumed of new runs.

### Findings

1. `main.go:60` says that the process gives "go routines time for cleanup and last messages".
   No goroutine is ever added to that WaitGroup, so a signal ends the process in the middle of
   a run (`canary_exit`).
2. `process.go:89`: a device type without the command service makes `ProcessStartup()` return
   an error that nobody counts or logs; the command test is skipped and the metrics say that
   all is well (`connection_silent`). For the event process (`events.go:82`) the check of the
   values still notices.
3. `connector.go:251`: a last-value request that fails is counted twice, the second time as
   unexpected device data (`connection_data`).
4. `canary.go:91`: `ServeHTTP()` creates the handler without a lock. A request that sees half of
   it panics, so it gets no metrics and starts no tests (`canary_race`).
5. `config.go:121`: an environment variable for `CanaryCmdCharacteristicId2DefaultValue` is
   printed as used and then ignored, because no branch sets a field of kind interface
   (`config_env`).

## Proofs

`CanaryProofs` proves about `Canary`, for any finite set of slots, any `MaxStops`, with and
without hanging calls:

| Theorem | States |
|---|---|
| `InvHolds` | `Spec => []Inv` |
| `TypeCorrect` | `Spec => []TypeOK` |
| `OneRun` | `Spec => []OneRunAtATime` |
| `SessionsOutliveTests` | `Spec => []TestsHoldSession` |
| `RaceIsForTheFirst` | `Spec => FailsOnlyInTheRace` |
| `FlagImplementsGate` | `Spec => ImplementsGate` |
| `RunsFollowCourse` | `Spec => FollowsCourse` |

`OneRunAtATime` is not inductive. That no test of an earlier run is alive when the next run is
granted follows from a chain: the flag is set exactly while some goroutine is between
`running()` and `done()` (`FlagMatchesRun`), there is at most one such goroutine, a test
goroutine is alive only while its run is at `testMetadata()` or at `wg.Wait()`, and its
WaitGroup is the number of its tests (`TestsAreCounted`), so that `wg.Wait()` passes only when
there is none. `SessionMatchesRun` adds that the session lasts from login to logout. `Inv` is
the conjunction, with the type invariant and the fact that a process that has ended runs
nothing (`LifeMatchesRuns`); it is inductive, and TLC checks it in `canary_safety`.

`RaceIsForTheFirst` needs that the handler is half stored only while some request is between
the two stores (`HandlerMatchesRequests`, part of `Inv`), and that nothing takes a word back
but the end of the process.

The refinement is proved from `Inv` step by step: a refusal maps to `Refuse` because the flag
is set only if there is a holder, a grant to `Grant` because it is clear only if there is none.
The course of runs is proved in the same way: what is at work belongs to the one slot that is in
a run (`OnlyRunWorks`), so that every step can be looked at for that slot alone; the login maps
to `Begin` because a run that has logged in has no tests yet and nobody else has any.

The assumptions are those of `Canary`: `Slots` is finite, `MayHang` is a Boolean, `MaxStops` is
a natural number. The lemma `TwoTests` is from the theorems about finite sets of the library.

`DeviceMetadataProofs` proves about `DeviceMetadata`, for any sets of ids and any `MaxFaults`:

| Theorem | States |
|---|---|
| `InvHolds` | `Spec => []Inv` |
| `TypeCorrect` | `Spec => []TypeOK` |
| `NoAlarmIsFalse` | `Spec => []NoFalseAlarm` |
| `NoFaultIsSilent` | `Spec => []FaultsAreReported` |
| `NeverCreatesTwice` | `Spec => CreatesOnce` |
| `TypeIsKnown` | `Spec => TypeShowsBeforeDevice` |
| `RunsFollowCourse` | `Spec => FollowsCourse` |

None of the invariants is inductive. That a run which creates a device has found none is no guarantee
that there is none: what counts is that a list is incomplete only while somebody sleeps for it,
or after a fault that the next run is told of (`ListsAreComplete`), so that a run which goes to
create has a reason to (`NothingToFind`). That an alarm is right when the names are compared
needs the way of the new name from the put to the repository, with a fault for each place where
it got stuck (`NameIsFollowed`), and that the device the run works with is one that exists
(`DeviceIsKnown`). That no fault is silent needs that each failed call has been counted and that
a lost rename will be (`FaultsAreFollowed`). `Inv` is their conjunction; the lemmas
`...KeepsInv` take one step of the run each, and `AlarmsStayExplained` is shared by all of them.
The assumption is that `None` is not an id (`IdsAssumption`).

`DeploymentListingProofs` proves about `DeploymentListing`, for any set of deployments and any
limit greater than zero:

| Theorem | States |
|---|---|
| `InvHolds` | `Spec => []Inv` |
| `TypeCorrect` | `Spec => []TypeOK` |
| `ListingIsComplete` | `Spec => []Complete` |
| `ListingRepeatsNothing` | `Spec => []NoDuplicates` |
| `QuietListingIsSnapshot` | `Spec => []Snapshot` |

`PagesMatchList` relates the pages read to the list as it is now: while nothing was removed,
what lies before `offset` and was there at first has been found; while nothing was inserted,
what has been found lies before `offset`. An insertion moves places up and so keeps the first,
a removal moves them down and so keeps the second. At the last page `offset + Limit` is beyond
every place, which gives `Complete`. The set of deployments need not be finite.

`ConnectionProofs` proves about `ConnectionTest`, with `DeploymentTest` and `Platform`, for any
finite set of ids that is not empty, any `MaxHubs` greater than zero, any `MaxFaults`, whether or
not runs may start early and whether or not deleting twice is an error:

| Theorem | States |
|---|---|
| `InvHolds` | `Spec => []Inv` |
| `TypeCorrect` | `Spec => []TypeOK` |
| `NoAlarmIsFalse` | `Spec => []NoFalseAlarm` |
| `NoFaultIsSilent` | `Spec => []FaultsAreReported` |
| `LeavesNothing` | `Spec => []CleanAfterRun` |
| `NeverDeploysTwo` | `Spec => DeploysOnlyOne` |
| `NeverCreatesTwoHubs` | `Spec => CreatesHubOnce` |
| `ReceivesOnlyOwn` | `Spec => ReceivesOwnCommand` |

An alarm of this test is about what was done many steps before, in other places and by other
goroutines, so none of these is inductive. `Inv` (in `ConnectionInvariant`) follows each thing
through the course of a run and says, for the places of the code, what has become of it:

* `DeploymentsAreKnown`: until the startup of a kind has listed, all that is deployed shows; its
  deletes then leave nothing, its create leaves one, its sleep makes that one show, unless the
  sleep was too short. This gives `DeploysOnlyOne`, and that the teardown has one deployment to
  count instances of. Without its first part the leftovers of an earlier run could still turn
  up. `DeletesAreOfDeployed` is why a run on a settled platform never deletes twice.
* `HubShows`: every create and update of the hub is followed by a sleep, with an error too, so
  that the next listing is complete, which gives `CreatesHubOnce`.
* `CommandIsFollowed`, `AnswerIsFollowed`: there is one command, of the deployment just started;
  it is under way, has been received, or is lost, and it is not under way after the sleep unless
  that was too short. Its instance is running until it is answered or cannot be any more. This is
  what makes the alarms about missing commands and incomplete instances right.
* `EventIsFollowed`, `ValueIsFollowed`: the same for the event and the published values.
* `SubscriptionIsFollowed`, `ConnectionShows`: once the run has come to subscribe, there is a
  subscription or a fault that tells why there is none, and what was lost does not come back; the
  device shows online after the sleep if there is one, and offline before there can be one and
  after the last sleep. This is what makes both alarms about the online state right, and that a
  lost subscription is noticed at the check.
* `ConnectionIsOpen`, `InstancesAreDeployed`, `StartupsAreDone`: what belongs to what. No
  subscription and no answer without a connection, no instance and no command without its
  deployment, no teardown after a startup that failed.
* `IsNoticed`: each fault that is not harmless has raised a metric, or the run is still before
  the place where it will. Every early return needs this.
* `CleanupIsDone`: a deployment that is left behind at the end has a fault to explain it.

Most parts speak of runs that are not `"faulty"`, as the properties do. Two parts are there only
because the proof would not go through without them: that the error path of the hub sleeps only
after a metric was raised (in `IsNoticed`), and that a run which was cut stays at its end
(`Stopped => at = End`).

There is one lemma for each action (`...KeepsInv`), and under it one step for each part of `Inv`.
`Slept` says once what every sleep does to the platform, `ErrorOrNone` and `LostOrNone` what the
outcomes of a call do to `faults` and `raised`, `Removal` what a delete does. The assumptions are
those of the modules: `IdsAssumption`, `MaxHubsAssumption`, `MaxFaultsAssumption`,
`RedeleteFailsAssumption`, `EarlyStartsAssumption`.

Model-checked only: everything under fairness (`RunsEnd`, `ScrapesKeepStartingTests`,
`TestEnds`, `RunEnds`, `ListingEnds`), which is out of the prover's reach, and the five
violations. Every invariant and every action property of a passing run is proved.

## Not modelled

* `pkg/metrics` and the model types have no behaviour: counters, gauges and JSON structures.
  Which error counter is raised where is part of `ConnectionTest` and `DeviceMetadata`.
  Latencies and durations are not modelled.
* The content of messages, BPMN models and JSON: a command is as expected or not, an answer
  has what is looked for or not.
* Failures of the code with itself, such as JSON encoding of its own structures.
* The expiry of the access token: it depends on durations. Its effect, calls that fail, is there.
* Changes that somebody else makes to the canary's device between the read and the put of
  `TestMetadata()`: no code here makes one, and nothing says what should become of it.
* A create that was accepted and never shows. The repository is taken to lag, not to lose
  devices; a lost rename is modelled, since the metadata test is there to notice it.
* A deployment service that returns a page shorter than asked for although there is more, and
  the cut at 20 instances (`requests.go:182`): both depend on data outside the code.
* The pattern that makes a variable name from a field name.

## Plan

What could come next:

1. A course for the connection test as well: that `ConnectionTest`, from `StartRun` to its end,
   implements the part of `RunCourse` that is about the test `"connection"`. It has no
   `EnsureDevice()`, so that needs a form of `RunCourse` which begins with the tests.
2. That the step of `DeploymentTest` which lists is what `DeploymentListing` returns, as a
   refinement; now `Snapshot` says so about the result.
