-------------------------------- MODULE Canary --------------------------------
(***************************************************************************)
(* The canary process: main.go, pkg/start.go, pkg/api and the part of      *)
(* pkg/canary that decides when a test run starts, what it holds while it  *)
(* lasts and when it is over (canary.go, test.go, auth.go).                *)
(*                                                                         *)
(* Every GET /metrics is served by a goroutine of the http server, which   *)
(* spawns a goroutine of StartTests() as its last act.  A slot stands for  *)
(* that pair, from the arrival of the request to the end of the StartTests *)
(* goroutine, and is used again afterwards.  A run spawns two further      *)
(* goroutines, one per test, and waits for them on a WaitGroup of its own. *)
(***************************************************************************)
EXTENDS Integers, FiniteSets

CONSTANTS
    Slots,          \* scrapes (and their StartTests goroutines) alive at once
    MayHang,        \* whether a platform service may accept a call and never answer
    MaxStops        \* bound: how often the process may be stopped or crash

ASSUME SlotsAssumption == IsFiniteSet(Slots)
ASSUME MayHangAssumption == MayHang \in BOOLEAN
ASSUME MaxStopsAssumption == MaxStops \in Nat

VARIABLES
    main,           \* the main goroutine: "up", "cancelled", "exited" or "crashed"
    server,         \* the http server: "new", "listening" or "closed"
    promHttpHandler,\* Canary.promHttpHandler: which words of the interface value are set
    isRunning,      \* Canary.isRunning, only touched under isRunningMux
    pc,             \* pc[s]: where the goroutine of slot s is
    wg,             \* wg[s]: the counter of the WaitGroup of the run of slot s
    tests,          \* tests[s]: the test goroutines alive of the run of slot s
    sessions,       \* slots holding a token the auth server accepts
    hung,           \* hung[s]: the callers of slot s whose call is never answered
    stops           \* how often the process has ended (bounded by MaxStops)

vars == <<main, server, promHttpHandler, isRunning, pc, wg, tests, sessions, hung, stops>>

Tests == {"connection", "metadata"}

(* The callers of http.DefaultClient, which has no timeout; login() and *)
(* logout() use a client with a timeout of 5s and always come back.      *)
Callers == Tests \cup {"ensureDevice"}

(* The places of a StartTests goroutine between running() and done(). *)
InRun == {"login", "ensureDevice", "testDeviceConnection", "testMetadata",
          "wait", "logout", "done"}

(* The places of a request in ServeHTTP(). *)
InHandler == {"serving", "creating", "storing", "calling"}

Phases == {"idle", "started"} \cup InHandler \cup InRun

(* An interface value is two words, stored one after the other; it is nil as  *)
(* long as the first is.                                                      *)
Words == {"type", "data"}

(* The slots whose run, or some test goroutine of it, is still at work. *)
Busy == {s \in Slots : pc[s] \in InRun \/ tests[s] # {}}

-------------------------------------------------------------------------------
(* A process that has just been started: New() leaves isRunning unset, main *)
(* waits for the end of its context, the listener goroutine is not there yet. *)
NewProcess ==
    /\ server' = "new"
    /\ promHttpHandler' = {}
    /\ isRunning' = FALSE
    /\ pc' = [s \in Slots |-> "idle"]
    /\ wg' = [s \in Slots |-> 0]
    /\ tests' = [s \in Slots |-> {}]
    /\ sessions' = {}
    /\ hung' = [s \in Slots |-> {}]

Init ==
    /\ main = "up"
    /\ server = "new"
    /\ promHttpHandler = {}
    /\ isRunning = FALSE
    /\ pc = [s \in Slots |-> "idle"]
    /\ wg = [s \in Slots |-> 0]
    /\ tests = [s \in Slots |-> {}]
    /\ sessions = {}
    /\ hung = [s \in Slots |-> {}]
    /\ stops = 0

(* The slot's goroutine moves from one place to the next. *)
Goto(s, place) == pc' = [pc EXCEPT ![s] = place]

Alive == main \in {"up", "cancelled"}

-------------------------------------------------------------------------------
(* The http server. *)

(* ListenAndServe() runs in a goroutine of its own, so it may also come after *)
(* the signal; once Shutdown() was called it returns ErrServerClosed instead. *)
Listen ==
    /\ Alive
    /\ server = "new"
    /\ server' = "listening"
    /\ UNCHANGED <<main, promHttpHandler, isRunning, pc, wg, tests, sessions, hung, stops>>

(* A scrape arrives and gets a handler goroutine. *)
Scrape(s) ==
    /\ server = "listening"
    /\ pc[s] = "idle"
    /\ Goto(s, "serving")
    /\ UNCHANGED <<main, server, promHttpHandler, isRunning, wg, tests, sessions, hung, stops>>

-------------------------------------------------------------------------------
(* ServeHTTP(), which every request runs in a goroutine of its own. *)

(* if this.promHttpHandler == nil, with no lock: only the type word counts. *)
FindHandler(s) ==
    /\ pc[s] = "serving"
    /\ Goto(s, IF "type" \in promHttpHandler THEN "calling" ELSE "creating")
    /\ UNCHANGED <<main, server, promHttpHandler, isRunning, wg, tests, sessions, hung, stops>>

(* The assignment, first word.  Which one that is is up to the build.  All    *)
(* handlers are of one type and read one registry, so a handler that was      *)
(* already there stays as good as it was.                                     *)
StoreHandler(s) ==
    /\ pc[s] = "creating"
    /\ \E w \in Words : promHttpHandler' = promHttpHandler \cup {w}
    /\ Goto(s, "storing")
    /\ UNCHANGED <<main, server, isRunning, wg, tests, sessions, hung, stops>>

(* Mutant: the handler is never completed, as if only its type were assigned. *)
StoreHandlerTypeOnly(s) ==
    /\ pc[s] = "storing"
    /\ promHttpHandler' = promHttpHandler \cup {"type"}
    /\ Goto(s, "calling")
    /\ UNCHANGED <<main, server, isRunning, wg, tests, sessions, hung, stops>>

(* The assignment, the other word. *)
HandlerStored(s) ==
    /\ pc[s] = "storing"
    /\ promHttpHandler' = Words
    /\ Goto(s, "calling")
    /\ UNCHANGED <<main, server, isRunning, wg, tests, sessions, hung, stops>>

(* The call of a handler whose data word is still nil panics: net/http        *)
(* recovers, the request has no answer and starts no tests.                   *)
ServePanics(s) ==
    /\ pc[s] = "calling"
    /\ promHttpHandler # Words
    /\ Goto(s, "idle")
    /\ UNCHANGED <<main, server, promHttpHandler, isRunning, wg, tests, sessions, hung, stops>>

(* The handler writes the metrics, then StartTests() spawns. *)
StartTests(s) ==
    /\ pc[s] = "calling"
    /\ promHttpHandler = Words
    /\ Goto(s, "started")
    /\ UNCHANGED <<main, server, promHttpHandler, isRunning, wg, tests, sessions, hung, stops>>

ServeHTTP(s) ==
    FindHandler(s) \/ StoreHandler(s) \/ HandlerStored(s) \/ ServePanics(s) \/ StartTests(s)

-------------------------------------------------------------------------------
(* The gate. *)

(* running(), one critical section: refuse if the flag is set, else set it. *)
Running(s) ==
    /\ pc[s] = "started"
    /\ Goto(s, IF isRunning THEN "idle" ELSE "login")
    /\ isRunning' = TRUE
    /\ UNCHANGED <<main, server, promHttpHandler, wg, tests, sessions, hung, stops>>

(* Mutant: the callback of the first holder forgets the flag. *)
DoneKeepsFlag(s) ==
    /\ pc[s] = "done"
    /\ Goto(s, "idle")
    /\ UNCHANGED <<main, server, promHttpHandler, isRunning, wg, tests, sessions, hung, stops>>

(* The deferred done(). *)
Done(s) ==
    /\ pc[s] = "done"
    /\ isRunning' = FALSE
    /\ Goto(s, "idle")
    /\ UNCHANGED <<main, server, promHttpHandler, wg, tests, sessions, hung, stops>>

-------------------------------------------------------------------------------
(* The body of a run. *)

Login(s) ==
    /\ pc[s] = "login"
    /\ sessions' = sessions \cup {s}
    /\ Goto(s, "ensureDevice")
    /\ UNCHANGED <<main, server, promHttpHandler, isRunning, wg, tests, hung, stops>>

(* Mutant: done() is deferred only after the login. *)
LoginFailsUngated(s) ==
    /\ pc[s] = "login"
    /\ Goto(s, "idle")
    /\ UNCHANGED <<main, server, promHttpHandler, isRunning, wg, tests, sessions, hung, stops>>

(* login() failed: the run returns before it has deferred the logout. *)
LoginFails(s) ==
    /\ pc[s] = "login"
    /\ Goto(s, "done")
    /\ UNCHANGED <<main, server, promHttpHandler, isRunning, wg, tests, sessions, hung, stops>>

(* Mutant: logout() is deferred only after EnsureDevice(). *)
EnsureDeviceKeepsSession(s) ==
    /\ pc[s] = "ensureDevice"
    /\ "ensureDevice" \notin hung[s]
    /\ Goto(s, "testDeviceConnection") \/ Goto(s, "done")
    /\ UNCHANGED <<main, server, promHttpHandler, isRunning, wg, tests, sessions, hung, stops>>

EnsureDevice(s) ==
    /\ pc[s] = "ensureDevice"
    /\ "ensureDevice" \notin hung[s]
    /\ \/ Goto(s, "testDeviceConnection")
       \/ Goto(s, "logout")             \* err # nil: only the deferred calls are left
    /\ UNCHANGED <<main, server, promHttpHandler, isRunning, wg, tests, sessions, hung, stops>>

(* Mutant: the Add is missing. *)
SpawnUncounted(s, t) ==
    /\ tests' = [tests EXCEPT ![s] = @ \cup {t}]
    /\ UNCHANGED wg

(* wg.Add(1) in the caller, then the go statement. *)
Spawn(s, t) ==
    /\ wg' = [wg EXCEPT ![s] = @ + 1]
    /\ tests' = [tests EXCEPT ![s] = @ \cup {t}]

TestDeviceConnection(s) ==
    /\ pc[s] = "testDeviceConnection"
    /\ Spawn(s, "connection")
    /\ Goto(s, "testMetadata")
    /\ UNCHANGED <<main, server, promHttpHandler, isRunning, sessions, hung, stops>>

(* Mutant: StartTests() does not wait for its tests. *)
TestMetadataLast(s) ==
    /\ pc[s] = "testMetadata"
    /\ Spawn(s, "metadata")
    /\ Goto(s, "logout")
    /\ UNCHANGED <<main, server, promHttpHandler, isRunning, sessions, hung, stops>>

TestMetadata(s) ==
    /\ pc[s] = "testMetadata"
    /\ Spawn(s, "metadata")
    /\ Goto(s, "wait")
    /\ UNCHANGED <<main, server, promHttpHandler, isRunning, sessions, hung, stops>>

(* Mutant: an early return without wg.Done(). *)
TestEndsUncounted(s, t) ==
    /\ t \in tests[s] \ hung[s]
    /\ tests' = [tests EXCEPT ![s] = @ \ {t}]
    /\ UNCHANGED <<main, server, promHttpHandler, isRunning, pc, wg, sessions, hung, stops>>

(* A test goroutine returns, on any of its paths, through defer wg.Done(). *)
TestEnds(s, t) ==
    /\ t \in tests[s] \ hung[s]
    /\ tests' = [tests EXCEPT ![s] = @ \ {t}]
    /\ wg' = [wg EXCEPT ![s] = @ - 1]
    /\ UNCHANGED <<main, server, promHttpHandler, isRunning, pc, sessions, hung, stops>>

(* Mutant: Wait only waits for the first test to finish. *)
WaitForOne(s) ==
    /\ pc[s] = "wait"
    /\ wg[s] < Cardinality(Tests)
    /\ Goto(s, "logout")
    /\ UNCHANGED <<main, server, promHttpHandler, isRunning, wg, tests, sessions, hung, stops>>

Wait(s) ==
    /\ pc[s] = "wait"
    /\ wg[s] = 0
    /\ Goto(s, "logout")
    /\ UNCHANGED <<main, server, promHttpHandler, isRunning, wg, tests, sessions, hung, stops>>

(* The deferred logout(): its error is dropped, so whether or not the auth *)
(* server heard of it, no goroutine has the token any more.                *)
Logout(s) ==
    /\ pc[s] = "logout"
    /\ sessions' = sessions \ {s}
    /\ Goto(s, "done")
    /\ UNCHANGED <<main, server, promHttpHandler, isRunning, wg, tests, hung, stops>>

(* A call without a timeout is accepted and never answered. *)
Hang(s, c) ==
    /\ MayHang
    /\ \/ c = "ensureDevice" /\ pc[s] = "ensureDevice"
       \/ c \in tests[s]
    /\ hung' = [hung EXCEPT ![s] = @ \cup {c}]
    /\ UNCHANGED <<main, server, promHttpHandler, isRunning, pc, wg, tests, sessions, stops>>

-------------------------------------------------------------------------------
(* The life of the process. *)

(* The signal goroutine of main() cancels the context. *)
Signal ==
    /\ main = "up"
    /\ stops < MaxStops
    /\ main' = "cancelled"
    /\ UNCHANGED <<server, promHttpHandler, isRunning, pc, wg, tests, sessions, hung, stops>>

(* The api's goroutine hears of the end of the context: server.Shutdown(). *)
Shutdown ==
    /\ main = "cancelled"
    /\ server # "closed"
    /\ server' = "closed"
    /\ UNCHANGED <<main, promHttpHandler, isRunning, pc, wg, tests, sessions, hung, stops>>

(* main() returns from wg.Wait(): nobody ever called Add on that WaitGroup, *)
(* so it never waits, and the process ends with whatever is still running.  *)
Exit ==
    /\ main = "cancelled"
    /\ main' = "exited"
    /\ stops' = stops + 1
    /\ NewProcess

(* A kill, or the log.Fatal of a listener that fails. *)
Crash ==
    /\ Alive
    /\ stops < MaxStops
    /\ main' = "crashed"
    /\ stops' = stops + 1
    /\ NewProcess

(* The container is started again. *)
Restart ==
    /\ ~Alive
    /\ main' = "up"
    /\ UNCHANGED <<server, promHttpHandler, isRunning, pc, wg, tests, sessions, hung, stops>>

-------------------------------------------------------------------------------
(* What the goroutine of slot s does of itself once a scrape woke it. *)
GoroutineStep(s) ==
    \/ ServeHTTP(s)
    \/ Running(s) \/ Login(s) \/ LoginFails(s) \/ EnsureDevice(s)
    \/ TestDeviceConnection(s) \/ TestMetadata(s)
    \/ Wait(s) \/ Logout(s) \/ Done(s)

Lifecycle == Listen \/ Signal \/ Shutdown \/ Exit \/ Crash \/ Restart

Next ==
    \/ Lifecycle
    \/ \E s \in Slots : Scrape(s) \/ GoroutineStep(s)
    \/ \E s \in Slots, t \in Tests : TestEnds(s, t)
    \/ \E s \in Slots, c \in Callers : Hang(s, c)

Spec == Init /\ [][Next]_vars

(* The Go scheduler runs every goroutine that can run; every call but a hung *)
(* one returns.  Nobody promises scrapes, signals or restarts.               *)
Fairness ==
    /\ \A s \in Slots : WF_vars(GoroutineStep(s))
    /\ \A s \in Slots, t \in Tests : WF_vars(TestEnds(s, t))

FairSpec == Spec /\ Fairness

-------------------------------------------------------------------------------
TypeOK ==
    /\ main \in {"up", "cancelled", "exited", "crashed"}
    /\ server \in {"new", "listening", "closed"}
    /\ promHttpHandler \subseteq Words
    /\ isRunning \in BOOLEAN
    /\ pc \in [Slots -> Phases]
    /\ wg \in [Slots -> 0 .. Cardinality(Tests)]
    /\ tests \in [Slots -> SUBSET Tests]
    /\ sessions \subseteq Slots
    /\ hung \in [Slots -> SUBSET Callers]
    /\ stops \in 0 .. MaxStops

(* One test run at a time, counting the test goroutines it has spawned: no   *)
(* run may start while a goroutine of an earlier one still uses the device,  *)
(* the deployments and the MQTT client id they share (canary.go running(),   *)
(* test.go defer done() and wg.Wait()).                                      *)
OneRunAtATime == \A a, b \in Busy : a = b

(* No test goroutine outlives the session whose token it was given: logout() *)
(* is deferred before the tests are spawned and comes after wg.Wait().       *)
TestsHoldSession == \A s \in Slots : tests[s] # {} => s \in sessions

(* The flag is the run: it is set exactly while some goroutine is between    *)
(* running() and done(), on every path through the early returns of          *)
(* StartTests(), and a process that has ended holds neither.                 *)
FlagMatchesRun == isRunning <=> \E s \in Slots : pc[s] \in InRun

(* The WaitGroup of a run counts its test goroutines (a Done() too many      *)
(* panics), and a goroutine that may have spawned one is where Wait comes.   *)
TestsAreCounted ==
    \A s \in Slots :
        /\ wg[s] = (IF "connection" \in tests[s] THEN 1 ELSE 0)
                 + (IF "metadata" \in tests[s] THEN 1 ELSE 0)
        /\ "connection" \in tests[s] => pc[s] \in {"testMetadata", "wait"}
        /\ "metadata" \in tests[s] => pc[s] = "wait"

(* A run has a session from its login to its logout, early returns included. *)
SessionMatchesRun ==
    \A s \in Slots : s \in sessions <=> pc[s] \in InRun \ {"login", "done"}

(* A process that has ended runs nothing; the bound leaves room for an Exit. *)
LifeMatchesRuns ==
    /\ ~Alive => server = "new" /\ \A s \in Slots : pc[s] = "idle"
    /\ main = "cancelled" => stops < MaxStops

(* The handler is half stored only while some request is at it, and whoever   *)
(* calls it has seen or stored its type.                                      *)
HandlerMatchesRequests ==
    /\ promHttpHandler \notin {{}, Words} => \E s \in Slots : pc[s] = "storing"
    /\ \A s \in Slots :
        /\ pc[s] = "storing" => promHttpHandler # {}
        /\ pc[s] = "calling" => "type" \in promHttpHandler

(* What keeps the above, and is inductive. *)
Inv ==
    /\ TypeOK
    /\ HandlerMatchesRequests
    /\ FlagMatchesRun
    /\ \A a, b \in Slots : pc[a] \in InRun /\ pc[b] \in InRun => a = b
    /\ TestsAreCounted
    /\ SessionMatchesRun
    /\ LifeMatchesRuns

(* The comment on running(): the flag and its mutex implement the abstract   *)
(* gate, so a scrape is refused only while another run is in progress and    *)
(* granted only when there is none, through crashes and restarts too.        *)
Gate == INSTANCE RunGate WITH
    Clients <- Slots,
    asking <- {s \in Slots : pc[s] = "started"},
    holders <- {s \in Slots : pc[s] \in InRun}

ImplementsGate == Gate!Spec

(* The tests of the run of slot s that are still to be spawned. *)
ToSpawn(s) ==
    {t \in Tests : \/ pc[s] = "testDeviceConnection"
                   \/ pc[s] = "testMetadata" /\ t = "metadata"}

(* What of the run of slot s is at work, or will be with nothing in between. *)
AtWork(s) ==
    {c \in Callers : \/ c = "ensureDevice" /\ pc[s] = "ensureDevice"
                     \/ c \in tests[s] \cup ToSpawn(s)}

Working == UNION {AtWork(s) : s \in Slots}

(* The pieces of test.go make up the course of runs that pkg/devicemetadata   *)
(* and the connection test count on: nobody ensures the device while a test   *)
(* of any run is at work, no test works without it, and each works once.      *)
Course == INSTANCE RunCourse WITH working <- Working

FollowsCourse == Course!Spec

(* Every run comes to an end and gives the gate back, whichever of its calls *)
(* fail, as long as every call is answered (test.go, the deferred calls).    *)
RunsEnd == \A s \in Slots : pc[s] = "login" ~> pc[s] = "idle"

(* Scrapes keep starting tests (README: "tests are started by http requests  *)
(* to GET /metrics"): the gate is never left closed for good, and requests    *)
(* that lose the race for the handler are not what it comes to in the end.    *)
ScrapesKeepStartingTests ==
    []<>(\E s \in Slots : pc[s] = "serving") => []<>(\E s \in Slots : pc[s] = "login")

(* A request goes without an answer (while its process lives) only if another *)
(* one is assigning the first handler at that moment: ServeHTTP() leaves no   *)
(* half of a handler behind, and later assignments do no harm.                *)
FailsOnlyInTheRace ==
    [][\A s \in Slots :
         pc[s] = "calling" /\ pc'[s] = "idle" /\ main' \in {"up", "cancelled"} =>
            /\ promHttpHandler = {"type"}
            /\ \E other \in Slots \ {s} : pc[other] = "storing"]_vars

(* README: "GET /metrics returns prometheus metrics", "tests are started by   *)
(* http requests to GET /metrics": every request does both while its process  *)
(* lives.                                                                     *)
EveryScrapeIsServed ==
    [][\A s \in Slots :
         pc[s] = "calling" /\ main' \in {"up", "cancelled"} => pc'[s] # "idle"]_vars

(* main.go on wg.Wait(): "give go routines time for cleanup and last         *)
(* messages": an orderly exit leaves no run cut short.                       *)
ExitWaitsForRuns == [][main = "cancelled" /\ main' = "exited" => Busy = {}]_vars
=============================================================================
