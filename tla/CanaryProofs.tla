----------------------------- MODULE CanaryProofs -----------------------------
(***************************************************************************)
(* Proofs about module Canary, for any finite set of slots, with or        *)
(* without calls that hang, and for any number of stops.                   *)
(*                                                                         *)
(* Inv is inductive by itself.  OneRunAtATime is not: that no test of an   *)
(* earlier run is alive when running() grants the next one follows from    *)
(* the WaitGroup having counted it, the early returns having spawned none, *)
(* and the flag being reset only after both, which is what Inv adds.       *)
(***************************************************************************)
EXTENDS Canary, TLAPS, FiniteSetTheorems

(* There are two tests, so the WaitGroup counts to two at most. *)
LEMMA TwoTests == Cardinality(Tests) = 2
  <1>1. "connection" # "metadata"
    OBVIOUS
  <1>2. IsFiniteSet({"connection"}) /\ Cardinality({"connection"}) = 1
    BY FS_Singleton
  <1>3. Cardinality({"connection"} \cup {"metadata"}) = Cardinality({"connection"}) + 1
    BY <1>1, <1>2, FS_AddElement
  <1>4. Tests = {"connection"} \cup {"metadata"}
    BY DEF Tests
  <1> QED
    BY <1>2, <1>3, <1>4

(* The initial state satisfies the invariant. *)
LEMMA InitInv == Init => Inv
  <1> SUFFICES ASSUME Init PROVE Inv
    OBVIOUS
  <1>1. TypeOK
    <2>1. isRunning \in BOOLEAN /\ main \in {"up", "cancelled", "exited", "crashed"}
      BY DEF Init
    <2>2. wg \in [Slots -> 0 .. Cardinality(Tests)]
      BY TwoTests DEF Init
    <2>3. pc \in [Slots -> Phases]
      BY DEF Init, Phases
    <2>4. stops \in 0 .. MaxStops
      BY MaxStopsAssumption DEF Init
    <2> QED
      BY <2>1, <2>2, <2>3, <2>4 DEF Init, TypeOK
  <1> QED
    BY <1>1, MaxStopsAssumption DEF Init, Inv, FlagMatchesRun, TestsAreCounted,
                                   SessionMatchesRun, LifeMatchesRuns, HandlerMatchesRequests,
                                   InRun, Alive

(* Every step preserves the invariant: one step per action, and where it     *)
(* counts, one for each part of the invariant that the action may disturb.   *)
LEMMA NextInv == Inv /\ [Next]_vars => Inv'
  <1> SUFFICES ASSUME Inv, [Next]_vars PROVE Inv'
    OBVIOUS
  <1> USE DEF Inv, Goto, InRun, InHandler
  <1> DEFINE One == \A a, b \in Slots : pc[a] \in InRun /\ pc[b] \in InRun => a = b
  <1>1. TypeOK'
    <2> USE TwoTests, MaxStopsAssumption DEF TypeOK, Phases
    <2>1. CASE UNCHANGED vars
      BY <2>1 DEF vars
    <2>2. CASE Listen \/ Signal \/ Shutdown \/ Restart
      BY <2>2 DEF Listen, Signal, Shutdown, Restart
    <2>3. CASE Exit \/ Crash
      <3>1. stops < MaxStops /\ stops' = stops + 1
        BY <2>3 DEF Exit, Crash, LifeMatchesRuns
      <3>2. stops' \in 0 .. MaxStops
        BY <3>1
      <3>3. main' \in {"exited", "crashed"} /\ NewProcess
        BY <2>3 DEF Exit, Crash
      <3>4. wg' \in [Slots -> 0 .. Cardinality(Tests)]
        BY <3>3 DEF NewProcess
      <3> QED
        BY <3>2, <3>3, <3>4 DEF NewProcess
    <2>4. ASSUME NEW s \in Slots, Scrape(s) PROVE TypeOK'
      BY <2>4 DEF Scrape
    <2>5. ASSUME NEW s \in Slots, GoroutineStep(s) PROVE TypeOK'
      <3>0. CASE ServeHTTP(s)
        BY <3>0 DEF ServeHTTP, FindHandler, StoreHandler, HandlerStored, ServePanics, StartTests
      <3>1. CASE Running(s) \/ Login(s) \/ LoginFails(s) \/ EnsureDevice(s)
        BY <3>1 DEF Running, Login, LoginFails, EnsureDevice
      <3>2. CASE TestDeviceConnection(s) \/ TestMetadata(s)
        BY <3>2 DEF TestDeviceConnection, TestMetadata, Spawn, TestsAreCounted, Tests
      <3>3. CASE Wait(s) \/ Logout(s) \/ Done(s)
        BY <3>3 DEF Wait, Logout, Done
      <3> QED
        BY <2>5, <3>0, <3>1, <3>2, <3>3 DEF GoroutineStep
    <2>6. ASSUME NEW s \in Slots, NEW t \in Tests, TestEnds(s, t) PROVE TypeOK'
      BY <2>6 DEF TestEnds, TestsAreCounted, Tests
    <2>7. ASSUME NEW s \in Slots, NEW c \in Callers, Hang(s, c) PROVE TypeOK'
      BY <2>7 DEF Hang
    <2> QED
      BY <2>1, <2>2, <2>3, <2>4, <2>5, <2>6, <2>7 DEF Next, Lifecycle
  <1>2. (FlagMatchesRun /\ One /\ SessionMatchesRun)'
    <2> USE DEF TypeOK, FlagMatchesRun, SessionMatchesRun
    <2>1. CASE UNCHANGED vars
      BY <2>1 DEF vars
    <2>2. CASE Listen \/ Signal \/ Shutdown \/ Restart
      BY <2>2 DEF Listen, Signal, Shutdown, Restart
    <2>3. CASE Exit \/ Crash
      BY <2>3 DEF Exit, Crash, NewProcess
    <2>4. ASSUME NEW s \in Slots, Scrape(s) PROVE (FlagMatchesRun /\ One /\ SessionMatchesRun)'
      BY <2>4 DEF Scrape
    <2>5. ASSUME NEW s \in Slots, GoroutineStep(s)
          PROVE (FlagMatchesRun /\ One /\ SessionMatchesRun)'
      <3>0. CASE ServeHTTP(s)
        BY <3>0 DEF ServeHTTP, FindHandler, StoreHandler, HandlerStored, ServePanics, StartTests
      <3>1. CASE Login(s) \/ LoginFails(s) \/ EnsureDevice(s) \/ Logout(s)
        BY <3>1 DEF Login, LoginFails, EnsureDevice, Logout
      <3>2. CASE Running(s)
        BY <3>2 DEF Running
      <3>3. CASE Done(s)
        BY <3>3 DEF Done
      <3>4. CASE TestDeviceConnection(s) \/ TestMetadata(s) \/ Wait(s)
        BY <3>4 DEF TestDeviceConnection, TestMetadata, Wait
      <3> QED
        BY <2>5, <3>0, <3>1, <3>2, <3>3, <3>4 DEF GoroutineStep
    <2>6. ASSUME NEW s \in Slots, NEW t \in Tests, TestEnds(s, t)
          PROVE (FlagMatchesRun /\ One /\ SessionMatchesRun)'
      BY <2>6 DEF TestEnds
    <2>7. ASSUME NEW s \in Slots, NEW c \in Callers, Hang(s, c)
          PROVE (FlagMatchesRun /\ One /\ SessionMatchesRun)'
      BY <2>7 DEF Hang
    <2> QED
      BY <2>1, <2>2, <2>3, <2>4, <2>5, <2>6, <2>7 DEF Next, Lifecycle
  <1>3. TestsAreCounted'
    <2> USE DEF TypeOK, TestsAreCounted, Tests
    <2>1. CASE UNCHANGED vars
      BY <2>1 DEF vars
    <2>2. CASE Listen \/ Signal \/ Shutdown \/ Restart
      BY <2>2 DEF Listen, Signal, Shutdown, Restart
    <2>3. CASE Exit \/ Crash
      BY <2>3 DEF Exit, Crash, NewProcess
    <2>4. ASSUME NEW s \in Slots, Scrape(s) PROVE TestsAreCounted'
      BY <2>4 DEF Scrape
    <2>5. ASSUME NEW s \in Slots, GoroutineStep(s) PROVE TestsAreCounted'
      <3>0. CASE ServeHTTP(s)
        BY <3>0 DEF ServeHTTP, FindHandler, StoreHandler, HandlerStored, ServePanics, StartTests
      <3>1. CASE Running(s) \/ Login(s) \/ LoginFails(s) \/ EnsureDevice(s)
        BY <3>1 DEF Running, Login, LoginFails, EnsureDevice
      <3>2. CASE TestDeviceConnection(s)
        BY <3>2 DEF TestDeviceConnection, Spawn
      <3>3. CASE TestMetadata(s)
        BY <3>3 DEF TestMetadata, Spawn
      <3>4. CASE Wait(s)
        BY <3>4 DEF Wait
      <3>5. CASE Logout(s) \/ Done(s)
        BY <3>5 DEF Logout, Done
      <3> QED
        BY <2>5, <3>0, <3>1, <3>2, <3>3, <3>4, <3>5 DEF GoroutineStep
    <2>6. ASSUME NEW s \in Slots, NEW t \in Tests, TestEnds(s, t) PROVE TestsAreCounted'
      BY <2>6 DEF TestEnds
    <2>7. ASSUME NEW s \in Slots, NEW c \in Callers, Hang(s, c) PROVE TestsAreCounted'
      BY <2>7 DEF Hang
    <2> QED
      BY <2>1, <2>2, <2>3, <2>4, <2>5, <2>6, <2>7 DEF Next, Lifecycle
  <1>4. LifeMatchesRuns'
    <2> USE MaxStopsAssumption DEF TypeOK, LifeMatchesRuns, Alive
    <2>1. CASE UNCHANGED vars
      BY <2>1 DEF vars
    <2>2. CASE Lifecycle
      BY <2>2 DEF Lifecycle, Listen, Signal, Shutdown, Exit, Crash, Restart, NewProcess
    <2>3. ASSUME NEW s \in Slots, Scrape(s) PROVE LifeMatchesRuns'
      BY <2>3 DEF Scrape
    <2>4. ASSUME NEW s \in Slots, GoroutineStep(s) PROVE LifeMatchesRuns'
      BY <2>4 DEF GoroutineStep, ServeHTTP, FindHandler, StoreHandler, HandlerStored, ServePanics,
                  StartTests, Running, Login, LoginFails, EnsureDevice,
                  TestDeviceConnection, TestMetadata, Wait, Logout, Done
    <2>5. ASSUME NEW s \in Slots, NEW t \in Tests, TestEnds(s, t) PROVE LifeMatchesRuns'
      BY <2>5 DEF TestEnds
    <2>6. ASSUME NEW s \in Slots, NEW c \in Callers, Hang(s, c) PROVE LifeMatchesRuns'
      BY <2>6 DEF Hang
    <2> QED
      BY <2>1, <2>2, <2>3, <2>4, <2>5, <2>6 DEF Next
  <1>5. HandlerMatchesRequests'
    <2> USE DEF TypeOK, HandlerMatchesRequests, Words
    <2>1. CASE UNCHANGED vars
      BY <2>1 DEF vars
    <2>2. CASE Listen \/ Signal \/ Shutdown \/ Restart
      BY <2>2 DEF Listen, Signal, Shutdown, Restart
    <2>3. CASE Exit \/ Crash
      BY <2>3 DEF Exit, Crash, NewProcess
    <2>4. ASSUME NEW s \in Slots, Scrape(s) PROVE HandlerMatchesRequests'
      BY <2>4 DEF Scrape
    <2>5. ASSUME NEW s \in Slots, GoroutineStep(s) PROVE HandlerMatchesRequests'
      <3>1. CASE FindHandler(s) \/ ServePanics(s) \/ StartTests(s)
        BY <3>1 DEF FindHandler, ServePanics, StartTests
      <3>2. CASE StoreHandler(s)
        BY <3>2 DEF StoreHandler
      <3>3. CASE HandlerStored(s)
        BY <3>3 DEF HandlerStored
      <3>4. CASE ~ServeHTTP(s)
        BY <2>5, <3>4 DEF GoroutineStep, Running, Login, LoginFails, EnsureDevice,
                    TestDeviceConnection, TestMetadata, Wait, Logout, Done
      <3> QED
        BY <3>1, <3>2, <3>3, <3>4 DEF ServeHTTP
    <2>6. ASSUME NEW s \in Slots, NEW t \in Tests, TestEnds(s, t)
          PROVE HandlerMatchesRequests'
      BY <2>6 DEF TestEnds
    <2>7. ASSUME NEW s \in Slots, NEW c \in Callers, Hang(s, c)
          PROVE HandlerMatchesRequests'
      BY <2>7 DEF Hang
    <2> QED
      BY <2>1, <2>2, <2>3, <2>4, <2>5, <2>6, <2>7 DEF Next, Lifecycle
  <1> QED
    BY <1>1, <1>2, <1>3, <1>4, <1>5

(* The state of the canary keeps its type, and the flag, the places, the     *)
(* WaitGroup, the test goroutines and the sessions agree (canary.go, test.go). *)
THEOREM InvHolds == Spec => []Inv
  BY InitInv, NextInv, PTL DEF Spec

(* Type correctness of the canary's state. *)
THEOREM TypeCorrect == Spec => []TypeOK
  <1>1. Inv => TypeOK
    BY DEF Inv
  <1> QED
    BY <1>1, InvHolds, PTL

(* No two runs overlap, their test goroutines included, however many scrapes *)
(* arrive at once (canary.go running()).                                     *)
THEOREM OneRun == Spec => []OneRunAtATime
  <1>1. Inv => OneRunAtATime
    <2> SUFFICES ASSUME Inv, NEW a \in Busy, NEW b \in Busy PROVE a = b
      BY DEF OneRunAtATime
    <2>1. ASSUME NEW s \in Busy PROVE s \in Slots /\ pc[s] \in InRun
      BY <2>1 DEF Inv, TypeOK, TestsAreCounted, Busy, Tests, InRun
    <2> QED
      BY <2>1 DEF Inv
  <1> QED
    BY <1>1, InvHolds, PTL

(* A test goroutine never holds a token that its run has given back          *)
(* (test.go: defer logout() before, wg.Wait() after the tests).              *)
THEOREM SessionsOutliveTests == Spec => []TestsHoldSession
  <1>1. Inv => TestsHoldSession
    BY DEF Inv, TypeOK, TestsAreCounted, SessionMatchesRun, TestsHoldSession, Tests, InRun
  <1> QED
    BY <1>1, InvHolds, PTL

(* A request fails only while another one assigns the first handler           *)
(* (canary.go ServeHTTP()): the race is over once an assignment has finished. *)
THEOREM RaceIsForTheFirst == Spec => FailsOnlyInTheRace
  <1> DEFINE Fails(s) == pc[s] = "calling" /\ pc'[s] = "idle" /\ main' \in {"up", "cancelled"}
             Race(s) == /\ promHttpHandler = {"type"}
                        /\ \E other \in Slots \ {s} : pc[other] = "storing"
  <1>1. ASSUME Inv, Next, NEW s \in Slots, Fails(s) PROVE Race(s)
    <2> USE DEF Inv, TypeOK, Goto
    <2>1. ASSUME promHttpHandler # Words PROVE Race(s)
      BY <1>1, <2>1 DEF HandlerMatchesRequests, Words
    <2>2. CASE Lifecycle
      BY <1>1, <2>2 DEF Lifecycle, Listen, Signal, Shutdown, Exit, Crash, Restart
    <2>3. ASSUME NEW u \in Slots, Scrape(u) \/ GoroutineStep(u) PROVE Race(s)
      BY <1>1, <2>1, <2>3 DEF GoroutineStep, ServeHTTP, FindHandler, StoreHandler, HandlerStored,
                ServePanics, StartTests, Scrape, Running, Login, LoginFails, EnsureDevice,
                TestDeviceConnection, TestMetadata, Wait, Logout, Done
    <2>4. ASSUME NEW u \in Slots, NEW t \in Tests, TestEnds(u, t) PROVE Race(s)
      BY <1>1, <2>4 DEF TestEnds
    <2>5. ASSUME NEW u \in Slots, NEW c \in Callers, Hang(u, c) PROVE Race(s)
      BY <1>1, <2>5 DEF Hang
    <2> QED
      BY <1>1, <2>2, <2>3, <2>4, <2>5 DEF Next
  <1>2. Inv /\ [Next]_vars => [\A s \in Slots : Fails(s) => Race(s)]_vars
    BY <1>1
  <1> QED
    BY <1>2, InvHolds, PTL DEF Spec, FailsOnlyInTheRace

-------------------------------------------------------------------------------
(* The refinement of the abstract gate. *)

(* The initial state maps to an initial state of the gate. *)
LEMMA GateInit == Init => Gate!Init
  BY DEF Init, Gate!Init, InRun

(* Every step maps to a step of the gate or to a stutter. *)
LEMMA GateStep == Inv /\ [Next]_vars => [Gate!Next]_Gate!vars
  <1> SUFFICES ASSUME Inv, [Next]_vars PROVE [Gate!Next]_Gate!vars
    OBVIOUS
  <1> DEFINE asking == {s \in Slots : pc[s] = "started"}
             holders == {s \in Slots : pc[s] \in InRun}
  <1>0. ASSUME asking' = asking, holders' = holders PROVE [Gate!Next]_Gate!vars
    BY <1>0 DEF Gate!vars
  <1>1. CASE UNCHANGED vars
    BY <1>1, <1>0 DEF vars
  <1>2. CASE Lifecycle
    <2>1. CASE Exit \/ Crash
      <3>1. asking' = {} /\ holders' = {}
        BY <2>1 DEF Exit, Crash, NewProcess, InRun
      <3> QED
        BY <3>1 DEF Gate!Next, Gate!Reset
    <2>2. CASE Listen \/ Signal \/ Shutdown \/ Restart
      BY <2>2, <1>0 DEF Listen, Signal, Shutdown, Restart
    <2> QED
      BY <1>2, <2>1, <2>2 DEF Lifecycle
  <1>3. ASSUME NEW s \in Slots, Scrape(s) PROVE [Gate!Next]_Gate!vars
    BY <1>3, <1>0 DEF Scrape, Goto, Inv, TypeOK, InRun
  <1>4. ASSUME NEW s \in Slots, GoroutineStep(s) PROVE [Gate!Next]_Gate!vars
    <2>1. CASE StartTests(s)
      <3>1. s \notin asking \cup holders /\ asking' = asking \cup {s} /\ holders' = holders
        BY <2>1 DEF StartTests, Goto, Inv, TypeOK, InRun
      <3> QED
        BY <3>1 DEF Gate!Next, Gate!Ask
    <2>2. CASE Running(s) /\ isRunning
      <3>1. s \in asking /\ asking' = asking \ {s} /\ holders' = holders
        BY <2>2 DEF Running, Goto, Inv, TypeOK, InRun
      <3>2. holders # {}
        BY <2>2 DEF Inv, FlagMatchesRun
      <3> QED
        BY <3>1, <3>2 DEF Gate!Next, Gate!Refuse
    <2>3. CASE Running(s) /\ ~isRunning
      <3>1. s \in asking /\ asking' = asking \ {s}
        BY <2>3 DEF Running, Goto, Inv, TypeOK, InRun
      <3>2. holders = {}
        BY <2>3 DEF Inv, FlagMatchesRun
      <3>3. holders' = {s}
        BY <2>3, <3>2 DEF Running, Goto, Inv, TypeOK, InRun
      <3> QED
        BY <3>1, <3>2, <3>3 DEF Gate!Next, Gate!Grant
    <2>4. CASE Done(s)
      <3>1. s \in holders /\ holders' = holders \ {s} /\ asking' = asking
        BY <2>4 DEF Done, Goto, Inv, TypeOK, InRun
      <3> QED
        BY <3>1 DEF Gate!Next, Gate!Release
    <2>5. CASE Login(s) \/ LoginFails(s) \/ EnsureDevice(s) \/ Logout(s)
      BY <2>5, <1>0 DEF Login, LoginFails, EnsureDevice, Logout, Goto, Inv, TypeOK, InRun
    <2>6. CASE TestDeviceConnection(s) \/ TestMetadata(s) \/ Wait(s)
      BY <2>6, <1>0 DEF TestDeviceConnection, TestMetadata, Wait, Goto, Inv, TypeOK, InRun
    <2>7. CASE FindHandler(s) \/ StoreHandler(s) \/ HandlerStored(s) \/ ServePanics(s)
      BY <2>7, <1>0 DEF FindHandler, StoreHandler, HandlerStored, ServePanics, Goto, Inv, TypeOK,
                        InRun
    <2> QED
      BY <1>4, <2>1, <2>2, <2>3, <2>4, <2>5, <2>6, <2>7 DEF GoroutineStep, ServeHTTP
  <1>5. ASSUME NEW s \in Slots, NEW t \in Tests, TestEnds(s, t) PROVE [Gate!Next]_Gate!vars
    BY <1>5, <1>0 DEF TestEnds
  <1>6. ASSUME NEW s \in Slots, NEW c \in Callers, Hang(s, c) PROVE [Gate!Next]_Gate!vars
    BY <1>6, <1>0 DEF Hang
  <1> QED
    BY <1>1, <1>2, <1>3, <1>4, <1>5, <1>6 DEF Next

(* The flag under its mutex implements the gate that the comment on running() *)
(* describes: refused only while another run lasts, granted only when none.   *)
THEOREM FlagImplementsGate == Spec => ImplementsGate
  <1>1. Spec => Gate!Init /\ [][Gate!Next]_Gate!vars
    BY InvHolds, GateInit, GateStep, PTL DEF Spec
  <1> QED
    BY <1>1 DEF ImplementsGate, Gate!Spec

-------------------------------------------------------------------------------
(* The refinement of the course of runs. *)

(* What is at work belongs to the one slot that is in a run. *)
LEMMA OnlyRunWorks ==
    Inv => /\ \A s \in Slots : pc[s] \in InRun => Working = AtWork(s)
           /\ (\A s \in Slots : pc[s] \notin InRun) => Working = {}
  <1> SUFFICES ASSUME Inv PROVE /\ \A s \in Slots : pc[s] \in InRun => Working = AtWork(s)
                                /\ (\A s \in Slots : pc[s] \notin InRun) => Working = {}
    OBVIOUS
  <1>1. ASSUME NEW s \in Slots, pc[s] \notin InRun PROVE AtWork(s) = {}
    BY <1>1 DEF Inv, TestsAreCounted, TypeOK, InRun, AtWork, ToSpawn, Tests
  <1>2. ASSUME NEW s \in Slots, NEW u \in Slots, pc[s] \in InRun, u # s PROVE AtWork(u) = {}
    BY <1>1, <1>2 DEF Inv
  <1>3. ASSUME NEW s \in Slots, pc[s] \in InRun PROVE Working = AtWork(s)
    BY <1>2, <1>3 DEF Working
  <1>4. ASSUME \A s \in Slots : pc[s] \notin InRun PROVE Working = {}
    BY <1>1, <1>4 DEF Working
  <1> QED
    BY <1>3, <1>4

(* The initial state maps to an initial state of the course. *)
LEMMA CourseInit == Init => Course!Init
  <1> SUFFICES ASSUME Init PROVE Working = {}
    BY DEF Course!Init
  <1>1. \A s \in Slots : pc[s] \notin InRun
    BY DEF Init, InRun
  <1> QED
    BY <1>1, InitInv, OnlyRunWorks

(* Every step maps to a step of the course or to a stutter.  It is a stutter  *)
(* unless the slot that is in a run is at EnsureDevice() or has tests.        *)
LEMMA CourseStep == Inv /\ Inv' /\ [Next]_vars => [Course!Next]_Working
  <1>after. (Inv => /\ \A s \in Slots : pc[s] \in InRun => Working = AtWork(s)
                    /\ (\A s \in Slots : pc[s] \notin InRun) => Working = {})'
    BY OnlyRunWorks, PTL
  <1> SUFFICES ASSUME Inv, Inv', [Next]_vars PROVE [Course!Next]_Working
    OBVIOUS
  <1>now. ASSUME NEW s \in Slots, pc[s] \in InRun PROVE Working = AtWork(s)
    BY <1>now, OnlyRunWorks
  <1>next. ASSUME NEW s \in Slots, pc'[s] \in InRun PROVE Working' = AtWork(s)'
    BY <1>next, <1>after
  <1>1. ASSUME UNCHANGED <<pc, tests>> PROVE Working' = Working
    BY <1>1 DEF Working, AtWork, ToSpawn
  <1>2. CASE UNCHANGED vars \/ Listen \/ Signal \/ Shutdown \/ Restart
    BY <1>1, <1>2 DEF vars, Listen, Signal, Shutdown, Restart
  <1>3. CASE Exit \/ Crash
    <2>1. \A s \in Slots : pc'[s] \notin InRun
      BY <1>3 DEF Exit, Crash, NewProcess, InRun
    <2>2. Working' = {}
      BY <2>1, <1>after
    <2> QED
      BY <2>2 DEF Course!Next, Course!Over
  <1>4. ASSUME NEW s \in Slots, Scrape(s) \/ ServeHTTP(s) PROVE Working' = Working
    <2>1. pc'[s] \notin InRun /\ pc[s] \notin InRun /\ tests' = tests
      BY <1>4 DEF Scrape, ServeHTTP, FindHandler, StoreHandler, HandlerStored, ServePanics,
                  StartTests, Goto, InRun, Inv, TypeOK
    <2>2. \A u \in Slots \ {s} : pc'[u] = pc[u]
      BY <1>4 DEF Scrape, ServeHTTP, FindHandler, StoreHandler, HandlerStored, ServePanics,
                  StartTests, Goto, Inv, TypeOK
    <2>3. ASSUME NEW u \in Slots PROVE AtWork(u)' = AtWork(u)
      BY <2>1, <2>2 DEF AtWork, ToSpawn, InRun
    <2> QED
      BY <2>3 DEF Working
  <1>5. ASSUME NEW s \in Slots, Running(s) PROVE Working' = Working
    <2>1. CASE isRunning
      <3>1. PICK u \in Slots : pc[u] \in InRun
        BY <2>1 DEF Inv, FlagMatchesRun
      <3>2. pc'[u] = pc[u] /\ tests' = tests
        BY <1>5, <3>1 DEF Running, Goto, InRun, Inv, TypeOK
      <3> QED
        BY <1>now, <1>next, <3>1, <3>2 DEF AtWork, ToSpawn
    <2>2. CASE ~isRunning
      <3>1. Working = {}
        BY <2>2, OnlyRunWorks DEF Inv, FlagMatchesRun
      <3>2. pc'[s] = "login" /\ tests'[s] = tests[s] /\ pc[s] = "started"
        BY <1>5, <2>2 DEF Running, Goto, Inv, TypeOK
      <3>3. AtWork(s)' = {}
        BY <3>2 DEF AtWork, ToSpawn, Inv, TypeOK, TestsAreCounted, Tests
      <3> QED
        BY <1>next, <3>1, <3>2, <3>3 DEF InRun
    <2> QED
      BY <2>1, <2>2
  <1>6. ASSUME NEW s \in Slots, Login(s) PROVE Course!Begin
    <2>1. Working = AtWork(s) /\ Working' = AtWork(s)'
      BY <1>now, <1>next, <1>6 DEF Login, Goto, InRun, Inv, TypeOK
    <2>2. AtWork(s) = {} /\ AtWork(s)' = {"ensureDevice"}
      BY <1>6 DEF Login, Goto, AtWork, ToSpawn, Callers, Inv, TypeOK, TestsAreCounted, Tests
    <2> QED
      BY <2>1, <2>2 DEF Course!Begin
  <1>7. ASSUME NEW s \in Slots, LoginFails(s) \/ Wait(s) \/ Logout(s) PROVE Working' = Working
    <2>1. Working = AtWork(s) /\ Working' = AtWork(s)'
      BY <1>now, <1>next, <1>7 DEF LoginFails, Wait, Logout, Goto, InRun, Inv, TypeOK
    <2>2. tests' = tests /\ AtWork(s)' = AtWork(s)
      BY <1>7 DEF LoginFails, Wait, Logout, Goto, AtWork, ToSpawn, Inv, TypeOK
    <2> QED
      BY <2>1, <2>2
  <1>8. ASSUME NEW s \in Slots, EnsureDevice(s) PROVE Course!Ensured \/ Course!Over
    <2>1. Working = AtWork(s) /\ Working' = AtWork(s)'
      BY <1>now, <1>next, <1>8 DEF EnsureDevice, Goto, InRun, Inv, TypeOK
    <2>2. tests[s] = {} /\ tests'[s] = {} /\ pc[s] = "ensureDevice"
      BY <1>8 DEF EnsureDevice, Inv, TypeOK, TestsAreCounted, Tests
    <2>3. AtWork(s) = {"ensureDevice"}
      BY <2>2 DEF AtWork, ToSpawn, Callers, Tests
    <2>4. CASE pc'[s] = "testDeviceConnection"
      <3>1. AtWork(s)' = Tests
        BY <2>2, <2>4 DEF AtWork, ToSpawn, Callers
      <3> QED
        BY <2>1, <2>3, <3>1 DEF Course!Ensured
    <2>5. CASE pc'[s] = "logout"
      <3>1. AtWork(s)' = {}
        BY <2>2, <2>5 DEF AtWork, ToSpawn
      <3> QED
        BY <2>1, <3>1 DEF Course!Over
    <2> QED
      BY <1>8, <2>4, <2>5 DEF EnsureDevice, Goto, Inv, TypeOK
  <1>9. ASSUME NEW s \in Slots, TestDeviceConnection(s) \/ TestMetadata(s)
        PROVE  Working' = Working
    <2>1. Working = AtWork(s) /\ Working' = AtWork(s)'
      BY <1>now, <1>next, <1>9 DEF TestDeviceConnection, TestMetadata, Goto, InRun, Inv, TypeOK
    <2>2. AtWork(s)' = AtWork(s)
      BY <1>9 DEF TestDeviceConnection, TestMetadata, Spawn, Goto, AtWork, ToSpawn, Tests, Inv,
                  TypeOK
    <2> QED
      BY <2>1, <2>2
  <1>10. ASSUME NEW s \in Slots, Done(s) PROVE Working' = Working
    <2>1. Working = AtWork(s)
      BY <1>now, <1>10 DEF Done, InRun
    <2>2. AtWork(s) = {}
      BY <1>10 DEF Done, AtWork, ToSpawn, Inv, TypeOK, TestsAreCounted, Tests
    <2>3. \A u \in Slots : pc'[u] \notin InRun
      BY <1>10 DEF Done, Inv, FlagMatchesRun
    <2> QED
      BY <2>1, <2>2, <2>3, <1>after
  <1>11. ASSUME NEW s \in Slots, NEW t \in Tests, TestEnds(s, t) PROVE Course!TestReturns(t)
    <2>1. pc[s] \in {"testMetadata", "wait"} /\ pc' = pc
      BY <1>11 DEF TestEnds, Inv, TestsAreCounted, Tests
    <2>2. Working = AtWork(s) /\ Working' = AtWork(s)'
      BY <1>now, <1>next, <2>1 DEF InRun
    <2>3. t \in AtWork(s)
      BY <1>11 DEF TestEnds, AtWork, Callers
    <2>4. t \notin ToSpawn(s)
      BY <1>11, <2>1 DEF TestEnds, ToSpawn, Inv, TestsAreCounted
    <2>5. tests'[s] = tests[s] \ {t} /\ ToSpawn(s)' = ToSpawn(s)
      BY <1>11, <2>1 DEF TestEnds, ToSpawn, Inv, TypeOK
    <2>6. AtWork(s)' = AtWork(s) \ {t}
      BY <2>1, <2>4, <2>5 DEF AtWork, Tests
    <2> QED
      BY <2>2, <2>3, <2>6 DEF Course!TestReturns
  <1>12. ASSUME NEW s \in Slots, NEW c \in Callers, Hang(s, c) PROVE Working' = Working
    BY <1>1, <1>12 DEF Hang
  <1> QED
    BY <1>2, <1>3, <1>4, <1>5, <1>6, <1>7, <1>8, <1>9, <1>10, <1>11, <1>12
    DEF Next, Lifecycle, GoroutineStep, Course!Next

(* The runs of the canary follow the course that each test counts on: nothing *)
(* of an earlier run works when EnsureDevice() is called, tests only work     *)
(* with a device, and each test of a run works once (test.go, canary.go).     *)
THEOREM RunsFollowCourse == Spec => FollowsCourse
  <1>1. Spec => Course!Init /\ [][Course!Next]_Working
    BY InvHolds, CourseInit, CourseStep, PTL DEF Spec
  <1> QED
    BY <1>1 DEF FollowsCourse, Course!Spec
=============================================================================
