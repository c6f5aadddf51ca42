------------------------------ MODULE RunCourse ------------------------------
(***************************************************************************)
(* The course of the test runs, as StartTests() and the two tests see each *)
(* other: a run begins when nothing of an earlier one is at work, ensures  *)
(* the device and goes on only with one, then its tests work side by side, *)
(* each once.  It is over when both have come back, or sooner.             *)
(*                                                                         *)
(* Module Canary, with what holds the gate and counts the goroutines,      *)
(* implements this, and so does DeviceMetadata, with what the same steps   *)
(* do to the device: what one takes for granted is what the other grants.  *)
(***************************************************************************)
CONSTANT Tests      \* the tests of a run that are looked at

VARIABLE working    \* what of a run is at work: "ensureDevice" or tests

Init == working = {}

(* login() has succeeded, and EnsureDevice() is called. *)
Begin ==
    /\ working = {}
    /\ working' = {"ensureDevice"}

(* EnsureDevice() returns a device, and the tests are next. *)
Ensured ==
    /\ working = {"ensureDevice"}
    /\ working' = Tests

(* The goroutine of a test returns. *)
TestReturns(t) ==
    /\ t \in working \cap Tests
    /\ working' = working \ {t}

(* EnsureDevice() returns an error, or the process ends: nothing is left. *)
Over == working' = {}

Next == Begin \/ Ensured \/ (\E t \in Tests : TestReturns(t)) \/ Over

Spec == Init /\ [][Next]_working
=============================================================================
