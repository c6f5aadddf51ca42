------------------------------- MODULE RunGate -------------------------------
(***************************************************************************)
(* What Canary.running() promises, in the words of its comment in          *)
(* pkg/canary/canary.go: it tells a caller that a test "is already         *)
(* running"; if not, the caller becomes the holder and every later call is *)
(* refused until that holder calls done().  How the promise is kept (a     *)
(* flag under a mutex) is the business of module Canary, which implements  *)
(* this one.                                                               *)
(***************************************************************************)
CONSTANT Clients    \* the goroutines that may call running()

VARIABLES
    asking,         \* clients that are about to call running()
    holders         \* clients that were granted a run and have not called done()

vars == <<asking, holders>>

TypeOK == asking \subseteq Clients /\ holders \subseteq Clients

Init == asking = {} /\ holders = {}

Ask(c) ==
    /\ c \notin asking \cup holders
    /\ asking' = asking \cup {c}
    /\ UNCHANGED holders

(* running() answers isRunning = false: nobody else holds a run. *)
Grant(c) ==
    /\ c \in asking
    /\ holders = {}
    /\ asking' = asking \ {c}
    /\ holders' = {c}

(* running() answers isRunning = true: some client does hold a run. *)
Refuse(c) ==
    /\ c \in asking
    /\ holders # {}
    /\ asking' = asking \ {c}
    /\ UNCHANGED holders

(* The done() callback, which only the holder has. *)
Release(c) ==
    /\ c \in holders
    /\ holders' = holders \ {c}
    /\ UNCHANGED asking

(* The end of the process takes its goroutines and its flag with it. *)
Reset == asking' = {} /\ holders' = {}

Next ==
    \/ \E c \in Clients : Ask(c) \/ Grant(c) \/ Refuse(c) \/ Release(c)
    \/ Reset

Spec == Init /\ [][Next]_vars

(* At most one test run is in progress. *)
OneHolder == \A a, b \in holders : a = b
=============================================================================
