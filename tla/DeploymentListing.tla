--------------------------- MODULE DeploymentListing ---------------------------
(***************************************************************************)
(* ListCanaryProcessDeployments(), which pkg/process and pkg/events have   *)
(* alike: deployments are read page by page, those with the canary's name  *)
(* are kept, and the first page that is not full is the last one.          *)
(*                                                                         *)
(* Between two pages the list may change: deployments of others, and what  *)
(* the canary itself has deployed or deleted and what shows only now.  The *)
(* list has no order that the code asks for, so a new deployment may come  *)
(* anywhere; it is external, and taken to give as many deployments as it   *)
(* is asked for if there are that many.                                    *)
(***************************************************************************)
EXTENDS Integers

CONSTANTS
    Ids,            \* bound: the deployments that can be listed
    Named,          \* those with ExpectedCanaryDeploymentName
    Limit           \* limit: 200 in the code

ASSUME NamedAssumption == Named \subseteq Ids
ASSUME LimitAssumption == Limit \in Nat \ {0}

VARIABLES
    pos,            \* pos[i]: the place of deployment i in the list, 0 if it is not there
    total,          \* the length of the list
    at,             \* "idle", "page", "done" (ids, nil) or "failed" (ids, err)
    offset,         \* the local variable offset
    ids,            \* the ids appended to the local variable ids
    twice,          \* whether one of them has been appended again
    inserted,       \* deployments that came into the list since the first page was asked for
    removed         \* whether any has left it since

listVars == <<pos, total>>
callVars == <<at, offset, ids, twice>>
vars == <<listVars, callVars, inserted, removed>>

Present == {i \in Named : pos[i] # 0}

Init ==
    /\ pos = [i \in Ids |-> 0] /\ total = 0
    /\ at = "idle" /\ offset = 0 /\ ids = {} /\ twice = FALSE
    /\ inserted = {} /\ removed = FALSE

-------------------------------------------------------------------------------
(* The call, by ProcessStartup() or ProcessTeardown(). *)
Call ==
    /\ at # "page"
    /\ at' = "page" /\ offset' = 0 /\ ids' = {} /\ twice' = FALSE
    /\ inserted' = {} /\ removed' = FALSE
    /\ UNCHANGED listVars

(* What one request returns. *)
sub == {i \in Ids : offset < pos[i] /\ pos[i] <= offset + Limit}

(* len(sub) < limit *)
IsShort == total < offset + Limit

(* Mutant: the name is not looked at. *)
AppendAll ==
    /\ ids' = ids \cup sub
    /\ twice' = (twice \/ ids \cap sub # {})

(* The ids of the page with the canary's name are appended. *)
Append ==
    /\ ids' = ids \cup (sub \cap Named)
    /\ twice' = (twice \/ ids \cap sub # {})

(* Mutant: the loop ends with the first page, full or not. *)
NextPageOnlyOne ==
    /\ at = "page"
    /\ Append
    /\ at' = "done" /\ UNCHANGED offset
    /\ UNCHANGED <<listVars, inserted, removed>>

(* Mutant: firstResult is taken for the last place already read. *)
NextPageOffByOne ==
    /\ at = "page"
    /\ Append
    /\ IF IsShort THEN at' = "done" /\ UNCHANGED offset
                  ELSE at' = at /\ offset' = offset + Limit - 1
    /\ UNCHANGED <<listVars, inserted, removed>>

(* Mutant: the offset stays where it is. *)
NextPageAgain ==
    /\ at = "page"
    /\ Append
    /\ at' = IF IsShort THEN "done" ELSE at
    /\ UNCHANGED <<listVars, offset, inserted, removed>>

(* One round of the loop. *)
NextPage ==
    /\ at = "page"
    /\ Append
    /\ IF IsShort THEN at' = "done" /\ UNCHANGED offset
                  ELSE at' = at /\ offset' = offset + Limit
    /\ UNCHANGED <<listVars, inserted, removed>>

(* A request fails: the error is returned. *)
PageFails ==
    /\ at = "page"
    /\ at' = "failed"
    /\ UNCHANGED <<listVars, offset, ids, twice, inserted, removed>>

-------------------------------------------------------------------------------
(* The list changes. *)

Insert(i) ==
    /\ pos[i] = 0
    /\ \E p \in 1 .. total + 1 :
        pos' = [j \in Ids |-> IF j = i THEN p
                              ELSE IF pos[j] >= p THEN pos[j] + 1 ELSE pos[j]]
    /\ total' = total + 1
    /\ inserted' = inserted \cup {i}
    /\ UNCHANGED <<callVars, removed>>

Remove(i) ==
    /\ pos[i] # 0
    /\ pos' = [j \in Ids |-> IF j = i THEN 0
                             ELSE IF pos[j] > pos[i] THEN pos[j] - 1 ELSE pos[j]]
    /\ total' = total - 1
    /\ removed' = TRUE
    /\ UNCHANGED <<callVars, inserted>>

Next ==
    \/ Call \/ NextPage \/ PageFails
    \/ \E i \in Ids : Insert(i) \/ Remove(i)

Spec == Init /\ [][Next]_vars

(* The caller goes on, and requests come back. *)
FairSpec == Spec /\ WF_vars(NextPage)

-------------------------------------------------------------------------------
TypeOK ==
    /\ pos \in [Ids -> Nat] /\ total \in Nat
    /\ at \in {"idle", "page", "done", "failed"}
    /\ offset \in Nat /\ (offset = 0 \/ offset >= Limit)
    /\ ids \subseteq Ids
    /\ twice \in BOOLEAN
    /\ inserted \subseteq Ids
    /\ removed \in BOOLEAN

(* Every deployment of the canary that was there from the first page to the   *)
(* last is found, whatever comes meanwhile and wherever, and also if the list *)
(* ends exactly with a page; only what leaves the list can hide another.      *)
Complete == at = "done" /\ ~removed => Present \ inserted \subseteq ids

(* No deployment is found, and then deleted, twice, whatever leaves meanwhile; *)
(* only what comes into the list can push one to a page yet to be read.        *)
NoDuplicates == inserted = {} => ~twice

(* On a list that stays as it is the result is the set of the canary's        *)
(* deployments: this is the listing in one step of module DeploymentTest.     *)
Snapshot == at = "done" /\ ~removed /\ inserted = {} => ids = Present /\ ~twice

(* The loop ends, also while the list goes on changing, as the offset passes  *)
(* any length the list can have.                                              *)
ListingEnds == at = "page" ~> at # "page"

(* What the pages read so far have to do with the list as it is now. *)
PagesMatchList ==
    /\ \A i, j \in Ids : pos[i] <= total /\ (pos[i] = pos[j] => i = j \/ pos[i] = 0)
    /\ at = "page" /\ ~removed =>
        \A i \in Present \ inserted : pos[i] <= offset => i \in ids
    /\ at = "page" /\ inserted = {} => \A i \in ids : pos[i] <= offset
    /\ ids \subseteq Named
    /\ ~removed => \A i \in ids : pos[i] # 0

(* What keeps the above, and is inductive. *)
Inv == TypeOK /\ PagesMatchList /\ Complete /\ NoDuplicates
=============================================================================
