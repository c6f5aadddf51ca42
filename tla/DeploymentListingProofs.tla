------------------------ MODULE DeploymentListingProofs ------------------------
(***************************************************************************)
(* What the paging loop promises, for any set of deployments and any limit.*)
(***************************************************************************)
EXTENDS DeploymentListing, TLAPS

LEMMA InitInv == Init => Inv
  <1> SUFFICES ASSUME Init PROVE Inv
    OBVIOUS
  <1>1. TypeOK
    BY DEF Init, TypeOK
  <1>2. PagesMatchList
    BY NamedAssumption DEF Init, PagesMatchList, Present
  <1>3. Complete /\ NoDuplicates
    BY DEF Init, Complete, NoDuplicates
  <1> QED
    BY <1>1, <1>2, <1>3 DEF Inv

LEMMA CallKeepsInv == Inv /\ Call => Inv'
  <1> SUFFICES ASSUME Inv, Call PROVE Inv'
    OBVIOUS
  <1> USE DEF Inv, Call, listVars
  <1>1. TypeOK'
    BY DEF TypeOK
  <1>2. PagesMatchList'
    BY NamedAssumption DEF PagesMatchList, Present, TypeOK
  <1>3. Complete' /\ NoDuplicates'
    BY DEF Complete, NoDuplicates
  <1> QED
    BY <1>1, <1>2, <1>3

(* A page that is not full has the end of the list; a full one ends where the *)
(* next one begins.                                                           *)
LEMMA NextPageKeepsInv == Inv /\ NextPage => Inv'
  <1> SUFFICES ASSUME Inv, NextPage PROVE Inv'
    OBVIOUS
  <1> USE LimitAssumption, NamedAssumption DEF Inv, NextPage, listVars, Append, IsShort
  <1>1. TypeOK'
    BY DEF TypeOK, sub
  <1>2. sub = {i \in Ids : offset < pos[i] /\ pos[i] <= offset + Limit}
    BY DEF sub
  <1>3. CASE IsShort
    <2>1. PagesMatchList'
      BY <1>2, <1>3 DEF PagesMatchList, Present, TypeOK
    <2>2. Complete'
      BY <1>2, <1>3 DEF PagesMatchList, Complete, Present, TypeOK
    <2>3. NoDuplicates'
      BY <1>2, <1>3 DEF PagesMatchList, NoDuplicates, TypeOK
    <2> QED
      BY <1>1, <2>1, <2>2, <2>3
  <1>4. CASE ~IsShort
    <2>1. PagesMatchList'
      BY <1>2, <1>4 DEF PagesMatchList, Present, TypeOK
    <2>2. Complete'
      BY <1>4 DEF Complete
    <2>3. NoDuplicates'
      BY <1>2, <1>4 DEF PagesMatchList, NoDuplicates, TypeOK
    <2> QED
      BY <1>1, <2>1, <2>2, <2>3
  <1> QED
    BY <1>3, <1>4

LEMMA PageFailsKeepsInv == Inv /\ PageFails => Inv'
  BY DEF Inv, PageFails, listVars, TypeOK, PagesMatchList, Complete, NoDuplicates, Present

(* What comes into the list may push others to pages yet to be read, never to *)
(* one that was read.                                                         *)
LEMMA InsertKeepsInv == ASSUME Inv, NEW i \in Ids, Insert(i) PROVE Inv'
  <1> USE DEF Inv, Insert, callVars
  <1>1. PICK p \in 1 .. total + 1 :
            pos' = [j \in Ids |-> IF j = i THEN p
                                  ELSE IF pos[j] >= p THEN pos[j] + 1 ELSE pos[j]]
    OBVIOUS
  <1>2. TypeOK'
    BY <1>1 DEF TypeOK
  <1>3. \A j \in Ids : pos'[j] = IF j = i THEN p ELSE IF pos[j] >= p THEN pos[j] + 1 ELSE pos[j]
    BY <1>1
  <1>4. p \in Nat /\ p > 0 /\ p <= total + 1
    BY DEF TypeOK
  <1>5. Present' \subseteq Present \cup {i}
    BY <1>3, <1>4, NamedAssumption DEF Present, TypeOK
  <1>6. PagesMatchList'
    BY <1>3, <1>4, <1>5, NamedAssumption DEF PagesMatchList, Present, TypeOK
  <1>7. Complete' /\ NoDuplicates'
    BY <1>5 DEF Complete, NoDuplicates
  <1> QED
    BY <1>2, <1>6, <1>7

(* What leaves the list may pull others to pages that were read. *)
LEMMA RemoveKeepsInv == ASSUME Inv, NEW i \in Ids, Remove(i) PROVE Inv'
  <1> USE DEF Inv, Remove, callVars
  <1>1. \A j \in Ids : pos'[j] = IF j = i THEN 0 ELSE IF pos[j] > pos[i] THEN pos[j] - 1 ELSE pos[j]
    OBVIOUS
  <1>2. pos[i] \in Nat /\ 0 < pos[i] /\ pos[i] <= total
    BY DEF TypeOK, PagesMatchList
  <1>3. TypeOK'
    BY <1>1, <1>2 DEF TypeOK
  <1>4. PagesMatchList'
    BY <1>1, <1>2, NamedAssumption DEF PagesMatchList, TypeOK
  <1>5. Complete' /\ NoDuplicates'
    BY DEF Complete, NoDuplicates
  <1> QED
    BY <1>3, <1>4, <1>5

-------------------------------------------------------------------------------
(* The inductive invariant holds: what the pages read so far have to do with  *)
(* the list as it is now.                                                     *)
THEOREM InvHolds == Spec => []Inv
  <1>1. Inv /\ UNCHANGED vars => Inv'
    BY DEF vars, listVars, callVars, Inv, TypeOK, PagesMatchList, Complete, NoDuplicates, Present
  <1>2. Inv /\ [Next]_vars => Inv'
    BY <1>1, CallKeepsInv, NextPageKeepsInv, PageFailsKeepsInv, InsertKeepsInv, RemoveKeepsInv DEF Next
  <1> QED
    BY InitInv, <1>2, PTL DEF Spec

(* The loop keeps its type: after the first page offset is never less than a  *)
(* whole page, whatever comes into the list or leaves it.                     *)
THEOREM TypeCorrect == Spec => []TypeOK
  <1>1. Inv => TypeOK
    BY DEF Inv
  <1> QED
    BY InvHolds, <1>1, PTL

(* Only what leaves the list can hide a deployment that is there throughout. *)
THEOREM ListingIsComplete == Spec => []Complete
  <1>1. Inv => Complete
    BY DEF Inv
  <1> QED
    BY InvHolds, <1>1, PTL

(* Only what comes into the list can make the loop find a deployment twice. *)
THEOREM ListingRepeatsNothing == Spec => []NoDuplicates
  <1>1. Inv => NoDuplicates
    BY DEF Inv
  <1> QED
    BY InvHolds, <1>1, PTL

(* On a list that stays as it is the loop is a snapshot of it. *)
THEOREM QuietListingIsSnapshot == Spec => []Snapshot
  <1>1. Inv => Snapshot
    BY DEF Inv, Complete, NoDuplicates, PagesMatchList, Present, Snapshot
  <1> QED
    BY InvHolds, <1>1, PTL
=============================================================================
