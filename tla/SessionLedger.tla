----------------------------- MODULE SessionLedger -----------------------------
(***************************************************************************)
(* What the transaction engine promises the readers of its tables (the     *)
(* reports, the cloud): each visit has one record that is opened, collects *)
(* evidence, and is closed at most once; a closed record never changes and *)
(* is the only one the cloud hears of.                                     *)
(***************************************************************************)
CONSTANTS Visits,    \* identities of visits
          Evidence   \* kinds of evidence a visit can show

VARIABLES status,    \* of each visit's record
          evidence,  \* stored in each visit's record
          announced  \* visits whose record was handed to the cloud

vars == <<status, evidence, announced>>

Init ==
    /\ status = [v \in Visits |-> "absent"]
    /\ evidence = [v \in Visits |-> {}]
    /\ announced = {}

(* Some records that are not closed are opened or brought up to date.      *)
Update(S) ==
    /\ \A v \in S : status[v] # "complete"
    /\ status' = [v \in Visits |-> IF v \in S THEN "open" ELSE status[v]]
    /\ evidence' \in [Visits -> SUBSET Evidence]
    /\ \A v \in Visits : evidence[v] \subseteq evidence'[v]
    /\ \A v \in Visits \ S : evidence'[v] = evidence[v]
    /\ UNCHANGED announced

(* A record gets its last evidence, is closed and announced in one step.   *)
Close(v) ==
    /\ status[v] # "complete"
    /\ status' = [status EXCEPT ![v] = "complete"]
    /\ \E last \in SUBSET Evidence :
          /\ evidence[v] \subseteq last
          /\ evidence' = [evidence EXCEPT ![v] = last]
    /\ announced' = announced \cup {v}

Next == (\E S \in SUBSET Visits : Update(S)) \/ (\E v \in Visits : Close(v))

Spec == Init /\ [][Next]_vars
=============================================================================
