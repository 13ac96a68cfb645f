--------------------------------- MODULE Outbox ---------------------------------
(***************************************************************************)
(* What the sync engine promises: records are delivered to the cloud at    *)
(* least once, and one is ticked off only after it was delivered.          *)
(***************************************************************************)
CONSTANT Items

VARIABLES
    filed,      \* records that wait for the cloud, or did
    delivered,  \* records the cloud has
    ticked      \* records that will not be sent again

vars == <<filed, delivered, ticked>>

Init == filed = {} /\ delivered = {} /\ ticked = {}

File(r) == filed' = filed \cup {r} /\ UNCHANGED <<delivered, ticked>>

(* Records that are ticked off are not sent again.                         *)
Deliver(S) ==
    /\ S \subseteq filed \ ticked
    /\ delivered' = delivered \cup S
    /\ UNCHANGED <<filed, ticked>>

TickOff(S) ==
    /\ S \subseteq delivered
    /\ ticked' = ticked \cup S
    /\ UNCHANGED <<filed, delivered>>

Next == (\E r \in Items : File(r)) \/ \E S \in SUBSET Items : Deliver(S) \/ TickOff(S)

Spec == Init /\ [][Next]_vars
=============================================================================
