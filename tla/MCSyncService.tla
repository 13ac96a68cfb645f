----------------------------- MODULE MCSyncService -----------------------------
(* Three records in two tables, of which one has more than fit into a cycle. *)
EXTENDS SyncService, TLC

CONSTANTS r1, r2, r3, visits, tills

TillsAndVisits == r1 :> visits @@ r2 :> visits @@ r3 :> tills
=============================================================================
