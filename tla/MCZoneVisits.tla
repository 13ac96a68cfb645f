------------------------------ MODULE MCZoneVisits ------------------------------
(* Small instances of ZoneVisits for TLC.                                   *)
EXTENDS ZoneVisits
=============================================================================
