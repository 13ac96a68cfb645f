------------------------------- MODULE MCRollups -------------------------------
(* Two cameras of a store whose clock is ahead of UTC or not.                *)
EXTENDS Rollups
=============================================================================
