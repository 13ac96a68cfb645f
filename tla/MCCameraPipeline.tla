----------------------------- MODULE MCCameraPipeline -----------------------------
(* Small instances of CameraPipeline for TLC.                              *)
EXTENDS CameraPipeline, TLC

\* What the dashboard's camera page sends.
DashboardKinds == {"create", "enable", "disable", "delete"}

MCSymmetry == Permutations(Requests)
=============================================================================
