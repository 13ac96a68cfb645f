---------------------------- MODULE MCCameraManager ----------------------------
(* Two cameras, two names, two urls of which one is refused, and two         *)
(* requests in flight.  No property is a liveness one.                       *)
EXTENDS CameraManager, TLC

Symmetry == Permutations(Cameras) \cup Permutations(Names) \cup Permutations(Tasks)
=============================================================================
