------------------------------ MODULE MCCameraService ------------------------------
(* Small instances of CameraService for TLC; all constants are numbers.    *)
EXTENDS CameraService
=============================================================================
