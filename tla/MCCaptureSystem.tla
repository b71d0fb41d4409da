-------------------------- MODULE MCCaptureSystem --------------------------
(***************************************************************************)
(* CaptureSystem for TLC.                                                   *)
(***************************************************************************)
EXTENDS CaptureSystem

CONSTANT m1
=============================================================================
