--------------------------- MODULE MCVoiceRuntime ---------------------------
(***************************************************************************)
(* VoiceRuntime for TLC: two modes are enough for the "other mode" branch   *)
(* of the toggle and are interchangeable.                                   *)
(***************************************************************************)
EXTENDS VoiceRuntime, TLC

CONSTANTS m1, m2

ModesSymmetry == Permutations(Modes)
=============================================================================
