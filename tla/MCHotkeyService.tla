-------------------------- MODULE MCHotkeyService --------------------------
(***************************************************************************)
(* HotkeyService for TLC: two modes over two keys, so that chords of one    *)
(* and of two keys, and conflicts between modes, occur.                     *)
(***************************************************************************)
EXTENDS HotkeyService

CONSTANTS m1, m2, k1, k2

OwnFlag == [k \in Keys |-> k]       \* each key has a flag of its own
SharedFlag == [k \in Keys |-> k1]   \* left and right of one modifier
=============================================================================
