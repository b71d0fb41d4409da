--------------------------- MODULE CaptureMachine ---------------------------
(***************************************************************************)
(* The machine of the binding dialog: it follows the modifier keys the      *)
(* dialog hears and settles on a chord when they are all up again.  The     *)
(* hints it shows are left out.                                             *)
(***************************************************************************)
EXTENDS HotkeyRuntime, FiniteSets

CONSTANT ChordLimit   \* how many keys a chord may have

ASSUME LimitAssumption == ChordLimit \in Nat \ {0}

VARIABLES
  heard,      \* CaptureMachine.held
  candidate,  \* the chord, {} for null
  released    \* the chord is complete: the phase is `captured`

machineVars == <<heard, candidate, released>>

MachineTypeOK ==
  /\ heard \subseteq Keys
  /\ candidate \subseteq Keys
  /\ released \in BOOLEAN

MachineInit == heard = {} /\ candidate = {} /\ released = FALSE

(* reset, with the chord the mode has or none.                             *)
ResetMachine(chord) ==
  /\ heard' = {}
  /\ candidate' = chord
  /\ released' = (chord # {})

(* feed of a modifier going down: one too many is only hinted at.           *)
HearDown(key) ==
  IF Cardinality(heard) >= ChordLimit /\ key \notin heard
  THEN UNCHANGED machineVars
  ELSE /\ heard' = heard \cup {key}
       /\ candidate' = heard'
       /\ released' = FALSE

(* feed of a modifier going up: the chord is complete with the last one.    *)
HearUp(key) ==
  /\ heard' = heard \ {key}
  /\ released' = (released \/ (heard' = {} /\ candidate # {}))
  /\ UNCHANGED candidate

Hear(key, down) == IF down THEN HearDown(key) ELSE HearUp(key)
=============================================================================
