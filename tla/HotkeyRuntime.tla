--------------------------- MODULE HotkeyRuntime ---------------------------
(***************************************************************************)
(* HotkeyRuntime: the chord matcher that follows the modifier keys it is    *)
(* fed, the registry of chords, and the coordinator they drive.  A chord is *)
(* the set of its keys; a mode with the empty set has no hotkey.            *)
(***************************************************************************)
EXTENDS HotkeyCoordinator

CONSTANT Keys   \* the modifier keys

VARIABLES
  bindings,      \* the registered chord of each mode
  held,          \* ChordMatcher.held
  pressedChords  \* ChordMatcher.active, by mode

matcherVars == <<bindings, held, pressedChords>>
runtimeVars == <<matcherVars, chordMode>>

Chords == [Modes -> SUBSET Keys]
NoChords == [m \in Modes |-> {}]

RuntimeTypeOK ==
  /\ CoordinatorTypeOK
  /\ bindings \in Chords
  /\ held \subseteq Keys
  /\ pressedChords \subseteq Modes

RuntimeInit ==
  /\ CoordinatorInit
  /\ bindings = NoChords
  /\ held = {}
  /\ pressedChords = {}

(* The chords whose members are all held.                                  *)
Matched(chords, keys) == {m \in Modes : chords[m] # {} /\ chords[m] \subseteq keys}

(* validateDisjoint: no two chords share a key.                            *)
Disjoint(chords) ==
  \A m, n \in Modes : m # n => chords[m] \cap chords[n] = {}

(* clearHeld; the releases it drives are ignored by the coordinator.        *)
ClearHeld ==
  /\ held' = {}
  /\ pressedChords' = {}

(* setBindings: chords that overlap are refused and the old ones stay.      *)
SetBindings(chords) ==
  IF Disjoint(chords)
  THEN bindings' = chords /\ ClearHeld
  ELSE UNCHANGED matcherVars

(* ChordMatcher.feed of an edge of a modifier key.                         *)
MatchEdge(key, down) ==
  /\ held' = IF down THEN held \cup {key} ELSE held \ {key}
  /\ pressedChords' = Matched(bindings, held')
  /\ UNCHANGED bindings

(* driveCoordinator: chords are disjoint, so an edge presses at most one.   *)
(* The receiver of a start may consume it and reset the toggle.             *)
DriveCoordinator ==
  \/ /\ pressedChords' \subseteq pressedChords
     /\ UNCHANGED chordMode
  \/ \E mode \in pressedChords' \ pressedChords :
       \/ chordMode' = Toggle(mode).next
       \/ Toggle(mode).type = "start" /\ ResetCoordinator

Feed(key, down) == MatchEdge(key, down) /\ DriveCoordinator
=============================================================================
