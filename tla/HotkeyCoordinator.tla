------------------------- MODULE HotkeyCoordinator -------------------------
(***************************************************************************)
(* HotkeySessionCoordinator: the toggle between a chord press and a session *)
(* action.  It keeps its own idea of the running mode, apart from the       *)
(* session controller's; the composing module says what each action starts. *)
(***************************************************************************)
EXTENDS Integers

CONSTANTS
  Modes,      \* the modes that own a chord
  NoMode      \* stands for null

ASSUME ModesAssumption == NoMode \notin Modes

VARIABLE chordMode    \* the coordinator's `active`

CoordinatorTypeOK == chordMode \in Modes \cup {NoMode}

CoordinatorInit == chordMode = NoMode

(* toggle: a press starts, the second press of the same mode completes, a   *)
(* press of another mode is ignored.  Releases are ignored.                 *)
Toggle(mode) ==
  CASE chordMode = NoMode -> [type |-> "start",    next |-> mode]
    [] chordMode = mode   -> [type |-> "complete", next |-> NoMode]
    [] OTHER              -> [type |-> "ignore",   next |-> chordMode]

(* resetSession: back to idle with no action. *)
ResetCoordinator == chordMode' = NoMode
=============================================================================
