----------------------------- MODULE MediaMute -----------------------------
(***************************************************************************)
(* MediaMuteCoordinator: the save/restore machine that mutes the output    *)
(* device while the user dictates.  The module has no next-state relation  *)
(* of its own: Engage and Release are steps of whoever drives it (the      *)
(* session controller), UserTogglesMute is the user at the volume keys.    *)
(*                                                                         *)
(* userMuted and disturbed are history variables: the flag the user last   *)
(* chose, and whether a native call failed, or the user touched the flag   *)
(* while the coordinator held it, since that choice.                       *)
(***************************************************************************)
EXTENDS Integers

CONSTANT MuteDisturbances   \* which of these the run lets happen

ASSUME MuteDisturbancesAssumption ==
  MuteDisturbances \subseteq {"readFails", "writeFails", "userToggles"}

VARIABLES
  engaged,       \* the coordinator holds the device
  priorMuted,    \* the flag it saved on engaging
  deviceMuted,   \* the mute flag of the output device
  userMuted,     \* history: what the user last chose
  disturbed      \* history: see above

muteVars == <<engaged, priorMuted, deviceMuted, userMuted, disturbed>>

MuteTypeOK ==
  /\ engaged \in BOOLEAN
  /\ priorMuted \in {"none", "muted", "unmuted"}
  /\ deviceMuted \in BOOLEAN
  /\ userMuted \in BOOLEAN
  /\ disturbed \in BOOLEAN

MuteInit ==
  /\ engaged = FALSE
  /\ priorMuted = "none"
  /\ deviceMuted \in BOOLEAN
  /\ userMuted = deviceMuted
  /\ disturbed = FALSE

-----------------------------------------------------------------------------
(* The native port.  Both calls are wrapped in try/catch by the            *)
(* coordinator: a failed read counts as "unmuted", a failed write is lost. *)

Flag(muted) == IF muted THEN "muted" ELSE "unmuted"

PortReads ==
  {Flag(deviceMuted)}
    \cup (IF "readFails" \in MuteDisturbances THEN {"unmuted"} ELSE {})

AfterWrite(muted) ==
  {muted} \cup (IF "writeFails" \in MuteDisturbances THEN {deviceMuted} ELSE {})

(* engage: a no-op while engaged; the flag the user already set is left     *)
(* alone, now and on release.                                               *)
EngageMute ==
  /\ UNCHANGED userMuted
  /\ \/ /\ engaged
        /\ UNCHANGED <<engaged, priorMuted, deviceMuted, disturbed>>
     \/ /\ ~engaged
        /\ engaged' = TRUE
        /\ \E prior \in PortReads :
             /\ priorMuted' = prior
             /\ deviceMuted' \in IF prior = "muted" THEN {deviceMuted}
                                                    ELSE AfterWrite(TRUE)
             /\ disturbed' = (\/ disturbed
                              \/ prior # Flag(deviceMuted)
                              \/ deviceMuted' = FALSE)

(* Mutant of MustRestore: release always unmutes.                          *)
RestoreAlways == TRUE

(* The coordinator only changed the flag if it was unmuted before.         *)
MustRestore == priorMuted # "muted"

ReleaseMute ==
  /\ UNCHANGED userMuted
  /\ \/ /\ ~engaged
        /\ UNCHANGED <<engaged, priorMuted, deviceMuted, disturbed>>
     \/ /\ engaged
        /\ engaged' = FALSE
        /\ priorMuted' = "none"
        /\ deviceMuted' \in IF MustRestore THEN AfterWrite(FALSE) ELSE {deviceMuted}
        /\ disturbed' = (disturbed \/ (MustRestore /\ deviceMuted'))

UserTogglesMute ==
  /\ "userToggles" \in MuteDisturbances
  /\ deviceMuted' = ~deviceMuted
  /\ userMuted' = deviceMuted'
  /\ disturbed' = engaged
  /\ UNCHANGED <<engaged, priorMuted>>

-----------------------------------------------------------------------------
(* When nothing disturbed the device, dictation leaves it as the user had  *)
(* it: a mute the user set survives, and one the app set is taken back.    *)
(* While engaged the device is muted and the saved flag is the user's.     *)
UserMuteRestored ==
  ~disturbed =>
    IF engaged THEN deviceMuted /\ priorMuted = Flag(userMuted)
               ELSE deviceMuted = userMuted
=============================================================================
