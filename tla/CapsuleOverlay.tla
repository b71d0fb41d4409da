--------------------------- MODULE CapsuleOverlay ---------------------------
(***************************************************************************)
(* CapsuleOverlay: show/hide of the capsule window.  Times are abstracted:  *)
(* a scheduled hide fires at any later moment, but never before the 0 ms    *)
(* reveal that was queued ahead of it.                                      *)
(***************************************************************************)
EXTENDS Integers

VARIABLES
  showEpoch,     \* number of shows so far
  revealQueued,  \* the 0 ms reveal of the current epoch has not run yet
  hideEpoch,     \* epoch captured by the armed hide timer, 0 when none
  pausedHide,    \* a hide frozen by hovering the panel
  windowShown    \* the native window is on screen

overlayVars == <<showEpoch, revealQueued, hideEpoch, pausedHide, windowShown>>

OverlayTypeOK ==
  /\ showEpoch \in Nat
  /\ revealQueued \in BOOLEAN
  /\ hideEpoch \in Nat
  /\ pausedHide \in BOOLEAN
  /\ windowShown \in BOOLEAN

OverlayInit ==
  /\ showEpoch = 0
  /\ revealQueued = FALSE
  /\ hideEpoch = 0
  /\ pausedHide = FALSE
  /\ windowShown = FALSE

HasPendingHide == hideEpoch # 0 \/ pausedHide

-----------------------------------------------------------------------------
(* show: disarm every pending hide, then queue the reveal. An older reveal  *)
(* still queued is dropped by its epoch check, so only the last one counts. *)
ShowCapsule ==
  /\ showEpoch' = showEpoch + 1
  /\ revealQueued' = TRUE
  /\ hideEpoch' = 0
  /\ pausedHide' = FALSE
  /\ UNCHANGED windowShown

(* setVisible(false): replace the armed timer; a paused hide stays paused. *)
ScheduleHide ==
  /\ hideEpoch' = showEpoch
  /\ UNCHANGED <<showEpoch, revealQueued, pausedHide, windowShown>>

(* expediteHide: nothing when no hide is pending. *)
ExpediteHide ==
  /\ IF HasPendingHide
     THEN hideEpoch' = showEpoch /\ pausedHide' = FALSE
     ELSE UNCHANGED <<hideEpoch, pausedHide>>
  /\ UNCHANGED <<showEpoch, revealQueued, windowShown>>

(* Hover-enter and hover-leave on the panel. *)
PauseHide ==
  /\ hideEpoch # 0
  /\ hideEpoch' = 0
  /\ pausedHide' = TRUE
  /\ UNCHANGED <<showEpoch, revealQueued, windowShown>>

ResumeHide ==
  /\ pausedHide
  /\ pausedHide' = FALSE
  /\ hideEpoch' = showEpoch
  /\ UNCHANGED <<showEpoch, revealQueued, windowShown>>

(* The reveal's callback.  A reveal of an older epoch does nothing, so only *)
(* the current one is kept.                                                 *)
RevealFires ==
  /\ revealQueued
  /\ revealQueued' = FALSE
  /\ windowShown' = TRUE
  /\ UNCHANGED <<showEpoch, hideEpoch, pausedHide>>

(* The hide timer's callback, with its epoch guard. *)
HideFires ==
  /\ ~revealQueued
  /\ hideEpoch # 0
  /\ hideEpoch' = 0
  /\ windowShown' = (windowShown /\ hideEpoch # showEpoch)
  /\ UNCHANGED <<showEpoch, revealQueued, pausedHide>>

-----------------------------------------------------------------------------
(* The overlay by itself, for a module that gives it its times.            *)
OverlayNext ==
  \/ ShowCapsule \/ ScheduleHide \/ ExpediteHide \/ PauseHide \/ ResumeHide
  \/ RevealFires \/ HideFires

OverlaySpec == OverlayInit /\ [][OverlayNext]_overlayVars
=============================================================================
