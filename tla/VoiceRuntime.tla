---------------------------- MODULE VoiceRuntime ----------------------------
(***************************************************************************)
(* The voice runtime of the main process as the bootstrap wires it: chord   *)
(* presses go through the hotkey coordinator to the session controller, a   *)
(* capture renderer answers its controls, the capsule overlay and the media *)
(* mute follow, and the controller's own waits end in any order.            *)
(*                                                                          *)
(* The renderer is any renderer: it may report an open microphone or a      *)
(* failure at any time after `begin`, and a recording at any time after     *)
(* `finish`.  Messages for a session that is no longer active change        *)
(* nothing and are left out.                                                *)
(***************************************************************************)
EXTENDS SessionController

CONSTANT UiCommands   \* which of finish/cancel_active_voice_runtime are called

ASSUME UiCommandsAssumption == UiCommands \subseteq {"finish", "cancel"}

vars == <<controllerVars, overlayVars, muteVars, chordMode>>

Init ==
  /\ ControllerInit
  /\ OverlayInit
  /\ MuteInit
  /\ CoordinatorInit

-----------------------------------------------------------------------------
(* The user.                                                               *)

(* A chord press that reads as `start`.                                    *)
ChordStarts(mode) ==
  /\ Toggle(mode).type = "start"
  /\ StartSession(mode) \/ StartIgnored
  /\ chordMode' = mode
  /\ UNCHANGED muteVars

(* The controller consumed the start: onStartConsumed resets the toggle.   *)
ChordDismissesNotice(mode) ==
  /\ Toggle(mode).type = "start"
  /\ StartConsumed
  /\ ResetCoordinator
  /\ UNCHANGED muteVars

(* A chord press that reads as `complete`.                                 *)
ChordCompletes(mode) ==
  /\ Toggle(mode).type = "complete"
  /\ chordMode' = NoMode
  /\ \/ FinishRecording
     \/ /\ active = None \/ awaitingAudio
        /\ UNCHANGED <<controllerVars, overlayVars, muteVars>>

UiFinish ==
  /\ "finish" \in UiCommands
  /\ FinishRecording
  /\ UNCHANGED chordMode

UiCancel ==
  /\ "cancel" \in UiCommands
  /\ CancelRecording
  /\ UNCHANGED chordMode

DismissNotice ==
  /\ windowShown
  /\ NoticeDismissed
  /\ UNCHANGED chordMode

HoverEnter ==
  /\ windowShown
  /\ PauseHide
  /\ UNCHANGED <<controllerVars, muteVars, chordMode>>

HoverLeave ==
  /\ ResumeHide
  /\ UNCHANGED <<controllerVars, muteVars, chordMode>>

UserTouchesMute ==
  /\ UserTogglesMute
  /\ UNCHANGED <<controllerVars, overlayVars, chordMode>>

-----------------------------------------------------------------------------
(* The renderer.                                                           *)

MicOpens(s) ==
  /\ <<"begin", s>> \in controls
  /\ OnCaptureStarted(s)
  /\ UNCHANGED chordMode

CaptureFails(s) ==
  /\ <<"begin", s>> \in controls
  /\ OnCaptureError(s)
  /\ UNCHANGED chordMode

RecordingArrives(s) ==
  /\ <<"finish", s>> \in controls
  /\ OnCaptureAudio(s)
  /\ UNCHANGED chordMode

-----------------------------------------------------------------------------
(* The program's own waits.                                                *)

PipelineStep(s) ==
  /\ \/ ContextArrives(s)
     \/ ModelAnswers(s)
     \/ InsertFloorEnds(s)
     \/ InjectionEnds(s)
     \/ FloorEnds(s)
  /\ UNCHANGED chordMode

TimerStep ==
  /\ SlowTimerFires \/ ObservationEnds
  /\ UNCHANGED chordMode

OverlayStep ==
  /\ RevealFires \/ HideFires
  /\ UNCHANGED <<controllerVars, muteVars, chordMode>>

Next ==
  \/ \E mode \in Modes :
       ChordStarts(mode) \/ ChordDismissesNotice(mode) \/ ChordCompletes(mode)
  \/ UiFinish \/ UiCancel
  \/ DismissNotice \/ HoverEnter \/ HoverLeave
  \/ UserTouchesMute
  \/ \E s \in Sessions :
       MicOpens(s) \/ CaptureFails(s) \/ RecordingArrives(s) \/ PipelineStep(s)
  \/ TimerStep
  \/ OverlayStep

Spec == Init /\ [][Next]_vars

(***************************************************************************)
(* Every wait of the pipeline ends: every provider client gives up after    *)
(* DEFAULT_REQUEST_TIMEOUT_MS, the injector makes bounded native calls and  *)
(* sleeps, the floor is a timer.  The overlay's timers fire.  The capture   *)
(* driver answers a `finish` with a recording or an error.  Nothing is      *)
(* assumed of the user.                                                     *)
(***************************************************************************)
Fairness ==
  /\ \A s \in Sessions : WF_vars(PipelineStep(s))
  /\ \A s \in Sessions : WF_vars(RecordingArrives(s))
  /\ WF_vars(OverlayStep)

FairSpec == Spec /\ Fairness

-----------------------------------------------------------------------------
(* Invariants.                                                             *)

(* Every variable of the runtime and of the parts it drives has its type.  *)
TypeOK ==
  /\ ControllerTypeOK
  /\ OverlayTypeOK
  /\ MuteTypeOK
  /\ CoordinatorTypeOK

Listening == active # None /\ ~awaitingAudio

Ended(s) == s <= generation /\ active # s /\ run[s].at \in {"none", "done"}

(* The slot, the controls and the pipelines agree: only the newest session  *)
(* can hold the slot, in a real mode; a session holds it before its         *)
(* pipeline runs, never together with it; and it counts as listening only   *)
(* until it was told to finish.                                             *)
SlotConsistent ==
  /\ active \in {None, generation}
  /\ active # None => activeMode \in Modes
  /\ \A control \in controls : control[2] <= generation
  /\ active # None /\ <<"finish", active>> \in controls => awaitingAudio
  /\ \A s \in Sessions : s > generation \/ active = s => run[s].at = "none"

(* Background media is held muted only while a session is listening: no     *)
(* finish, cancel, failure or late microphone ack leaves the user's media   *)
(* silenced (onCaptureStarted's guard, the unmute of every terminal path).  *)
MutedOnlyWhileListening == engaged => Listening

(* While a session records or awaits its audio, nothing is about to hide    *)
(* its capsule: terminals of older sessions never schedule a hide over it,  *)
(* and the capsule is on screen or about to be.                             *)
LiveSessionKeepsCapsule ==
  active # None => ~HasPendingHide /\ (windowShown \/ revealQueued)

(* The capsule shows the newest session, and a live session's own phase:    *)
(* no event of a stale run overwrites the face of a newer one.              *)
FaceShowsNewest ==
  /\ face.session = generation
  /\ Listening => face.phase = "listening"
  /\ active # None /\ awaitingAudio => face.phase = "thinking"

(* The capsule claims no outcome while the newest session's pipeline is     *)
(* still at work, be it on its model, its insertion or its floor.           *)
NoEarlyOutcome ==
  \A s \in Sessions :
    s = generation /\ run[s].at \notin {"none", "done"}
      => face.phase \notin {"completed", "cancelled", "failed"}

(* Every session that is over for the controller told the renderer to stop  *)
(* its microphone, by finish or by cancel.                                  *)
MicAlwaysReleased ==
  \A s \in Sessions :
    s <= generation /\ ~(active = s /\ ~awaitingAudio)
      => <<"finish", s>> \in controls \/ <<"cancel", s>> \in controls

(* A realtime transport is open only while the pipeline that opened it is   *)
(* waiting for the model or inserting, and the controller can still close   *)
(* it: none leaks when a newer session takes the single dispose slot.       *)
TransportsAreOwned ==
  /\ transports \subseteq {currentRunDispose}
  /\ \A s \in transports : run[s].at \in {"model", "insertFloor", "inject"}

(* While a session listens, the press of its own chord reads as `complete`: *)
(* the toggle and the controller agree on the mode, so the user can always  *)
(* stop.                                                                    *)
OwnChordStops == Listening => chordMode = activeMode

(* "Still working" beats run only for a session that awaits its audio.      *)
SlowOnlyWhileAwaiting == slowTimers > 0 => active # None /\ awaitingAudio

(* A notice that will swallow the next start gesture is the one on the      *)
(* capsule: the newest session failed, and nothing newer is live.           *)
AttentionIsVisible ==
  attentionNotice => face.phase = "failed" /\ active = None

(* The recording machine agrees with the controller's own slot.             *)
MachineAgrees ==
  /\ Listening <=> machine = "recording_active"
  /\ active # None /\ awaitingAudio => machine = "completed"

(* All of it: together these parts are inductive.                          *)
RuntimeInv ==
  /\ TypeOK
  /\ SlotConsistent
  /\ MutedOnlyWhileListening
  /\ LiveSessionKeepsCapsule
  /\ FaceShowsNewest
  /\ NoEarlyOutcome
  /\ MicAlwaysReleased
  /\ TransportsAreOwned
  /\ OwnChordStops
  /\ SlowOnlyWhileAwaiting
  /\ AttentionIsVisible
  /\ MachineAgrees

(* When nothing runs, the toggle is idle too, so the next press is a clean  *)
(* start.  The doc of HotkeyRuntime.resetSession and of onStartConsumed   *)
(* promise it; a session the renderer ended breaks it.                      *)
NextPressStarts == active = None => chordMode = NoMode

-----------------------------------------------------------------------------
(* Steps and behaviours.                                                    *)

(* The promise of SessionLifecycle: see that module. *)
StageOf(s) ==
  CASE s > generation            -> "unborn"
    [] active = s                -> "recording"
    [] run[s].at \in {"context", "model", "insertFloor"} -> "processing"
    [] run[s].at = "inject"      -> "inserting"
    [] run[s].at \in {"floor", "errorFloor"} -> "closing"
    [] run[s].at = "done" /\ run[s].event = "none" -> "dropped"
    [] OTHER                     -> "told"

Stage == [s \in Sessions |-> StageOf(s)]

Lifecycle ==
  INSTANCE SessionLifecycle
    WITH newest <- generation, stage <- Stage, recorded <- history

ImplementsLifecycle == Lifecycle!LifecycleSpec

(* Text goes to the target application at most once per session, and only   *)
(* for the newest one, with no other session recording at that moment.      *)
InsertsForNewest ==
  \A s \in Sessions :
    run[s].at # "inject" /\ run'[s].at = "inject"
      => /\ s = generation /\ active = None
         /\ run[s].at \in {"model", "insertFloor"}

InsertsOnlyNewest == [][InsertsForNewest]_vars

(* While the user is dictating the app mutes other media (mediaMute.ts):    *)
(* the mute engaged for a listening session is held until that session      *)
(* stops listening.  The unmute at the end of an older run breaks it.       *)
MuteHeldWhileListening ==
  [][engaged /\ ~engaged' => ~(Listening' /\ active' = active)]_vars

(* A terminal face stays until the next session starts: a session's outcome *)
(* is never replaced by another outcome.                                    *)
OutcomeIsFinal ==
  [][face.phase \in {"completed", "cancelled", "failed"} /\ face' # face
       => face'.phase = "listening" /\ generation' > generation]_vars

(* Every session that stopped recording comes to its end.                   *)
SessionSettles ==
  \A s \in Sessions : (s <= generation /\ ~(active = s /\ Listening)) ~> Ended(s)

(* The capsule never stays on screen for good with nobody recording, unless *)
(* the user keeps the pointer on the notice.                                *)
CapsuleGoesAway == []<>(active # None \/ pausedHide \/ ~windowShown)
=============================================================================
