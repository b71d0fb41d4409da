------------------------- MODULE VoiceRuntimeProofs -------------------------
(***************************************************************************)
(* What VoiceRuntime promises, for any number of sessions, any set of modes *)
(* and any set of disturbances: its types, the safety invariants, which are *)
(* inductive together with the types, and that it implements                *)
(* SessionLifecycle.  Then what the controller and the capture driver owe   *)
(* each other: the two joined implement VoiceRuntime with its free          *)
(* renderer, every finish is answered, and no microphone stays open.        *)
(***************************************************************************)
EXTENDS CaptureSystem, TLAPS

-----------------------------------------------------------------------------
(* Types.  The overlay and the mute move by their own operations, whatever  *)
(* the step; the controller's state is split in four parts, each followed   *)
(* over every action.                                                       *)

(* Parts of a step.                                                        *)
OverlayOp ==
  \/ ShowCapsule \/ ScheduleHide \/ ExpediteHide \/ PauseHide \/ ResumeHide
  \/ RevealFires \/ HideFires \/ UNCHANGED overlayVars

MuteOp == EngageMute \/ ReleaseMute \/ UserTogglesMute \/ UNCHANGED muteVars

(* Each operation of the overlay keeps its type (CapsuleOverlay).          *)
LEMMA OverlayTyped ==
  ASSUME OverlayTypeOK, OverlayOp
  PROVE  OverlayTypeOK'
<1> USE DEF OverlayTypeOK
<1>1. CASE ShowCapsule
  <2>1. showEpoch' \in Nat /\ hideEpoch' \in Nat
    BY <1>1 DEF ShowCapsule
  <2>2. revealQueued' \in BOOLEAN /\ pausedHide' \in BOOLEAN /\ windowShown' \in BOOLEAN
    BY <1>1, Zenon DEF ShowCapsule
  <2> QED
    BY <2>1, <2>2
<1>2. CASE ScheduleHide
  BY <1>2 DEF ScheduleHide
<1>3. CASE ExpediteHide
  BY <1>3 DEF ExpediteHide, HasPendingHide
<1>4. CASE PauseHide
  <2>1. showEpoch' \in Nat /\ hideEpoch' \in Nat
    BY <1>4 DEF PauseHide
  <2>2. revealQueued' \in BOOLEAN /\ pausedHide' \in BOOLEAN /\ windowShown' \in BOOLEAN
    BY <1>4, Zenon DEF PauseHide
  <2> QED
    BY <2>1, <2>2
<1>5. CASE ResumeHide
  BY <1>5 DEF ResumeHide
<1>6. CASE RevealFires
  BY <1>6 DEF RevealFires
<1>7. CASE HideFires
  BY <1>7 DEF HideFires
<1>8. CASE UNCHANGED overlayVars
  BY <1>8 DEF overlayVars
<1> QED
  BY <1>1, <1>2, <1>3, <1>4, <1>5, <1>6, <1>7, <1>8 DEF OverlayOp

(* Each operation of the mute coordinator keeps its type.                  *)
LEMMA MuteTyped ==
  ASSUME MuteTypeOK, MuteOp
  PROVE  MuteTypeOK'
BY DEF MuteTypeOK, MuteOp, EngageMute, ReleaseMute, UserTogglesMute, muteVars,
       PortReads, Flag, AfterWrite, MustRestore

(* Stopping the recording machine yields one of its states.                *)
LEMMA StopTyped ==
  ASSUME machine \in MachineStates, NEW reason \in MachineStates
  PROVE  MachineStops(reason) \in MachineStates
BY DEF MachineStops

(* Drawing a phase of a session gives the capsule a face.                  *)
LEMMA DrawTyped ==
  ASSUME NEW s \in Sessions, NEW phase \in Faces, Draw(s, phase)
  PROVE  face' \in [session : {None} \cup Sessions, phase : Faces]
BY DEF Draw

(* Moving a pipeline to a wait keeps the table of runs typed.              *)
LEMMA WaitTyped ==
  ASSUME run \in [Sessions -> [at : Waits, event : TerminalEvents \cup {"none"}]],
         NEW s \in Sessions, NEW at \in Waits,
         NEW event \in TerminalEvents \cup {"none"},
         Wait(s, at, event)
  PROVE  run' \in [Sessions -> [at : Waits, event : TerminalEvents \cup {"none"}]]
BY DEF Wait

(* Closing the current or the own run's transports keeps the slot typed.   *)
LEMMA DisposeTyped ==
  ASSUME currentRunDispose \in {None} \cup Sessions, transports \subseteq Sessions,
         NEW s \in Sessions,
         \/ DisposeCurrentRun \/ DisposeOwnRun(s)
         \/ UNCHANGED <<currentRunDispose, transports>>
  PROVE  currentRunDispose' \in {None} \cup Sessions /\ transports' \subseteq Sessions
BY DEF DisposeCurrentRun, DisposeOwnRun

(* A control sent to the renderer is a kind and a session.                 *)
LEMMA SendTyped ==
  ASSUME controls \subseteq ControlKinds \X Sessions,
         NEW s \in Sessions, NEW kind \in ControlKinds, SendControl(kind, s)
  PROVE  controls' \subseteq ControlKinds \X Sessions
BY DEF SendControl

(* Emitting a terminal event keeps the notice and the face typed.          *)
LEMMA EmitTyped ==
  ASSUME NoticeTypeOK, NEW s \in Sessions, NEW event, EmitTerminal(s, event)
  PROVE  NoticeTypeOK'
<1>1. FacePhase(event) \in Faces
  BY DEF FacePhase, Faces
<1>2. face' \in [session : {None} \cup Sessions, phase : Faces]
  BY <1>1, DrawTyped DEF EmitTerminal
<1>3. attentionNotice' \in BOOLEAN
  BY DEF EmitTerminal, AttentionAfter
<1> QED
  BY <1>2, <1>3 DEF NoticeTypeOK, EmitTerminal

(* emitTerminalAfterFloor keeps what it writes typed, whatever it decides. *)
LEMMA BeginTerminalTyped ==
  ASSUME NoticeTypeOK, RunTypeOK, thinkingStartedAt \in {None} \cup Sessions,
         NEW s \in Sessions, NEW event \in TerminalEvents, NEW wait \in Waits,
         BeginTerminal(s, event, wait)
  PROVE  NoticeTypeOK' /\ RunTypeOK' /\ thinkingStartedAt' \in {None} \cup Sessions
<1>1. RunTypeOK'
  <2>1. "done" \in Waits /\ "none" \in TerminalEvents \cup {"none"}
    BY DEF Waits
  <2> QED
    BY <2>1, WaitTyped DEF BeginTerminal, RunTypeOK
<1>2. NoticeTypeOK'
  BY EmitTyped DEF BeginTerminal, ShowTerminal, noticeVars, NoticeTypeOK
<1>3. thinkingStartedAt' \in {None} \cup Sessions
  BY DEF BeginTerminal
<1> QED
  BY <1>1, <1>2, <1>3

(* Every step moves the overlay and the mute by one operation of theirs.   *)
LEMMA StepMovesOverlay == ASSUME [Next]_vars PROVE OverlayOp
<1>1. ASSUME NEW s, NEW event, ShowTerminal(s, event) PROVE OverlayOp
  BY <1>1 DEF ShowTerminal, OverlayOp
<1>2. ASSUME NEW s, NEW event, NEW wait, BeginTerminal(s, event, wait) PROVE OverlayOp
  BY <1>1, <1>2 DEF BeginTerminal, OverlayOp
<1>3. ASSUME NEW s, Abandon(s) \/ StartInserting(s) PROVE OverlayOp
  BY <1>3 DEF Abandon, StartInserting, OverlayOp, overlayVars
<1>4. ASSUME NEW s \in Sessions, PipelineStep(s) PROVE OverlayOp
  <2>1. CASE ContextArrives(s)
    BY <2>1, <1>2, <1>3 DEF ContextArrives, OverlayOp
  <2>2. CASE ModelAnswers(s)
    BY <2>2, <1>2, <1>3 DEF ModelAnswers, BeforeInject, OverlayOp
  <2>3. CASE InsertFloorEnds(s)
    BY <2>3, <1>3 DEF InsertFloorEnds, OverlayOp
  <2>4. CASE InjectionEnds(s)
    BY <2>4, <1>2 DEF InjectionEnds
  <2>5. CASE FloorEnds(s)
    BY <2>5, <1>1 DEF FloorEnds, OverlayOp
  <2> QED
    BY <1>4, <2>1, <2>2, <2>3, <2>4, <2>5 DEF PipelineStep
<1>5. ASSUME NEW mode \in Modes,
             ChordStarts(mode) \/ ChordDismissesNotice(mode) \/ ChordCompletes(mode)
      PROVE  OverlayOp
  BY <1>5 DEF ChordStarts, StartSession, StartIgnored, ChordDismissesNotice,
              StartConsumed, ChordCompletes, FinishRecording, OverlayOp
<1>6. CASE UiFinish \/ UiCancel
  BY <1>6 DEF UiFinish, UiCancel, FinishRecording, CancelRecording, OverlayOp
<1>7. CASE DismissNotice \/ HoverEnter \/ HoverLeave \/ UserTouchesMute
  BY <1>7 DEF DismissNotice, NoticeDismissed, HoverEnter, HoverLeave, UserTouchesMute, OverlayOp
<1>8. ASSUME NEW s \in Sessions, MicOpens(s) \/ CaptureFails(s) \/ RecordingArrives(s)
      PROVE  OverlayOp
  BY <1>8, <1>1 DEF MicOpens, OnCaptureStarted, CaptureFails, OnCaptureError,
                    RecordingArrives, OnCaptureAudio, OverlayOp
<1>9. CASE TimerStep \/ OverlayStep
  BY <1>9 DEF TimerStep, SlowTimerFires, ObservationEnds, OverlayStep, OverlayOp
<1>10. CASE UNCHANGED vars
  BY <1>10 DEF vars, OverlayOp
<1> QED
  BY <1>4, <1>5, <1>6, <1>7, <1>8, <1>9, <1>10 DEF Next

(* Every step moves the mute by one operation of the coordinator.          *)
LEMMA StepMovesMute == ASSUME [Next]_vars PROVE MuteOp
<1>1. ASSUME NEW s, EndOfRun(s) PROVE MuteOp
  BY <1>1 DEF EndOfRun, MuteOp
<1>2. ASSUME NEW s \in Sessions, PipelineStep(s) PROVE MuteOp
  BY <1>1, <1>2 DEF PipelineStep, ContextArrives, ModelAnswers, InsertFloorEnds,
                    InjectionEnds, FloorEnds, MuteOp
<1>3. ASSUME NEW mode \in Modes,
             ChordStarts(mode) \/ ChordDismissesNotice(mode) \/ ChordCompletes(mode)
      PROVE  MuteOp
  BY <1>3 DEF ChordStarts, ChordDismissesNotice, ChordCompletes, FinishRecording, MuteOp
<1>4. CASE UiFinish \/ UiCancel
  BY <1>4 DEF UiFinish, UiCancel, FinishRecording, CancelRecording, MuteOp
<1>5. CASE DismissNotice \/ HoverEnter \/ HoverLeave \/ UserTouchesMute
  BY <1>5 DEF DismissNotice, NoticeDismissed, HoverEnter, HoverLeave, UserTouchesMute, MuteOp
<1>6. ASSUME NEW s \in Sessions, MicOpens(s) \/ CaptureFails(s) \/ RecordingArrives(s)
      PROVE  MuteOp
  BY <1>6 DEF MicOpens, OnCaptureStarted, CaptureFails, OnCaptureError,
              RecordingArrives, OnCaptureAudio, MuteOp
<1>7. CASE TimerStep \/ OverlayStep
  BY <1>7 DEF TimerStep, SlowTimerFires, ObservationEnds, OverlayStep, MuteOp
<1>8. CASE UNCHANGED vars
  BY <1>8 DEF vars, MuteOp
<1> QED
  BY <1>2, <1>3, <1>4, <1>5, <1>6, <1>7, <1>8 DEF Next

(* The five parts of the controller's type, each over every step.          *)
LEMMA PipelineKeepsSession ==
  ASSUME NEW s \in Sessions, PipelineStep(s)
  PROVE  UNCHANGED <<sessionVars, slowTimers, controls, chordMode>>
BY DEF PipelineStep, ContextArrives, ModelAnswers, InsertFloorEnds, InjectionEnds,
       FloorEnds, timerVars

(* The slot and the machine keep their type over every step.               *)
LEMMA SessionTypeStep ==
  ASSUME SessionTypeOK, [Next]_vars
  PROVE  SessionTypeOK'
<1> USE DEF SessionTypeOK
<1>1. ASSUME NEW mode \in Modes, ChordStarts(mode) PROVE SessionTypeOK'
  <2>1. CASE StartSession(mode)
    <3>1. generation' \in 0 .. MaxSessions /\ generation' \in Sessions
      BY <2>1, SessionAssumption DEF StartSession, Sessions
    <3>2. awaitingAudio' \in BOOLEAN
      BY <2>1, Zenon DEF StartSession
    <3> QED
      BY <2>1, <3>1, <3>2 DEF StartSession, MachineStarts, MachineStates
  <2>2. CASE StartIgnored
    BY <2>2 DEF StartIgnored, controllerVars, sessionVars
  <2> QED
    BY <1>1, <2>1, <2>2 DEF ChordStarts
<1>2. ASSUME FinishRecording PROVE SessionTypeOK'
  <2>1. machine' \in MachineStates
    BY <1>2, StopTyped DEF FinishRecording, MachineStates
  <2>2. awaitingAudio' \in BOOLEAN
    BY <1>2, Zenon DEF FinishRecording
  <2> QED
    BY <1>2, <2>1, <2>2 DEF FinishRecording
<1>3. ASSUME NEW mode \in Modes, ChordDismissesNotice(mode) PROVE SessionTypeOK'
  BY <1>3 DEF ChordDismissesNotice, StartConsumed, sessionVars
<1>4. ASSUME NEW mode \in Modes, ChordCompletes(mode) PROVE SessionTypeOK'
  BY <1>4, <1>2 DEF ChordCompletes, controllerVars, sessionVars
<1>5. ASSUME ClearActive, UNCHANGED generation, machine' \in MachineStates PROVE SessionTypeOK'
  BY <1>5 DEF ClearActive
<1>6. CASE UiFinish \/ UiCancel
  <2>1. CASE UiCancel
    <3>1. machine' \in MachineStates
      BY <2>1, StopTyped DEF UiCancel, CancelRecording, MachineStates
    <3> QED
      BY <2>1, <3>1, <1>5 DEF UiCancel, CancelRecording
  <2> QED
    BY <1>6, <2>1, <1>2 DEF UiFinish
<1>7. CASE DismissNotice \/ HoverEnter \/ HoverLeave \/ UserTouchesMute
  BY <1>7 DEF DismissNotice, NoticeDismissed, HoverEnter, HoverLeave, UserTouchesMute,
              controllerVars, sessionVars
<1>8. ASSUME NEW s \in Sessions, MicOpens(s) PROVE SessionTypeOK'
  BY <1>8 DEF MicOpens, OnCaptureStarted, controllerVars, sessionVars
<1>9. ASSUME NEW s \in Sessions, CaptureFails(s) PROVE SessionTypeOK'
  <2>1. machine' \in MachineStates
    BY <1>9, StopTyped DEF CaptureFails, OnCaptureError, MachineStates
  <2> QED
    BY <1>9, <2>1, <1>5 DEF CaptureFails, OnCaptureError
<1>10. ASSUME NEW s \in Sessions, RecordingArrives(s) PROVE SessionTypeOK'
  BY <1>10, <1>5 DEF RecordingArrives, OnCaptureAudio
<1>11. ASSUME NEW s \in Sessions, PipelineStep(s) PROVE SessionTypeOK'
  BY <1>11, PipelineKeepsSession DEF sessionVars
<1>12. CASE TimerStep \/ OverlayStep
  BY <1>12 DEF TimerStep, SlowTimerFires, ObservationEnds, OverlayStep,
               controllerVars, sessionVars
<1>13. CASE UNCHANGED vars
  BY <1>13 DEF vars, controllerVars, sessionVars
<1> QED
  BY <1>1, <1>3, <1>4, <1>6, <1>7, <1>8, <1>9, <1>10, <1>11, <1>12, <1>13 DEF Next


(* Hovering, the volume keys and the overlay's timers do not reach the     *)
(* controller.                                                             *)
LEMMA QuietSteps ==
  ASSUME \/ HoverEnter \/ HoverLeave \/ UserTouchesMute \/ OverlayStep \/ UNCHANGED vars
  PROVE  UNCHANGED controllerVars
BY DEF HoverEnter, HoverLeave, UserTouchesMute, OverlayStep, vars

(* The notice and the face keep their type over every step.                *)
LEMMA NoticeTypeStep ==
  ASSUME SessionTypeOK, NoticeTypeOK, RunTypeOK, TimerTypeOK, [Next]_vars
  PROVE  NoticeTypeOK'
<1>1. ASSUME UNCHANGED noticeVars PROVE NoticeTypeOK'
  BY <1>1 DEF NoticeTypeOK, noticeVars
<1>2. ASSUME UNCHANGED controllerVars PROVE NoticeTypeOK'
  BY <1>1, <1>2 DEF controllerVars
<1>3. ASSUME NEW s \in Sessions, NEW phase \in Faces, Draw(s, phase),
             UNCHANGED <<attentionNotice, lastTerminalText>>
      PROVE  NoticeTypeOK'
  BY <1>3, DrawTyped DEF NoticeTypeOK
<1>4. ASSUME NEW mode \in Modes, ChordStarts(mode) PROVE NoticeTypeOK'
  <2>1. CASE StartSession(mode)
    <3>1. generation' \in Sessions /\ "listening" \in Faces
      BY <2>1, SessionAssumption DEF StartSession, Sessions, SessionTypeOK, Faces
    <3>2. face' \in [session : {None} \cup Sessions, phase : Faces]
      BY <2>1, <3>1, DrawTyped DEF StartSession
    <3>3. attentionNotice' \in BOOLEAN
      BY <2>1 DEF StartSession, AttentionAfter
    <3> QED
      BY <2>1, <3>2, <3>3 DEF StartSession, NoticeTypeOK
  <2> QED
    BY <1>4, <2>1, <1>2 DEF ChordStarts, StartIgnored
<1>5. ASSUME NEW mode \in Modes, ChordDismissesNotice(mode) PROVE NoticeTypeOK'
  <2>1. attentionNotice' \in BOOLEAN
    BY <1>5, Zenon DEF ChordDismissesNotice, StartConsumed
  <2> QED
    BY <1>5, <2>1 DEF ChordDismissesNotice, StartConsumed, NoticeTypeOK
<1>6. ASSUME FinishRecording PROVE NoticeTypeOK'
  <2>1. active \in Sessions /\ "thinking" \in Faces
    BY <1>6 DEF FinishRecording, SessionTypeOK, Faces
  <2> QED
    BY <1>6, <2>1, <1>3 DEF FinishRecording
<1>7. ASSUME NEW mode \in Modes, ChordCompletes(mode) PROVE NoticeTypeOK'
  BY <1>7, <1>6, <1>2 DEF ChordCompletes
<1>8. CASE UiCancel
  <2>1. active \in Sessions /\ "cancelled" \in Faces
    BY <1>8 DEF UiCancel, CancelRecording, SessionTypeOK, Faces
  <2> QED
    BY <1>8, <2>1, <1>3 DEF UiCancel, CancelRecording
<1>9. CASE DismissNotice
  <2>1. attentionNotice' \in BOOLEAN
    BY <1>9, Zenon DEF DismissNotice, NoticeDismissed
  <2> QED
    BY <1>9, <2>1 DEF DismissNotice, NoticeDismissed, NoticeTypeOK
<1>10. ASSUME NEW s \in Sessions, MicOpens(s) \/ RecordingArrives(s) PROVE NoticeTypeOK'
  BY <1>10, <1>1, <1>2 DEF MicOpens, OnCaptureStarted, RecordingArrives, OnCaptureAudio
<1>11. ASSUME NEW s \in Sessions, CaptureFails(s) PROVE NoticeTypeOK'
  BY <1>11, <1>1, EmitTyped DEF CaptureFails, OnCaptureError, ShowTerminal
<1>12. ASSUME NEW s \in Sessions, PipelineStep(s) PROVE NoticeTypeOK'
  <2> USE "floor" \in Waits, "error" \in TerminalEvents, "empty" \in TerminalEvents
      DEF Waits, TerminalEvents
  <2>1. ASSUME StartInserting(s) PROVE NoticeTypeOK'
    BY <2>1, <1>3 DEF StartInserting, Faces
  <2>2. ASSUME NEW event \in TerminalEvents, BeginTerminal(s, event, "floor") PROVE NoticeTypeOK'
    BY <2>2, BeginTerminalTyped DEF TimerTypeOK
  <2>3. CASE ContextArrives(s)
    BY <2>3, <2>2, <1>1 DEF ContextArrives, Abandon
  <2>4. CASE ModelAnswers(s)
    BY <2>4, <2>1, <2>2, <1>1 DEF ModelAnswers, BeforeInject, Abandon
  <2>5. CASE InsertFloorEnds(s)
    BY <2>5, <2>1, <1>1 DEF InsertFloorEnds
  <2>6. CASE InjectionEnds(s)
    BY <2>6, <2>2 DEF InjectionEnds
  <2>7. CASE FloorEnds(s)
    BY <2>7, <1>1, EmitTyped DEF FloorEnds, ShowTerminal
  <2> QED
    BY <1>12, <2>3, <2>4, <2>5, <2>6, <2>7 DEF PipelineStep
<1>13. CASE TimerStep
  BY <1>13, <1>1 DEF TimerStep, SlowTimerFires, ObservationEnds
<1> QED
  BY <1>2, <1>4, <1>5, <1>6, <1>7, <1>8, <1>9, <1>10, <1>11, <1>12, <1>13, QuietSteps
  DEF Next, UiFinish

(* The table of runs, the transports and the timers keep their type.       *)
LEMMA PipelineTypeStep ==
  ASSUME SessionTypeOK, NoticeTypeOK, PipelineTypeOK, TimerTypeOK, [Next]_vars
  PROVE  PipelineTypeOK' /\ TimerTypeOK'
<1> USE DEF PipelineTypeOK, TimerTypeOK
<1>1. ASSUME UNCHANGED pipelineVars PROVE PipelineTypeOK'
  BY <1>1 DEF pipelineVars, RunTypeOK
<1>2. ASSUME UNCHANGED controllerVars PROVE PipelineTypeOK' /\ TimerTypeOK'
  BY <1>1, <1>2 DEF controllerVars, timerVars
<1>3. ASSUME NEW s \in Sessions, NEW at \in Waits,
             NEW event \in TerminalEvents \cup {"none"}, Wait(s, at, event)
      PROVE  RunTypeOK'
  BY <1>3, WaitTyped DEF RunTypeOK
<1>4. ASSUME DisposeCurrentRun
      PROVE  currentRunDispose' \in {None} \cup Sessions /\ transports' \subseteq Sessions
  BY <1>4 DEF DisposeCurrentRun
<1>5. ASSUME NEW mode \in Modes, ChordStarts(mode) \/ ChordDismissesNotice(mode)
      PROVE PipelineTypeOK' /\ TimerTypeOK'
  BY <1>5, <1>4, <1>2 DEF ChordStarts, StartSession, StartIgnored, ChordDismissesNotice,
                          StartConsumed, timerVars, RunTypeOK
<1>6. ASSUME FinishRecording PROVE PipelineTypeOK' /\ TimerTypeOK'
  BY <1>6, <1>1 DEF FinishRecording, SessionTypeOK
<1>7. ASSUME NEW mode \in Modes, ChordCompletes(mode) PROVE PipelineTypeOK' /\ TimerTypeOK'
  BY <1>7, <1>6, <1>2 DEF ChordCompletes
<1>8. CASE UiCancel
  BY <1>8, <1>4 DEF UiCancel, CancelRecording, ClearSlowTimers, RunTypeOK
<1>9. CASE DismissNotice
  BY <1>9, <1>1 DEF DismissNotice, NoticeDismissed, timerVars
<1>10. ASSUME NEW s \in Sessions, MicOpens(s) PROVE PipelineTypeOK' /\ TimerTypeOK'
  BY <1>10, <1>2 DEF MicOpens, OnCaptureStarted
<1>11. ASSUME NEW s \in Sessions, RecordingArrives(s) PROVE PipelineTypeOK' /\ TimerTypeOK'
  <2>1. RunTypeOK'
    BY <1>11, <1>3 DEF RecordingArrives, OnCaptureAudio, Waits
  <2> QED
    BY <1>11, <2>1 DEF RecordingArrives, OnCaptureAudio, ClearSlowTimers
<1>12. ASSUME NEW s \in Sessions, CaptureFails(s) PROVE PipelineTypeOK' /\ TimerTypeOK'
  <2>1. RunTypeOK'
    <3>1. "errorFloor" \in Waits /\ "done" \in Waits /\ "error" \in TerminalEvents
      BY DEF Waits, TerminalEvents
    <3> QED
      BY <1>12, <3>1, <1>3 DEF CaptureFails, OnCaptureError
  <2>2. TimerTypeOK'
    BY <1>12 DEF CaptureFails, OnCaptureError, ClearSlowTimers
  <2> QED
    BY <1>12, <2>1, <2>2, <1>4 DEF CaptureFails, OnCaptureError
<1>13. ASSUME NEW s \in Sessions, PipelineStep(s) PROVE PipelineTypeOK' /\ TimerTypeOK'
  <2>1. slowTimers' \in 0 .. 2
    BY <1>13, PipelineKeepsSession
  <2>2. /\ {"floor", "done", "model", "inject", "insertFloor"} \subseteq Waits
        /\ {"error", "empty", "completed", "failed"} \subseteq TerminalEvents
    BY DEF Waits, TerminalEvents
  <2>3. ASSUME NEW event \in TerminalEvents, BeginTerminal(s, event, "floor")
        PROVE  RunTypeOK' /\ thinkingStartedAt' \in {None} \cup Sessions
    BY <2>2, <2>3, BeginTerminalTyped
  <2>4. ASSUME Abandon(s) \/ StartInserting(s) PROVE RunTypeOK'
    BY <2>2, <2>4, <1>3 DEF Abandon, StartInserting
  <2>5. ASSUME DisposeOwnRun(s)
        PROVE  currentRunDispose' \in {None} \cup Sessions /\ transports' \subseteq Sessions
    BY <2>5, DisposeTyped
  <2>6. CASE ContextArrives(s)
    <3>1. RunTypeOK' /\ thinkingStartedAt' \in {None} \cup Sessions
      BY <2>6, <2>2, <2>3, <2>4, <1>3 DEF ContextArrives, Abandon
    <3>2. currentRunDispose' \in {None} \cup Sessions /\ transports' \subseteq Sessions
      BY <2>6, <1>4 DEF ContextArrives
    <3> QED
      BY <2>6, <2>1, <3>1, <3>2 DEF ContextArrives
  <2>7. CASE ModelAnswers(s)
    <3>1. RunTypeOK' /\ thinkingStartedAt' \in {None} \cup Sessions
      BY <2>7, <2>2, <2>3, <2>4, <1>3 DEF ModelAnswers, BeforeInject, Abandon
    <3>2. currentRunDispose' \in {None} \cup Sessions /\ transports' \subseteq Sessions
      BY <2>7, <2>5 DEF ModelAnswers, BeforeInject
    <3> QED
      BY <2>7, <2>1, <3>1, <3>2 DEF ModelAnswers
  <2>8. CASE InsertFloorEnds(s)
    <3>1. RunTypeOK'
      BY <2>8, <2>2, <2>4, <1>3 DEF InsertFloorEnds
    <3> QED
      BY <2>8, <2>1, <3>1, <2>5 DEF InsertFloorEnds
  <2>9. CASE InjectionEnds(s)
    <3>1. RunTypeOK' /\ thinkingStartedAt' \in {None} \cup Sessions
      BY <2>9, <2>2, <2>3 DEF InjectionEnds
    <3> QED
      BY <2>9, <2>1, <3>1, <2>5 DEF InjectionEnds
  <2>10. CASE FloorEnds(s)
    <3>1. run[s].event \in TerminalEvents \cup {"none"}
      BY DEF RunTypeOK
    <3>2. RunTypeOK'
      BY <2>10, <3>1, <2>2, <1>3 DEF FloorEnds
    <3> QED
      BY <2>10, <3>2 DEF FloorEnds, timerVars
  <2> QED
    BY <1>13, <2>6, <2>7, <2>8, <2>9, <2>10 DEF PipelineStep
<1>14. CASE TimerStep
  BY <1>14, <1>1 DEF TimerStep, SlowTimerFires, ObservationEnds, timerVars, RunTypeOK
<1> QED
  BY <1>2, <1>5, <1>6, <1>7, <1>8, <1>9, <1>10, <1>11, <1>12, <1>13, <1>14, QuietSteps
  DEF Next, UiFinish

(* The controls sent keep their type.                                      *)
LEMMA ControlsTypeStep ==
  ASSUME SessionTypeOK, controls \subseteq ControlKinds \X Sessions, [Next]_vars
  PROVE  controls' \subseteq ControlKinds \X Sessions
<1>1. ASSUME UNCHANGED controllerVars PROVE controls' = controls
  BY <1>1 DEF controllerVars
<1>2. ASSUME NEW mode \in Modes, StartSession(mode)
      PROVE  controls' \subseteq ControlKinds \X Sessions
  <2>1. generation' \in Sessions /\ "begin" \in ControlKinds
    BY <1>2, SessionAssumption DEF StartSession, Sessions, SessionTypeOK, ControlKinds
  <2> QED
    BY <1>2, <2>1, SendTyped DEF StartSession
<1>3. ASSUME FinishRecording \/ CancelRecording
      PROVE  controls' \subseteq ControlKinds \X Sessions
  <2>1. active \in Sessions /\ {"finish", "cancel"} \subseteq ControlKinds
    BY <1>3 DEF FinishRecording, CancelRecording, SessionTypeOK, ControlKinds
  <2> QED
    BY <1>3, <2>1, SendTyped DEF FinishRecording, CancelRecording
<1>4. ASSUME NEW s \in Sessions, CaptureFails(s)
      PROVE  controls' \subseteq ControlKinds \X Sessions
  BY <1>4, SendTyped DEF CaptureFails, OnCaptureError, ControlKinds
<1>5. ASSUME NEW s \in Sessions, MicOpens(s) \/ RecordingArrives(s) \/ PipelineStep(s)
      PROVE  controls' = controls
  BY <1>1, <1>5, PipelineKeepsSession DEF MicOpens, OnCaptureStarted, RecordingArrives,
                                          OnCaptureAudio
<1>6. ASSUME NEW mode \in Modes,
             ChordStarts(mode) \/ ChordDismissesNotice(mode) \/ ChordCompletes(mode)
      PROVE  controls' \subseteq ControlKinds \X Sessions
  BY <1>1, <1>2, <1>3, <1>6 DEF ChordStarts, StartIgnored, ChordDismissesNotice,
                                StartConsumed, ChordCompletes
<1>7. CASE DismissNotice \/ TimerStep
  BY <1>7 DEF DismissNotice, NoticeDismissed, TimerStep, SlowTimerFires, ObservationEnds
<1> QED
  BY <1>1, <1>3, <1>4, <1>5, <1>6, <1>7, QuietSteps DEF Next, UiFinish, UiCancel

(* The toggle keeps its type.                                              *)
LEMMA CoordinatorTypeStep ==
  ASSUME CoordinatorTypeOK, [Next]_vars
  PROVE  CoordinatorTypeOK'
<1>1. ASSUME UNCHANGED chordMode PROVE CoordinatorTypeOK'
  BY <1>1 DEF CoordinatorTypeOK
<1>2. ASSUME NEW s \in Sessions,
             MicOpens(s) \/ CaptureFails(s) \/ RecordingArrives(s) \/ PipelineStep(s)
      PROVE  CoordinatorTypeOK'
  BY <1>1, <1>2 DEF MicOpens, CaptureFails, RecordingArrives, PipelineStep
<1>3. ASSUME NEW mode \in Modes,
             ChordStarts(mode) \/ ChordDismissesNotice(mode) \/ ChordCompletes(mode)
      PROVE  CoordinatorTypeOK'
  BY <1>3 DEF ChordStarts, ChordDismissesNotice, ChordCompletes, ResetCoordinator,
              CoordinatorTypeOK
<1>4. CASE \/ UiFinish \/ UiCancel \/ DismissNotice \/ HoverEnter \/ HoverLeave
           \/ UserTouchesMute \/ TimerStep \/ OverlayStep \/ UNCHANGED vars
  BY <1>1, <1>4 DEF UiFinish, UiCancel, DismissNotice, HoverEnter, HoverLeave,
                    UserTouchesMute, TimerStep, OverlayStep, vars
<1> QED
  BY <1>2, <1>3, <1>4 DEF Next

(* The initial state is typed.                                             *)
LEMMA InitTyped == Init => TypeOK
<1> SUFFICES ASSUME Init PROVE TypeOK
  OBVIOUS
<1> USE DEF Init
<1>1. SessionTypeOK /\ TimerTypeOK
  <2>1. awaitingAudio \in BOOLEAN
    BY Zenon DEF ControllerInit
  <2>2. generation \in 0 .. MaxSessions /\ slowTimers \in 0 .. 2
    BY SessionAssumption DEF ControllerInit
  <2> QED
    BY <2>1, <2>2 DEF ControllerInit, SessionTypeOK, TimerTypeOK, MachineStates
<1>2. NoticeTypeOK
  <2>1. attentionNotice \in BOOLEAN
    BY Zenon DEF ControllerInit
  <2>2. face \in [session : {None} \cup Sessions, phase : Faces]
    BY DEF ControllerInit, Faces
  <2> QED
    BY <2>1, <2>2 DEF ControllerInit, NoticeTypeOK
<1>3. PipelineTypeOK /\ controls \subseteq ControlKinds \X Sessions
  BY DEF ControllerInit, PipelineTypeOK, RunTypeOK, Waits
<1>4. OverlayTypeOK
  BY DEF OverlayInit, OverlayTypeOK
<1>5. MuteTypeOK /\ CoordinatorTypeOK
  BY DEF MuteInit, MuteTypeOK, CoordinatorInit, CoordinatorTypeOK
<1> QED
  BY <1>1, <1>2, <1>3, <1>4, <1>5 DEF TypeOK, ControllerTypeOK

(* Every step keeps every variable of the runtime typed.                   *)
LEMMA TypeStep == TypeOK /\ [Next]_vars => TypeOK'
<1> SUFFICES ASSUME TypeOK, [Next]_vars PROVE TypeOK'
  OBVIOUS
<1> USE DEF TypeOK, ControllerTypeOK
<1>1. SessionTypeOK' /\ controls' \subseteq ControlKinds \X Sessions
  BY SessionTypeStep, ControlsTypeStep
<1>2. NoticeTypeOK'
  BY NoticeTypeStep DEF PipelineTypeOK
<1>3. PipelineTypeOK' /\ TimerTypeOK'
  BY PipelineTypeStep
<1>4. OverlayTypeOK'
  BY StepMovesOverlay, OverlayTyped
<1>5. MuteTypeOK'
  BY StepMovesMute, MuteTyped
<1>6. CoordinatorTypeOK'
  BY CoordinatorTypeStep
<1> QED
  BY <1>1, <1>2, <1>3, <1>4, <1>5, <1>6

(* In every behaviour of the runtime every variable keeps its type.        *)
THEOREM TypeCorrect == Spec => []TypeOK
BY InitTyped, TypeStep, PTL DEF Spec

-----------------------------------------------------------------------------
(* Safety.  RuntimeInv is the conjunction of the invariants with the types.  *)
(* One lemma per conjunct shows that a step preserves it, from the conjuncts *)
(* it needs.                                                                *)

(* The parts of TypeOK that the steps below need.                          *)
LEMMA TypeFacts ==
  ASSUME TypeOK
  PROVE  SessionTypeOK /\ NoticeTypeOK /\ PipelineTypeOK /\ RunTypeOK /\ TimerTypeOK
BY DEF TypeOK, ControllerTypeOK, PipelineTypeOK

(* A pipeline step moves only its own session's wait, from a wait of the   *)
(* pipeline to another one or to the end.                                  *)
LEMMA PipelineMovesOwnRun ==
  ASSUME TypeOK, NEW s \in Sessions, PipelineStep(s)
  PROVE  /\ run[s].at \notin {"none", "done"}
         /\ \E at \in Waits \ {"none"} : \E event : Wait(s, at, event)
<1> USE DEF Waits, Wait
<1>1. ASSUME NEW event, BeginTerminal(s, event, "floor")
      PROVE  \E at \in Waits \ {"none"} : \E e : Wait(s, at, e)
  BY <1>1 DEF BeginTerminal
<1>2. ASSUME Abandon(s) \/ StartInserting(s)
      PROVE  \E at \in Waits \ {"none"} : \E e : Wait(s, at, e)
  BY <1>2 DEF Abandon, StartInserting
<1>3. CASE ContextArrives(s)
  BY <1>3, <1>1, <1>2 DEF ContextArrives
<1>4. CASE ModelAnswers(s)
  BY <1>4, <1>1, <1>2 DEF ModelAnswers, BeforeInject
<1>5. CASE InsertFloorEnds(s)
  BY <1>5, <1>2 DEF InsertFloorEnds
<1>6. CASE InjectionEnds(s)
  BY <1>6, <1>1 DEF InjectionEnds
<1>7. CASE FloorEnds(s)
  BY <1>7 DEF FloorEnds, AtFloor
<1> QED
  BY <1>3, <1>4, <1>5, <1>6, <1>7 DEF PipelineStep

(* Slot, controls and pipelines stay in agreement over every step.         *)
LEMMA SlotConsistentStep ==
  ASSUME TypeOK, SlotConsistent, [Next]_vars
  PROVE  SlotConsistent'
<1> USE DEF SlotConsistent, None
<1>1. SessionTypeOK /\ RunTypeOK /\ controls \subseteq ControlKinds \X Sessions
  BY DEF TypeOK, ControllerTypeOK, PipelineTypeOK
<1>2. ASSUME UNCHANGED <<active, activeMode, generation, awaitingAudio, controls, run>>
      PROVE  SlotConsistent'
  BY <1>2
<1>3. ASSUME UNCHANGED controllerVars PROVE SlotConsistent'
  BY <1>2, <1>3 DEF controllerVars, sessionVars, pipelineVars
<1>4. ASSUME NEW mode \in Modes, StartSession(mode) PROVE SlotConsistent'
  <2>1. generation' = generation + 1 /\ generation \in Nat /\ active' = generation'
    BY <1>1, <1>4, SessionAssumption DEF StartSession, SessionTypeOK
  <2>2. \A control \in controls' : control[2] <= generation'
    BY <1>1, <1>4, <2>1 DEF StartSession, SendControl, ControlKinds, Sessions
  <2>3. <<"finish", active'>> \notin controls'
    BY <1>1, <1>4, <2>1 DEF StartSession, SendControl
  <2>4. \A s \in Sessions : s > generation' \/ active' = s => run'[s].at = "none"
    BY <1>4, <2>1 DEF StartSession, Sessions
  <2> QED
    BY <1>4, <2>1, <2>2, <2>3, <2>4 DEF StartSession
<1>5. ASSUME FinishRecording PROVE SlotConsistent'
  <2>1. \A control \in controls' : control[2] <= generation'
    BY <1>1, <1>5 DEF FinishRecording, SendControl, SessionTypeOK
  <2> QED
    BY <1>5, <2>1 DEF FinishRecording, pipelineVars
<1>6. ASSUME CancelRecording PROVE SlotConsistent'
  <2>1. \A control \in controls' : control[2] <= generation'
    BY <1>1, <1>6 DEF CancelRecording, SendControl, SessionTypeOK
  <2>2. active' = None /\ UNCHANGED <<generation, run>>
    BY <1>6 DEF CancelRecording, ClearActive
  <2>3. \A s \in Sessions : s > generation' \/ active' = s => run'[s].at = "none"
    BY <2>2 DEF Sessions
  <2> QED
    BY <2>1, <2>2, <2>3
<1>7. ASSUME NEW s \in Sessions, CaptureFails(s) PROVE SlotConsistent'
  <2>1. active = s /\ active' = None /\ UNCHANGED generation
    BY <1>7 DEF CaptureFails, OnCaptureError, ClearActive
  <2>2. \A control \in controls' : control[2] <= generation'
    BY <1>1, <1>7, <2>1 DEF CaptureFails, OnCaptureError, SendControl, SessionTypeOK, Sessions
  <2>3. \A t \in Sessions : t # s => run'[t] = run[t]
    BY <1>1, <1>7 DEF CaptureFails, OnCaptureError, Wait, RunTypeOK
  <2>4. \A t \in Sessions : t > generation' \/ active' = t => run'[t].at = "none"
    BY <1>1, <2>1, <2>3 DEF Sessions, SessionTypeOK
  <2> QED
    BY <2>1, <2>2, <2>4
<1>8. ASSUME NEW s \in Sessions, RecordingArrives(s) PROVE SlotConsistent'
  <2>1. active = s /\ active' = None /\ UNCHANGED <<generation, controls>>
    BY <1>8 DEF RecordingArrives, OnCaptureAudio, ClearActive
  <2>2. \A t \in Sessions : t # s => run'[t] = run[t]
    BY <1>1, <1>8 DEF RecordingArrives, OnCaptureAudio, Wait, RunTypeOK
  <2>3. \A t \in Sessions : t > generation' \/ active' = t => run'[t].at = "none"
    BY <1>1, <2>1, <2>2 DEF Sessions, SessionTypeOK
  <2> QED
    BY <2>1, <2>3
<1>9. ASSUME NEW s \in Sessions, PipelineStep(s) PROVE SlotConsistent'
  <2>1. UNCHANGED <<active, activeMode, generation, awaitingAudio, controls>>
    BY <1>9, PipelineKeepsSession DEF sessionVars
  <2>2. \A t \in Sessions : t # s => run'[t] = run[t]
    BY <1>1, <1>9, PipelineMovesOwnRun DEF Wait, RunTypeOK
  <2>3. run[s].at # "none"
    BY <1>9, PipelineMovesOwnRun
  <2> QED
    BY <2>1, <2>2, <2>3
<1>10. ASSUME NEW mode \in Modes,
              ChordStarts(mode) \/ ChordDismissesNotice(mode) \/ ChordCompletes(mode)
       PROVE  SlotConsistent'
  BY <1>10, <1>2, <1>3, <1>4, <1>5 DEF ChordStarts, StartIgnored, ChordDismissesNotice,
     StartConsumed, ChordCompletes, sessionVars
<1>11. CASE DismissNotice \/ TimerStep
  BY <1>11, <1>2 DEF DismissNotice, NoticeDismissed, TimerStep, SlowTimerFires,
                     ObservationEnds, sessionVars, pipelineVars
<1>12. ASSUME NEW s \in Sessions, MicOpens(s) PROVE SlotConsistent'
  BY <1>12, <1>3 DEF MicOpens, OnCaptureStarted
<1> QED
  BY <1>3, <1>5, <1>6, <1>7, <1>8, <1>9, <1>10, <1>11, <1>12, QuietSteps
  DEF Next, UiFinish, UiCancel

(* After a release the coordinator does not hold the device.               *)
LEMMA ReleaseDisengages == ASSUME ReleaseMute PROVE ~engaged'
BY DEF ReleaseMute

(* No step leaves the device held with nobody listening.                   *)
LEMMA MutedStep ==
  ASSUME TypeOK, SlotConsistent, MutedOnlyWhileListening, [Next]_vars
  PROVE  MutedOnlyWhileListening'
<1> USE DEF MutedOnlyWhileListening, Listening
<1>1. ASSUME ~engaged' PROVE MutedOnlyWhileListening'
  BY <1>1
<1>2. ASSUME ReleaseMute PROVE MutedOnlyWhileListening'
  BY <1>1, <1>2, ReleaseDisengages
<1>3. ASSUME engaged' = engaged, UNCHANGED <<active, awaitingAudio>>
      PROVE  MutedOnlyWhileListening'
  BY <1>3
<1>4. ASSUME UNCHANGED muteVars, UNCHANGED <<active, awaitingAudio>>
      PROVE  MutedOnlyWhileListening'
  BY <1>3, <1>4 DEF muteVars
<1>5. ASSUME UNCHANGED controllerVars, UNCHANGED muteVars PROVE MutedOnlyWhileListening'
  BY <1>4, <1>5 DEF controllerVars, sessionVars
<1>6. ASSUME NEW mode \in Modes, StartSession(mode), UNCHANGED muteVars
      PROVE  MutedOnlyWhileListening'
  BY <1>6 DEF StartSession, muteVars
<1>7. ASSUME NEW mode \in Modes,
             ChordStarts(mode) \/ ChordDismissesNotice(mode) \/ ChordCompletes(mode)
      PROVE  MutedOnlyWhileListening'
  BY <1>7, <1>2, <1>4, <1>5, <1>6 DEF ChordStarts, StartIgnored, ChordDismissesNotice,
     StartConsumed, ChordCompletes, FinishRecording, sessionVars
<1>8. CASE UiFinish \/ UiCancel
  BY <1>8, <1>2 DEF UiFinish, UiCancel, FinishRecording, CancelRecording
<1>9. CASE DismissNotice \/ TimerStep
  BY <1>9, <1>4 DEF DismissNotice, NoticeDismissed, TimerStep, SlowTimerFires,
                    ObservationEnds, sessionVars
<1>10. CASE UserTouchesMute
  BY <1>10, <1>3 DEF UserTouchesMute, UserTogglesMute, controllerVars, sessionVars
<1>11. CASE HoverEnter \/ HoverLeave \/ OverlayStep \/ UNCHANGED vars
  BY <1>11, <1>5 DEF HoverEnter, HoverLeave, OverlayStep, vars
<1>12. ASSUME NEW s \in Sessions, MicOpens(s) PROVE MutedOnlyWhileListening'
  BY <1>12 DEF MicOpens, OnCaptureStarted, controllerVars, sessionVars, Sessions, None
<1>13. ASSUME NEW s \in Sessions, CaptureFails(s) PROVE MutedOnlyWhileListening'
  BY <1>13, <1>2 DEF CaptureFails, OnCaptureError
<1>14. ASSUME NEW s \in Sessions, RecordingArrives(s) PROVE MutedOnlyWhileListening'
  <2>1. active # None /\ <<"finish", active>> \in controls
    BY <1>14 DEF RecordingArrives, OnCaptureAudio, Sessions, None
  <2>2. ~engaged
    BY <2>1 DEF SlotConsistent
  <2> QED
    BY <1>14, <2>2 DEF RecordingArrives, OnCaptureAudio, muteVars
<1>15. ASSUME NEW s \in Sessions, PipelineStep(s) PROVE MutedOnlyWhileListening'
  <2>1. UNCHANGED <<active, awaitingAudio>>
    BY <1>15, PipelineKeepsSession DEF sessionVars
  <2> QED
    BY <1>2, <1>4, <1>15, <2>1 DEF PipelineStep, ContextArrives, ModelAnswers,
       InsertFloorEnds, InjectionEnds, FloorEnds, EndOfRun
<1> QED
  BY <1>7, <1>8, <1>9, <1>10, <1>11, <1>12, <1>13, <1>14, <1>15 DEF Next

(* No step ends a session's listening without a control that stops its     *)
(* microphone.                                                             *)
LEMMA MicReleasedStep ==
  ASSUME TypeOK, SlotConsistent, MicAlwaysReleased, [Next]_vars
  PROVE  MicAlwaysReleased'
<1> USE DEF MicAlwaysReleased, SlotConsistent, SendControl, None
<1>1. SessionTypeOK
  BY TypeFacts
<1>2. ASSUME UNCHANGED <<generation, active, awaitingAudio, controls>>
      PROVE  MicAlwaysReleased'
  BY <1>2
<1>3. ASSUME UNCHANGED controllerVars PROVE MicAlwaysReleased'
  BY <1>2, <1>3 DEF controllerVars, sessionVars
<1>4. ASSUME NEW mode \in Modes, StartSession(mode) PROVE MicAlwaysReleased'
  BY <1>1, <1>4 DEF StartSession, SessionTypeOK, Sessions
<1>5. ASSUME FinishRecording PROVE MicAlwaysReleased'
  BY <1>5 DEF FinishRecording
<1>6. ASSUME CancelRecording PROVE MicAlwaysReleased'
  BY <1>6 DEF CancelRecording, ClearActive
<1>7. ASSUME NEW s \in Sessions, CaptureFails(s) PROVE MicAlwaysReleased'
  BY <1>7 DEF CaptureFails, OnCaptureError, ClearActive
<1>8. ASSUME NEW s \in Sessions, RecordingArrives(s) PROVE MicAlwaysReleased'
  BY <1>8 DEF RecordingArrives, OnCaptureAudio, ClearActive
<1>9. ASSUME NEW s \in Sessions, MicOpens(s) \/ PipelineStep(s) PROVE MicAlwaysReleased'
  BY <1>2, <1>3, <1>9, PipelineKeepsSession DEF MicOpens, OnCaptureStarted, sessionVars
<1>10. ASSUME NEW mode \in Modes,
              ChordStarts(mode) \/ ChordDismissesNotice(mode) \/ ChordCompletes(mode)
       PROVE  MicAlwaysReleased'
  BY <1>10, <1>2, <1>3, <1>4, <1>5 DEF ChordStarts, StartIgnored, ChordDismissesNotice,
     StartConsumed, ChordCompletes, sessionVars
<1>11. CASE DismissNotice \/ TimerStep
  BY <1>11, <1>2 DEF DismissNotice, NoticeDismissed, TimerStep, SlowTimerFires,
                     ObservationEnds, sessionVars
<1> QED
  BY <1>3, <1>5, <1>6, <1>7, <1>8, <1>9, <1>10, <1>11, QuietSteps
  DEF Next, UiFinish, UiCancel

(* What a pipeline step may show: nothing, or what belongs to the newest   *)
(* session while nobody records.                                           *)
LEMMA PipelineShows ==
  ASSUME TypeOK, SlotConsistent, NEW s \in Sessions, PipelineStep(s)
  PROVE  \/ UNCHANGED <<noticeVars, overlayVars>>
         \/ /\ s = generation /\ active = None
            /\ \/ StartInserting(s)
               \/ \E event : ShowTerminal(s, event) /\ Wait(s, "done", event)
<1> DEFINE Newest == s = generation /\ active = None
           Shows(event) == ShowTerminal(s, event) /\ Wait(s, "done", event)
<1>1. ASSUME ~Superseded(s) PROVE Newest
  <2>1. run[s].at # "none"
    BY PipelineMovesOwnRun
  <2> QED
    BY <1>1, <2>1 DEF Superseded, SlotConsistent
<1>2. ASSUME NEW event, NEW wait, BeginTerminal(s, event, wait)
      PROVE  UNCHANGED <<noticeVars, overlayVars>> \/ (Newest /\ Shows(event))
  BY <1>1, <1>2 DEF BeginTerminal
<1> HIDE DEF Newest, Shows
<1>3. CASE ContextArrives(s)
  <2>1. \/ UNCHANGED <<noticeVars, overlayVars>>
        \/ \E event : BeginTerminal(s, event, "floor")
    BY <1>3 DEF ContextArrives, Abandon
  <2> QED
    BY <2>1, <1>2 DEF Newest, Shows
<1>4. CASE ModelAnswers(s)
  <2>1. \/ UNCHANGED <<noticeVars, overlayVars>>
        \/ StartInserting(s) /\ Newest
        \/ \E event : BeginTerminal(s, event, "floor")
    BY <1>1, <1>4 DEF ModelAnswers, BeforeInject, Abandon
  <2> QED
    BY <2>1, <1>2 DEF Newest, Shows
<1>5. CASE InsertFloorEnds(s)
  BY <1>1, <1>5 DEF InsertFloorEnds, Newest
<1>6. CASE InjectionEnds(s)
  <2>1. \E event : BeginTerminal(s, event, "floor")
    BY <1>6 DEF InjectionEnds
  <2> QED
    BY <2>1, <1>2 DEF Newest, Shows
<1>7. CASE FloorEnds(s)
  BY <1>1, <1>7 DEF FloorEnds, Newest
<1> QED
  BY <1>3, <1>4, <1>5, <1>6, <1>7 DEF PipelineStep

(* No step gives the capsule to an older session.                          *)
LEMMA FaceStep ==
  ASSUME TypeOK, SlotConsistent, FaceShowsNewest, [Next]_vars
  PROVE  FaceShowsNewest'
<1> USE DEF FaceShowsNewest, Listening, Draw
<1>1. ASSUME UNCHANGED <<generation, active, awaitingAudio, face>> PROVE FaceShowsNewest'
  BY <1>1
<1>2. ASSUME UNCHANGED controllerVars PROVE FaceShowsNewest'
  BY <1>1, <1>2 DEF controllerVars, sessionVars, noticeVars
<1>3. ASSUME NEW mode \in Modes, StartSession(mode) PROVE FaceShowsNewest'
  BY <1>3 DEF StartSession
<1>4. ASSUME FinishRecording PROVE FaceShowsNewest'
  BY <1>4 DEF FinishRecording, SlotConsistent
<1>5. ASSUME CancelRecording PROVE FaceShowsNewest'
  BY <1>5 DEF CancelRecording, ClearActive, SlotConsistent
<1>6. ASSUME NEW s, NEW event, ShowTerminal(s, event), s = generation, active' = None,
             UNCHANGED generation
      PROVE  FaceShowsNewest'
  BY <1>6 DEF ShowTerminal, EmitTerminal
<1>7. ASSUME NEW s \in Sessions, CaptureFails(s) PROVE FaceShowsNewest'
  <2>1. s = generation /\ active' = None /\ UNCHANGED generation
    BY <1>7 DEF CaptureFails, OnCaptureError, ClearActive, SlotConsistent, Sessions, None
  <2>2. CASE UNCHANGED noticeVars
    BY <2>1, <2>2 DEF noticeVars
  <2> QED
    BY <1>6, <1>7, <2>1, <2>2 DEF CaptureFails, OnCaptureError
<1>8. ASSUME NEW s \in Sessions, RecordingArrives(s) PROVE FaceShowsNewest'
  BY <1>8 DEF RecordingArrives, OnCaptureAudio, ClearActive, noticeVars
<1>9. ASSUME NEW s \in Sessions, PipelineStep(s) PROVE FaceShowsNewest'
  <2>1. UNCHANGED <<generation, active, awaitingAudio>>
    BY <1>9, PipelineKeepsSession DEF sessionVars
  <2>2. CASE UNCHANGED noticeVars
    BY <1>1, <2>1, <2>2 DEF noticeVars
  <2>3. CASE s = generation /\ active = None /\ StartInserting(s)
    BY <2>1, <2>3 DEF StartInserting
  <2> QED
    BY <1>6, <1>9, <2>1, <2>2, <2>3, PipelineShows
<1>10. ASSUME NEW s \in Sessions, MicOpens(s) PROVE FaceShowsNewest'
  BY <1>2, <1>10 DEF MicOpens, OnCaptureStarted
<1>11. ASSUME NEW mode \in Modes,
              ChordStarts(mode) \/ ChordDismissesNotice(mode) \/ ChordCompletes(mode)
       PROVE  FaceShowsNewest'
  BY <1>1, <1>2, <1>3, <1>4, <1>11 DEF ChordStarts, StartIgnored, ChordDismissesNotice,
     StartConsumed, ChordCompletes, sessionVars
<1>12. CASE DismissNotice \/ TimerStep
  BY <1>1, <1>12 DEF DismissNotice, NoticeDismissed, TimerStep, SlowTimerFires,
                     ObservationEnds, sessionVars, noticeVars
<1> QED
  BY <1>2, <1>4, <1>5, <1>7, <1>8, <1>9, <1>10, <1>11, <1>12, QuietSteps
  DEF Next, UiFinish, UiCancel

(* No step shows an outcome before the newest session's pipeline is        *)
(* through.                                                                *)
LEMMA NoEarlyOutcomeStep ==
  ASSUME TypeOK, SlotConsistent, FaceShowsNewest, NoEarlyOutcome, [Next]_vars
  PROVE  NoEarlyOutcome'
<1> USE DEF NoEarlyOutcome
<1>1. SessionTypeOK /\ RunTypeOK
  BY TypeFacts
<1>2. ASSUME UNCHANGED <<generation, run, face>> PROVE NoEarlyOutcome'
  BY <1>2
<1>3. ASSUME UNCHANGED controllerVars PROVE NoEarlyOutcome'
  BY <1>2, <1>3 DEF controllerVars, sessionVars, noticeVars, pipelineVars
<1>4. ASSUME NEW mode \in Modes, StartSession(mode) PROVE NoEarlyOutcome'
  BY <1>4 DEF StartSession, Draw
<1>5. ASSUME FinishRecording PROVE NoEarlyOutcome'
  BY <1>5 DEF FinishRecording, Draw
<1>6. ASSUME CancelRecording PROVE NoEarlyOutcome'
  <2>1. \A s \in Sessions : s = generation => run[s].at = "none"
    BY <1>6 DEF CancelRecording, SlotConsistent
  <2> QED
    BY <1>6, <2>1 DEF CancelRecording
<1>7. ASSUME NEW s \in Sessions, active = s, NEW at, NEW event, Wait(s, at, event),
             UNCHANGED <<generation, face>>
      PROVE  NoEarlyOutcome'
  <2>1. s = generation /\ face.phase \in {"listening", "thinking"}
    BY <1>1, <1>7 DEF SlotConsistent, FaceShowsNewest, Listening, Sessions, None, SessionTypeOK
  <2> QED
    BY <1>7, <2>1
<1>8. ASSUME NEW s \in Sessions, s = generation, NEW event, Wait(s, "done", event),
             UNCHANGED generation
      PROVE  NoEarlyOutcome'
  BY <1>1, <1>8 DEF Wait, RunTypeOK
<1>9. ASSUME NEW s \in Sessions, CaptureFails(s) PROVE NoEarlyOutcome'
  <2>1. s = generation /\ UNCHANGED generation
    BY <1>9 DEF CaptureFails, OnCaptureError, SlotConsistent, Sessions, None
  <2> QED
    BY <1>7, <1>8, <1>9, <2>1 DEF CaptureFails, OnCaptureError, noticeVars
<1>10. ASSUME NEW s \in Sessions, RecordingArrives(s) PROVE NoEarlyOutcome'
  BY <1>7, <1>10 DEF RecordingArrives, OnCaptureAudio, noticeVars
<1>11. ASSUME NEW s \in Sessions, PipelineStep(s) PROVE NoEarlyOutcome'
  <2>1. UNCHANGED generation
    BY <1>11, PipelineKeepsSession DEF sessionVars
  <2>2. /\ run[s].at \notin {"none", "done"}
        /\ \A t \in Sessions : t # s => run'[t] = run[t]
    BY <1>1, <1>11, PipelineMovesOwnRun DEF Wait, RunTypeOK
  <2>3. CASE UNCHANGED noticeVars
    BY <2>1, <2>2, <2>3 DEF noticeVars
  <2>4. CASE s = generation /\ StartInserting(s)
    BY <2>4 DEF StartInserting, Draw
  <2> QED
    BY <1>8, <1>11, <2>1, <2>3, <2>4, PipelineShows
<1>12. ASSUME NEW s \in Sessions, MicOpens(s) PROVE NoEarlyOutcome'
  BY <1>3, <1>12 DEF MicOpens, OnCaptureStarted
<1>13. ASSUME NEW mode \in Modes,
              ChordStarts(mode) \/ ChordDismissesNotice(mode) \/ ChordCompletes(mode)
       PROVE  NoEarlyOutcome'
  BY <1>2, <1>3, <1>4, <1>5, <1>13 DEF ChordStarts, StartIgnored, ChordDismissesNotice,
     StartConsumed, ChordCompletes, sessionVars
<1>14. CASE DismissNotice \/ TimerStep
  BY <1>2, <1>14 DEF DismissNotice, NoticeDismissed, TimerStep, SlowTimerFires,
                     ObservationEnds, sessionVars, noticeVars, pipelineVars
<1> QED
  BY <1>3, <1>5, <1>6, <1>9, <1>10, <1>11, <1>12, <1>13, <1>14, QuietSteps
  DEF Next, UiFinish, UiCancel

(* The notice that swallows a start gesture is the one on screen.          *)
LEMMA AttentionStep ==
  ASSUME TypeOK, SlotConsistent, FaceShowsNewest, NoEarlyOutcome, AttentionIsVisible,
         [Next]_vars
  PROVE  AttentionIsVisible'
<1> USE DEF AttentionIsVisible
<1>1. SessionTypeOK
  BY TypeFacts
<1>2. ASSUME UNCHANGED <<active, face>>, attentionNotice' => attentionNotice
      PROVE  AttentionIsVisible'
  BY <1>2
<1>3. ASSUME UNCHANGED controllerVars PROVE AttentionIsVisible'
  BY <1>2, <1>3 DEF controllerVars, sessionVars, noticeVars
<1>4. ASSUME ~attentionNotice' PROVE AttentionIsVisible'
  BY <1>4
<1>5. ASSUME NEW mode \in Modes, StartSession(mode) PROVE AttentionIsVisible'
  BY <1>4, <1>5 DEF StartSession, AttentionAfter
<1>6. ASSUME FinishRecording \/ CancelRecording PROVE AttentionIsVisible'
  BY <1>4, <1>6 DEF FinishRecording, CancelRecording
<1>7. ASSUME NEW s, NEW event, ShowTerminal(s, event), active' = None,
             ~attentionNotice
      PROVE  AttentionIsVisible'
  BY <1>7 DEF ShowTerminal, EmitTerminal, AttentionAfter, Draw, FacePhase
<1>8. ASSUME NEW s \in Sessions, CaptureFails(s) PROVE AttentionIsVisible'
  <2>1. active # None /\ active' = None
    BY <1>8 DEF CaptureFails, OnCaptureError, ClearActive, Sessions, None
  <2>2. ~attentionNotice
    BY <2>1
  <2> QED
    BY <1>4, <1>7, <1>8, <2>1, <2>2 DEF CaptureFails, OnCaptureError, noticeVars
<1>9. ASSUME NEW s \in Sessions, RecordingArrives(s) PROVE AttentionIsVisible'
  BY <1>9 DEF RecordingArrives, OnCaptureAudio, ClearActive, noticeVars, Sessions, None
<1>10. ASSUME NEW s \in Sessions, PipelineStep(s) PROVE AttentionIsVisible'
  <2>1. UNCHANGED active
    BY <1>10, PipelineKeepsSession DEF sessionVars
  <2>2. CASE UNCHANGED noticeVars
    BY <1>2, <2>1, <2>2 DEF noticeVars
  <2>3. CASE s = generation /\ active = None
    <3>1. face.phase \notin {"completed", "cancelled", "failed"}
      BY <1>10, <2>3, PipelineMovesOwnRun DEF NoEarlyOutcome
    <3>2. ~attentionNotice
      BY <3>1
    <3>3. CASE StartInserting(s)
      BY <1>4, <3>2, <3>3 DEF StartInserting
    <3>4. CASE \E event : ShowTerminal(s, event)
      BY <1>7, <2>1, <2>3, <3>2, <3>4
    <3> QED
      BY <1>10, <2>2, <3>3, <3>4, PipelineShows
  <2> QED
    BY <1>10, <2>2, <2>3, PipelineShows
<1>11. ASSUME NEW s \in Sessions, MicOpens(s) PROVE AttentionIsVisible'
  BY <1>3, <1>11 DEF MicOpens, OnCaptureStarted
<1>12. ASSUME NEW mode \in Modes,
              ChordStarts(mode) \/ ChordDismissesNotice(mode) \/ ChordCompletes(mode)
       PROVE  AttentionIsVisible'
  BY <1>3, <1>4, <1>5, <1>6, <1>12 DEF ChordStarts, StartIgnored, ChordDismissesNotice,
     StartConsumed, ChordCompletes
<1>13. CASE DismissNotice
  BY <1>4, <1>13 DEF DismissNotice, NoticeDismissed
<1>14. CASE TimerStep
  BY <1>2, <1>14 DEF TimerStep, SlowTimerFires, ObservationEnds, sessionVars, noticeVars
<1> QED
  BY <1>3, <1>6, <1>8, <1>9, <1>10, <1>11, <1>12, <1>13, <1>14, QuietSteps
  DEF Next, UiFinish, UiCancel

(* No step plans a hide over a live session.                               *)
LEMMA CapsuleStep ==
  ASSUME TypeOK, SlotConsistent, LiveSessionKeepsCapsule, [Next]_vars
  PROVE  LiveSessionKeepsCapsule'
<1> USE DEF LiveSessionKeepsCapsule
<1>1. ASSUME UNCHANGED active, UNCHANGED overlayVars PROVE LiveSessionKeepsCapsule'
  BY <1>1 DEF overlayVars, HasPendingHide
<1>2. ASSUME active' = None PROVE LiveSessionKeepsCapsule'
  BY <1>2
<1>3. ASSUME HasPendingHide, UNCHANGED active PROVE LiveSessionKeepsCapsule'
  BY <1>3
<1>4. ASSUME NEW mode \in Modes, ChordStarts(mode) PROVE LiveSessionKeepsCapsule'
  <2>1. CASE StartSession(mode)
    BY <2>1 DEF StartSession, ShowCapsule, HasPendingHide
  <2> QED
    BY <1>1, <1>4, <2>1 DEF ChordStarts, StartIgnored, controllerVars, sessionVars
<1>5. ASSUME NEW mode \in Modes, ChordDismissesNotice(mode) PROVE LiveSessionKeepsCapsule'
  BY <1>3, <1>5 DEF ChordDismissesNotice, StartConsumed, sessionVars
<1>6. ASSUME FinishRecording PROVE LiveSessionKeepsCapsule'
  BY <1>1, <1>6 DEF FinishRecording
<1>7. ASSUME NEW mode \in Modes, ChordCompletes(mode) PROVE LiveSessionKeepsCapsule'
  BY <1>1, <1>6, <1>7 DEF ChordCompletes, controllerVars, sessionVars
<1>8. CASE UiCancel
  BY <1>2, <1>8 DEF UiCancel, CancelRecording, ClearActive
<1>9. CASE DismissNotice
  BY <1>9 DEF DismissNotice, NoticeDismissed, ExpediteHide, HasPendingHide, sessionVars
<1>10. CASE HoverEnter \/ HoverLeave
  BY <1>3, <1>10 DEF HoverEnter, PauseHide, HoverLeave, ResumeHide, HasPendingHide,
                     controllerVars, sessionVars
<1>11. CASE OverlayStep
  BY <1>11 DEF OverlayStep, RevealFires, HideFires, HasPendingHide, controllerVars,
               sessionVars
<1>12. CASE UserTouchesMute \/ TimerStep \/ UNCHANGED vars
  BY <1>1, <1>12 DEF UserTouchesMute, TimerStep, SlowTimerFires, ObservationEnds, vars,
                     controllerVars, sessionVars
<1>13. ASSUME NEW s \in Sessions, MicOpens(s) PROVE LiveSessionKeepsCapsule'
  BY <1>1, <1>13 DEF MicOpens, OnCaptureStarted, controllerVars, sessionVars
<1>14. ASSUME NEW s \in Sessions, CaptureFails(s) \/ RecordingArrives(s)
       PROVE  LiveSessionKeepsCapsule'
  BY <1>2, <1>14 DEF CaptureFails, OnCaptureError, RecordingArrives, OnCaptureAudio,
                     ClearActive
<1>15. ASSUME NEW s \in Sessions, PipelineStep(s) PROVE LiveSessionKeepsCapsule'
  <2>1. UNCHANGED active
    BY <1>15, PipelineKeepsSession DEF sessionVars
  <2> QED
    BY <1>1, <1>2, <1>15, <2>1, PipelineShows
<1> QED
  BY <1>4, <1>5, <1>6, <1>7, <1>8, <1>9, <1>10, <1>11, <1>12, <1>13, <1>14, <1>15
  DEF Next, UiFinish

(* Toggle and controller agree on the listening mode.                      *)
LEMMA OwnChordStep ==
  ASSUME TypeOK, SlotConsistent, OwnChordStops, [Next]_vars
  PROVE  OwnChordStops'
<1> USE DEF OwnChordStops, Listening
<1>1. ASSUME UNCHANGED <<active, activeMode, awaitingAudio, chordMode>> PROVE OwnChordStops'
  BY <1>1
<1>2. ASSUME ~Listening' PROVE OwnChordStops'
  BY <1>2
<1>3. ASSUME NEW mode \in Modes, ChordStarts(mode) PROVE OwnChordStops'
  <2>1. CASE StartSession(mode)
    BY <1>3, <2>1 DEF ChordStarts, StartSession
  <2>2. CASE StartIgnored
    <3>1. chordMode = NoMode
      BY <1>3 DEF ChordStarts, Toggle
    <3>2. ~Listening
      BY <2>2, <3>1, ModesAssumption DEF SlotConsistent
    <3> QED
      BY <1>2, <2>2, <3>2 DEF StartIgnored, controllerVars, sessionVars
  <2> QED
    BY <1>3, <2>1, <2>2 DEF ChordStarts
<1>4. ASSUME NEW mode \in Modes, ChordDismissesNotice(mode) PROVE OwnChordStops'
  BY <1>2, <1>4 DEF ChordDismissesNotice, StartConsumed, sessionVars
<1>5. ASSUME FinishRecording PROVE OwnChordStops'
  BY <1>2, <1>5 DEF FinishRecording
<1>6. ASSUME NEW mode \in Modes, ChordCompletes(mode) PROVE OwnChordStops'
  BY <1>2, <1>5, <1>6 DEF ChordCompletes, controllerVars, sessionVars
<1>7. CASE UiFinish \/ UiCancel
  BY <1>2, <1>5, <1>7 DEF UiFinish, UiCancel, CancelRecording, ClearActive
<1>8. ASSUME NEW s \in Sessions, MicOpens(s) \/ PipelineStep(s) PROVE OwnChordStops'
  BY <1>1, <1>8, PipelineKeepsSession DEF MicOpens, OnCaptureStarted, controllerVars,
                                          sessionVars
<1>9. ASSUME NEW s \in Sessions, CaptureFails(s) \/ RecordingArrives(s) PROVE OwnChordStops'
  BY <1>2, <1>9 DEF CaptureFails, OnCaptureError, RecordingArrives, OnCaptureAudio,
                    ClearActive
<1>10. CASE \/ DismissNotice \/ HoverEnter \/ HoverLeave \/ UserTouchesMute
            \/ TimerStep \/ OverlayStep \/ UNCHANGED vars
  BY <1>1, <1>10 DEF DismissNotice, NoticeDismissed, HoverEnter, HoverLeave,
     UserTouchesMute, TimerStep, SlowTimerFires, ObservationEnds, OverlayStep, vars,
     controllerVars, sessionVars
<1> QED
  BY <1>3, <1>4, <1>6, <1>7, <1>8, <1>9, <1>10 DEF Next

(* Slow timers and recording machine follow the slot.                      *)
LEMMA SlotTimersStep ==
  ASSUME TypeOK, SlotConsistent, SlowOnlyWhileAwaiting, MachineAgrees, [Next]_vars
  PROVE  SlowOnlyWhileAwaiting' /\ MachineAgrees'
<1> USE DEF SlowOnlyWhileAwaiting, MachineAgrees, Listening, MachineStops
<1> DEFINE Goal == SlowOnlyWhileAwaiting' /\ MachineAgrees'
<1>1. TimerTypeOK
  BY TypeFacts
<1>2. ASSUME UNCHANGED <<active, awaitingAudio, machine>>, slowTimers' \in {slowTimers, slowTimers - 1}
      PROVE  Goal
  BY <1>1, <1>2 DEF TimerTypeOK
<1>3. ASSUME UNCHANGED <<sessionVars, timerVars>> PROVE Goal
  BY <1>2, <1>3 DEF sessionVars, timerVars
<1>4. ASSUME NEW mode \in Modes, StartSession(mode) PROVE Goal
  BY <1>1, <1>4 DEF StartSession, MachineStarts, timerVars, TimerTypeOK, SlotConsistent,
                    TypeOK, ControllerTypeOK, SessionTypeOK, None
<1>5. ASSUME FinishRecording PROVE Goal
  BY <1>5 DEF FinishRecording
<1>6. ASSUME CancelRecording PROVE Goal
  BY <1>6 DEF CancelRecording, ClearActive, ClearSlowTimers
<1>7. ASSUME NEW s \in Sessions, CaptureFails(s) PROVE Goal
  BY <1>7 DEF CaptureFails, OnCaptureError, ClearActive, ClearSlowTimers, Sessions, None
<1>8. ASSUME NEW s \in Sessions, RecordingArrives(s) PROVE Goal
  BY <1>8 DEF RecordingArrives, OnCaptureAudio, ClearActive, ClearSlowTimers, SlotConsistent,
              Sessions, None
<1>9. ASSUME NEW s \in Sessions, PipelineStep(s) PROVE Goal
  BY <1>2, <1>9, PipelineKeepsSession DEF sessionVars
<1>10. ASSUME NEW mode \in Modes,
              ChordStarts(mode) \/ ChordDismissesNotice(mode) \/ ChordCompletes(mode)
       PROVE  Goal
  BY <1>3, <1>4, <1>5, <1>10 DEF ChordStarts, StartIgnored, ChordDismissesNotice,
     StartConsumed, ChordCompletes, controllerVars
<1>11. CASE TimerStep
  BY <1>2, <1>3, <1>11 DEF TimerStep, SlowTimerFires, ObservationEnds, sessionVars
<1>12. ASSUME UNCHANGED controllerVars PROVE Goal
  BY <1>3, <1>12 DEF controllerVars
<1>13. ASSUME NEW s \in Sessions, MicOpens(s) PROVE Goal
  BY <1>12, <1>13 DEF MicOpens, OnCaptureStarted
<1>14. CASE DismissNotice
  BY <1>3, <1>14 DEF DismissNotice, NoticeDismissed
<1> QED
  BY <1>5, <1>6, <1>7, <1>8, <1>9, <1>10, <1>11, <1>12, <1>13, <1>14, QuietSteps
  DEF Next, UiFinish, UiCancel

(* No step lets an open transport escape the slot that can close it.       *)
LEMMA TransportsStep ==
  ASSUME TypeOK, SlotConsistent, TransportsAreOwned, [Next]_vars
  PROVE  TransportsAreOwned'
<1> USE DEF TransportsAreOwned
<1>1. PipelineTypeOK /\ RunTypeOK
  BY TypeFacts
<1>2. ASSUME UNCHANGED <<currentRunDispose, transports, run>> PROVE TransportsAreOwned'
  BY <1>2
<1>3. ASSUME UNCHANGED pipelineVars \/ UNCHANGED controllerVars PROVE TransportsAreOwned'
  BY <1>2, <1>3 DEF controllerVars, pipelineVars
<1>4. ASSUME DisposeCurrentRun PROVE TransportsAreOwned'
  BY <1>4 DEF DisposeCurrentRun
<1>5. ASSUME NEW s \in Sessions, NEW at, NEW event, Wait(s, at, event),
             s \notin transports',
             UNCHANGED <<currentRunDispose, transports>> \/ DisposeOwnRun(s)
      PROVE  TransportsAreOwned'
  <2>1. \A t \in transports' : run'[t] = run[t]
    BY <1>1, <1>5 DEF Wait, RunTypeOK, PipelineTypeOK, DisposeOwnRun, DisposeCurrentRun
  <2> QED
    BY <1>4, <1>5, <2>1 DEF DisposeOwnRun
<1>6. ASSUME NEW s \in Sessions, NEW at \in {"model", "insertFloor", "inject"}, NEW event,
             Wait(s, at, event), UNCHANGED <<currentRunDispose, transports>>
      PROVE  TransportsAreOwned'
  BY <1>1, <1>6 DEF Wait, RunTypeOK, PipelineTypeOK
<1>7. ASSUME NEW s \in Sessions, DisposeOwnRun(s) PROVE s \notin transports'
  BY <1>7 DEF DisposeOwnRun, DisposeCurrentRun
<1>8. ASSUME NEW s \in Sessions, NEW event, BeginTerminal(s, event, "floor")
      PROVE  \E at, e : Wait(s, at, e)
  BY <1>8 DEF BeginTerminal
<1>9. ASSUME NEW s \in Sessions, RecordingArrives(s) PROVE TransportsAreOwned'
  <2>1. run[s].at = "none"
    BY <1>9 DEF RecordingArrives, OnCaptureAudio, SlotConsistent
  <2>2. s \notin transports' /\ UNCHANGED <<currentRunDispose, transports>>
    BY <1>9, <2>1 DEF RecordingArrives, OnCaptureAudio
  <2> QED
    BY <1>5, <1>9, <2>2 DEF RecordingArrives, OnCaptureAudio
<1>10. ASSUME NEW s \in Sessions, PipelineStep(s) PROVE TransportsAreOwned'
  <2>1. CASE ContextArrives(s)
    <3>1. s \notin transports
      BY <2>1 DEF ContextArrives
    <3>2. CASE DisposeCurrentRun
      BY <1>4, <3>2
    <3>3. CASE UNCHANGED <<currentRunDispose, transports>>
      BY <1>5, <1>8, <2>1, <3>1, <3>3 DEF ContextArrives, Abandon
    <3>4. CASE /\ currentRunDispose' = s
               /\ transports' = (transports \ {currentRunDispose}) \cup {s}
               /\ Wait(s, "model", "none")
      <4>1. transports' = {s}
        BY <3>4
      <4>2. run'[s].at = "model"
        BY <1>1, <3>4 DEF Wait, RunTypeOK
      <4> QED
        BY <3>4, <4>1, <4>2
    <3> QED
      BY <2>1, <3>2, <3>3, <3>4 DEF ContextArrives
  <2>2. CASE ModelAnswers(s)
    BY <1>5, <1>6, <1>7, <1>8, <2>2 DEF ModelAnswers, BeforeInject, Abandon, StartInserting
  <2>3. CASE InsertFloorEnds(s)
    BY <1>5, <1>6, <1>7, <2>3 DEF InsertFloorEnds, StartInserting
  <2>4. CASE InjectionEnds(s)
    BY <1>5, <1>7, <1>8, <2>4 DEF InjectionEnds
  <2>5. CASE FloorEnds(s)
    <3>1. s \notin transports
      BY <2>5 DEF FloorEnds, AtFloor
    <3> QED
      BY <1>5, <2>5, <3>1 DEF FloorEnds
  <2> QED
    BY <1>10, <2>1, <2>2, <2>3, <2>4, <2>5 DEF PipelineStep
<1>11. ASSUME NEW mode \in Modes,
              ChordStarts(mode) \/ ChordDismissesNotice(mode) \/ ChordCompletes(mode)
       PROVE  TransportsAreOwned'
  BY <1>3, <1>4, <1>11 DEF ChordStarts, StartSession, StartIgnored, ChordDismissesNotice,
     StartConsumed, ChordCompletes, FinishRecording
<1>12. CASE UiFinish \/ UiCancel
  BY <1>3, <1>4, <1>12 DEF UiFinish, UiCancel, FinishRecording, CancelRecording
<1>13. CASE DismissNotice \/ TimerStep
  BY <1>2, <1>3, <1>13 DEF DismissNotice, NoticeDismissed, TimerStep, SlowTimerFires,
                           ObservationEnds
<1>14. ASSUME NEW s \in Sessions, MicOpens(s) \/ CaptureFails(s) PROVE TransportsAreOwned'
  BY <1>3, <1>4, <1>14 DEF MicOpens, OnCaptureStarted, CaptureFails, OnCaptureError
<1> QED
  BY <1>3, <1>9, <1>10, <1>11, <1>12, <1>13, <1>14, QuietSteps DEF Next

-----------------------------------------------------------------------------
(* The initial state satisfies the inductive invariant.                    *)
LEMMA InitInductive == Init => RuntimeInv
<1> SUFFICES ASSUME Init PROVE RuntimeInv
  OBVIOUS
<1> USE DEF Init, ControllerInit
<1>1. TypeOK
  BY InitTyped
<1>2. SlotConsistent /\ NoEarlyOutcome
  BY DEF SlotConsistent, NoEarlyOutcome, Sessions, None
<1>3. MutedOnlyWhileListening /\ LiveSessionKeepsCapsule
  BY DEF MutedOnlyWhileListening, LiveSessionKeepsCapsule, MuteInit
<1>4. FaceShowsNewest
  BY DEF FaceShowsNewest, Listening, None
<1>5. MicAlwaysReleased /\ TransportsAreOwned
  BY DEF MicAlwaysReleased, TransportsAreOwned, Sessions
<1>6. OwnChordStops /\ SlowOnlyWhileAwaiting /\ AttentionIsVisible /\ MachineAgrees
  BY DEF OwnChordStops, SlowOnlyWhileAwaiting, AttentionIsVisible, MachineAgrees, Listening
<1> QED
  BY <1>1, <1>2, <1>3, <1>4, <1>5, <1>6 DEF RuntimeInv

(* Every step preserves the inductive invariant.                           *)
LEMMA NextInductive == RuntimeInv /\ [Next]_vars => RuntimeInv'
<1> SUFFICES ASSUME RuntimeInv, [Next]_vars PROVE RuntimeInv'
  OBVIOUS
<1> USE DEF RuntimeInv
<1>1. TypeOK'
  BY TypeStep
<1>2. SlotConsistent'
  BY SlotConsistentStep
<1>3. MutedOnlyWhileListening'
  BY MutedStep
<1>4. LiveSessionKeepsCapsule'
  BY CapsuleStep
<1>5. FaceShowsNewest' /\ NoEarlyOutcome'
  BY FaceStep, NoEarlyOutcomeStep
<1>6. MicAlwaysReleased'
  BY MicReleasedStep
<1>7. TransportsAreOwned'
  BY TransportsStep
<1>8. OwnChordStops'
  BY OwnChordStep
<1>9. AttentionIsVisible'
  BY AttentionStep
<1>10. SlowOnlyWhileAwaiting' /\ MachineAgrees'
  BY SlotTimersStep
<1> QED
  BY <1>1, <1>2, <1>3, <1>4, <1>5, <1>6, <1>7, <1>8, <1>9, <1>10

(* The inductive invariant holds in every behaviour: the twelve invariants *)
(* of the run, together.                                                   *)
THEOREM Inductive == Spec => []RuntimeInv
BY InitInductive, NextInductive, PTL DEF Spec

(* What the inductive invariant says, part by part.                        *)
LEMMA InductiveFacts ==
  RuntimeInv => /\ MutedOnlyWhileListening /\ LiveSessionKeepsCapsule /\ FaceShowsNewest
          /\ MicAlwaysReleased /\ TransportsAreOwned /\ OwnChordStops /\ AttentionIsVisible
          /\ NoEarlyOutcome
BY DEF RuntimeInv

(* Only the newest session can hold the slot, and never while its pipeline *)
(* runs (startRecording, onCaptureAudio, onCaptureError).                  *)
THEOREM SlotSafe == Spec => []SlotConsistent
<1>1. RuntimeInv => SlotConsistent
  BY DEF RuntimeInv
<1> QED
  BY <1>1, Inductive, PTL

(* The user's media is silenced only while a session listens: no late      *)
(* microphone ack, failure or cancel leaves it muted.                      *)
THEOREM MuteSafe == Spec => []MutedOnlyWhileListening
BY InductiveFacts, Inductive, PTL

(* No pending hide of an older session takes a live session's capsule away.*)
THEOREM CapsuleSafe == Spec => []LiveSessionKeepsCapsule
BY InductiveFacts, Inductive, PTL

(* Every session that is over for the controller has been told to close its*)
(* microphone.                                                             *)
THEOREM MicSafe == Spec => []MicAlwaysReleased
BY InductiveFacts, Inductive, PTL

(* The capsule always shows the newest session and its own phase: no event  *)
(* of a stale run overwrites it (isSuperseded in emitTerminalAfterFloor).   *)
THEOREM FaceSafe == Spec => []FaceShowsNewest
BY InductiveFacts, Inductive, PTL

(* The capsule claims no outcome while the newest pipeline is at work.      *)
THEOREM OutcomeSafe == Spec => []NoEarlyOutcome
BY InductiveFacts, Inductive, PTL

(* No realtime transport outlives the slot that can close it.               *)
THEOREM TransportsSafe == Spec => []TransportsAreOwned
BY InductiveFacts, Inductive, PTL

(* The chord of the listening mode always stops the recording.              *)
THEOREM ChordSafe == Spec => []OwnChordStops
BY InductiveFacts, Inductive, PTL

(* Only a failure that is on screen can swallow the next start gesture.     *)
THEOREM AttentionSafe == Spec => []AttentionIsVisible
BY InductiveFacts, Inductive, PTL

(* A terminal face is replaced only by the start of a newer session.       *)
THEOREM OutcomeFinal == Spec => OutcomeIsFinal
<1> DEFINE Told == face.phase \in {"completed", "cancelled", "failed"}
           Final == Told /\ face' # face
                      => face'.phase = "listening" /\ generation' > generation
<1>1. ASSUME RuntimeInv, [Next]_vars PROVE Final
  <2>1. SessionTypeOK /\ SlotConsistent /\ FaceShowsNewest /\ NoEarlyOutcome /\ TypeOK
    BY <1>1, TypeFacts DEF RuntimeInv
  <2>2. ASSUME UNCHANGED noticeVars \/ UNCHANGED controllerVars PROVE Final
    BY <2>2 DEF noticeVars, controllerVars
  <2>3. ASSUME active # None PROVE ~Told
    BY <2>1, <2>3 DEF FaceShowsNewest, Listening, SessionTypeOK
  <2>4. ASSUME NEW mode \in Modes, StartSession(mode) PROVE Final
    BY <2>1, <2>4 DEF StartSession, Draw, SessionTypeOK
  <2>5. ASSUME FinishRecording \/ CancelRecording PROVE Final
    BY <2>3, <2>5 DEF FinishRecording, CancelRecording
  <2>6. ASSUME NEW mode \in Modes,
               ChordStarts(mode) \/ ChordDismissesNotice(mode) \/ ChordCompletes(mode)
        PROVE  Final
    BY <2>2, <2>4, <2>5, <2>6 DEF ChordStarts, StartIgnored, ChordDismissesNotice,
       StartConsumed, ChordCompletes
  <2>7. CASE DismissNotice \/ TimerStep
    BY <2>2, <2>7 DEF DismissNotice, NoticeDismissed, TimerStep, SlowTimerFires,
                      ObservationEnds
  <2>8. ASSUME NEW s \in Sessions, MicOpens(s) \/ RecordingArrives(s) PROVE Final
    BY <2>2, <2>8 DEF MicOpens, OnCaptureStarted, RecordingArrives, OnCaptureAudio
  <2>9. ASSUME NEW s \in Sessions, CaptureFails(s) PROVE Final
    BY <2>3, <2>9 DEF CaptureFails, OnCaptureError, Sessions, None
  <2>10. ASSUME NEW s \in Sessions, PipelineStep(s) PROVE Final
    <3>1. CASE UNCHANGED noticeVars
      BY <2>2, <3>1
    <3>2. CASE s = generation
      BY <2>1, <2>10, <3>2, PipelineMovesOwnRun DEF NoEarlyOutcome
    <3> QED
      BY <2>1, <2>10, <3>1, <3>2, PipelineShows
  <2> HIDE DEF Final
  <2> QED
    BY <1>1, <2>2, <2>5, <2>6, <2>7, <2>8, <2>9, <2>10, QuietSteps
    DEF Next, UiFinish, UiCancel
<1>2. RuntimeInv /\ [Next]_vars => [Final]_vars
  BY <1>1
<1> QED
  BY <1>2, Inductive, PTL DEF Spec, OutcomeIsFinal

(* Text goes to the target only for the newest session, with no other      *)
(* recording.                                                              *)
THEOREM InsertsNewest == Spec => InsertsOnlyNewest
<1> DEFINE Safe(s) ==
      run[s].at # "inject" /\ run'[s].at = "inject"
        => s = generation /\ active = None /\ run[s].at \in {"model", "insertFloor"}
<1>1. ASSUME RuntimeInv, [Next]_vars, NEW s \in Sessions PROVE Safe(s)
  <2>1. RunTypeOK /\ SlotConsistent /\ TypeOK
    BY <1>1, TypeFacts DEF RuntimeInv
  <2>2. ASSUME UNCHANGED run PROVE Safe(s)
    BY <2>2
  <2>3. ASSUME UNCHANGED pipelineVars \/ UNCHANGED controllerVars PROVE Safe(s)
    BY <2>2, <2>3 DEF pipelineVars, controllerVars
  <2>4. ASSUME NEW t \in Sessions, NEW at, NEW event, Wait(t, at, event), at # "inject" \/ t # s
        PROVE  Safe(s)
    BY <2>1, <2>4 DEF Wait, RunTypeOK
  <2>5. ASSUME NEW t \in Sessions, CaptureFails(t) \/ RecordingArrives(t) PROVE Safe(s)
    BY <2>4, <2>5 DEF CaptureFails, OnCaptureError, RecordingArrives, OnCaptureAudio
  <2>6. ASSUME NEW t \in Sessions, PipelineStep(t), t # s PROVE Safe(s)
    BY <2>1, <2>4, <2>6, PipelineMovesOwnRun
  <2>7. ASSUME PipelineStep(s) PROVE Safe(s)
    <3>1. run[s].at # "none"
      BY <2>1, <2>7, PipelineMovesOwnRun
    <3>2. ASSUME NEW event, BeginTerminal(s, event, "floor") PROVE Safe(s)
      BY <2>4, <3>2 DEF BeginTerminal
    <3>3. ASSUME ~Superseded(s) PROVE s = generation /\ active = None
      BY <2>1, <3>1, <3>3 DEF Superseded, SlotConsistent
    <3>4. CASE ContextArrives(s)
      BY <2>4, <3>2, <3>4 DEF ContextArrives, Abandon
    <3>5. CASE ModelAnswers(s)
      <4>1. CASE BeforeInject(s)
        BY <2>4, <3>3, <3>5, <4>1 DEF ModelAnswers, BeforeInject, Abandon
      <4> QED
        BY <3>2, <3>5, <4>1 DEF ModelAnswers
    <3>6. CASE InsertFloorEnds(s)
      BY <2>4, <3>3, <3>6 DEF InsertFloorEnds
    <3>7. CASE InjectionEnds(s)
      BY <3>2, <3>7 DEF InjectionEnds
    <3>8. CASE FloorEnds(s)
      BY <2>4, <3>8 DEF FloorEnds
    <3> HIDE DEF Safe
    <3> QED
      BY <2>7, <3>4, <3>5, <3>6, <3>7, <3>8 DEF PipelineStep
  <2>8. ASSUME NEW mode \in Modes,
               ChordStarts(mode) \/ ChordDismissesNotice(mode) \/ ChordCompletes(mode)
        PROVE  Safe(s)
    BY <2>2, <2>3, <2>8 DEF ChordStarts, StartSession, StartIgnored, ChordDismissesNotice,
       StartConsumed, ChordCompletes, FinishRecording
  <2>9. CASE UiFinish \/ UiCancel \/ DismissNotice \/ TimerStep
    BY <2>2, <2>3, <2>9 DEF UiFinish, UiCancel, FinishRecording, CancelRecording,
       DismissNotice, NoticeDismissed, TimerStep, SlowTimerFires, ObservationEnds
  <2>10. ASSUME NEW t \in Sessions, MicOpens(t) PROVE Safe(s)
    BY <2>3, <2>10 DEF MicOpens, OnCaptureStarted
  <2> HIDE DEF Safe
  <2> QED
    BY <1>1, <2>3, <2>5, <2>6, <2>7, <2>8, <2>9, <2>10, QuietSteps DEF Next
<1>2. RuntimeInv /\ [Next]_vars => [InsertsForNewest]_vars
  BY <1>1 DEF InsertsForNewest
<1> QED
  BY <1>2, Inductive, PTL DEF Spec, InsertsOnlyNewest

(* Each operation of the mute coordinator keeps the user's own mute flag   *)
(* recoverable.                                                            *)
LEMMA MuteOpRestores ==
  ASSUME MuteTypeOK, UserMuteRestored, MuteOp
  PROVE  UserMuteRestored'
<1> USE DEF UserMuteRestored, MuteTypeOK, Flag
<1>1. ASSUME UNCHANGED muteVars PROVE UserMuteRestored'
  BY <1>1 DEF muteVars
<1>2. CASE EngageMute
  <2>1. CASE engaged
    BY <1>2, <2>1 DEF EngageMute
  <2>2. CASE ~engaged
    <3>1. PICK prior \in PortReads :
            /\ priorMuted' = prior
            /\ deviceMuted' \in IF prior = "muted" THEN {deviceMuted} ELSE AfterWrite(TRUE)
            /\ disturbed' = (disturbed \/ prior # Flag(deviceMuted) \/ deviceMuted' = FALSE)
      BY <1>2, <2>2 DEF EngageMute
    <3>2. ASSUME ~disturbed'
          PROVE  /\ ~disturbed /\ priorMuted' = Flag(deviceMuted)
                 /\ deviceMuted' # FALSE
      BY <3>1, <3>2
    <3>3. deviceMuted' \in BOOLEAN /\ userMuted' = userMuted /\ engaged' = TRUE
      BY <1>2, <2>2, MuteTyped DEF EngageMute, MuteOp
    <3>4. ASSUME ~disturbed' PROVE engaged' /\ deviceMuted'
      BY <3>2, <3>3, <3>4, Zenon
    <3>5. ASSUME ~disturbed' PROVE priorMuted' = Flag(userMuted')
      <4>1. deviceMuted = userMuted /\ userMuted' = userMuted
        BY <2>2, <3>2, <3>3, <3>5
      <4> HIDE DEF Flag
      <4> QED
        BY <3>2, <3>5, <4>1
    <3> HIDE DEF Flag
    <3> QED
      BY <3>4, <3>5, SMT
  <2> QED
    BY <2>1, <2>2
<1>3. CASE ReleaseMute
  <2>1. CASE ~engaged
    BY <1>3, <2>1, <1>1 DEF ReleaseMute, muteVars
  <2>2. CASE engaged
    <3>1. engaged' = FALSE /\ userMuted' = userMuted
      BY <1>3, <2>2 DEF ReleaseMute
    <3>2. CASE priorMuted = "muted"
      <4>1. deviceMuted' = deviceMuted /\ disturbed' = disturbed
        BY <1>3, <2>2, <3>2 DEF ReleaseMute, MustRestore
      <4> QED
        BY <2>2, <3>1, <3>2, <4>1
    <3>3. CASE priorMuted # "muted"
      <4>1. disturbed' = (disturbed \/ deviceMuted') /\ deviceMuted' \in BOOLEAN
        BY <1>3, <2>2, <3>3, MuteTyped DEF ReleaseMute, MustRestore, MuteOp
      <4> QED
        BY <2>2, <3>1, <3>3, <4>1
    <3> QED
      BY <3>2, <3>3
  <2> QED
    BY <2>1, <2>2
<1>4. CASE UserTogglesMute
  BY <1>4 DEF UserTogglesMute
<1> QED
  BY <1>1, <1>2, <1>3, <1>4 DEF MuteOp

(* Undisturbed, dictation leaves the output device as the user had it.     *)
THEOREM MuteRestored == Spec => []UserMuteRestored
<1>1. Init => UserMuteRestored
  BY DEF Init, MuteInit, UserMuteRestored
<1>2. TypeOK /\ UserMuteRestored /\ [Next]_vars => UserMuteRestored'
  BY MuteOpRestores, StepMovesMute DEF TypeOK
<1> QED
  BY <1>1, <1>2, TypeCorrect, PTL DEF Spec

-----------------------------------------------------------------------------
(* The refinement.  The stage of a session is read off the slot and its run; *)
(* a step changes at most one stage, and that change is an action of the    *)
(* abstract specification.                                                  *)

(* What the stage of a session is, by the state of its run.                *)
LEMMA StageValues ==
  ASSUME SlotConsistent, SessionTypeOK, NEW s \in Sessions
  PROVE  /\ s > generation => StageOf(s) = "unborn"
         /\ active = s => StageOf(s) = "recording"
         /\ s <= generation /\ active # s =>
              /\ run[s].at \in {"context", "model", "insertFloor"}
                   => StageOf(s) = "processing"
              /\ run[s].at = "inject" => StageOf(s) = "inserting"
              /\ run[s].at \in {"floor", "errorFloor"} => StageOf(s) = "closing"
              /\ run[s].at = "done" /\ run[s].event = "none" => StageOf(s) = "dropped"
              /\ run[s].at = "none" \/ (run[s].at = "done" /\ run[s].event # "none")
                   => StageOf(s) = "told"
<1>1. s \in Nat /\ generation \in Nat /\ s > 0
  BY DEF Sessions, SessionTypeOK
<1>2. s > generation => active # s /\ run[s].at = "none"
  BY <1>1 DEF SlotConsistent, None
<1>3. active = s => s <= generation /\ run[s].at = "none"
  BY <1>1 DEF SlotConsistent, None
<1>4. CASE s > generation
  BY <1>1, <1>2, <1>4 DEF StageOf
<1>5. CASE active = s
  BY <1>1, <1>3, <1>5 DEF StageOf
<1>6. CASE s <= generation /\ active # s
  BY <1>1, <1>6 DEF StageOf
<1> QED
  BY <1>1, <1>4, <1>5, <1>6

(* A step that leaves slot and runs alone leaves every stage alone.        *)
LEMMA StageKept ==
  ASSUME UNCHANGED <<generation, active, run>>
  PROVE  Stage' = Stage
BY DEF Stage, StageOf

(* Only s moved: its stage alone changes.                                  *)
LEMMA StageMoves ==
  ASSUME NEW s \in Sessions,
         \A t \in Sessions : t # s => /\ run'[t] = run[t]
                                      /\ active' = t <=> active = t
                                      /\ t > generation' <=> t > generation
  PROVE  Stage' = [Stage EXCEPT ![s] = StageOf(s)']
<1>1. ASSUME NEW t \in Sessions, t # s PROVE StageOf(t)' = StageOf(t)
  BY <1>1 DEF StageOf
<1> QED
  BY <1>1 DEF Stage

(* The initial state is the abstract one.                                  *)
LEMMA InitRefines == Init => Lifecycle!LifecycleInit
<1> SUFFICES ASSUME Init PROVE Lifecycle!LifecycleInit
  OBVIOUS
<1>1. ASSUME NEW s \in Sessions PROVE StageOf(s) = "unborn"
  <2>1. s > generation
    BY DEF Init, ControllerInit, Sessions
  <2>2. SlotConsistent /\ SessionTypeOK
    BY InitInductive, TypeFacts DEF RuntimeInv
  <2> QED
    BY <2>1, <2>2, StageValues
<1> QED
  BY <1>1 DEF Init, ControllerInit, Lifecycle!LifecycleInit, Lifecycle!Ids, Sessions, Stage

(* The actions of the abstract specification, as facts about the runtime.  *)
LEMMA AbstractSteps ==
  ASSUME NEW s \in Sessions, NEW next, Stage' = [Stage EXCEPT ![s] = next]
  PROVE  /\ next = "recording" /\ s = generation + 1 /\ generation' = s
              /\ (\A t \in Sessions : Stage[t] # "recording") /\ history' = history
            => Lifecycle!LifecycleNext
         /\ generation' = generation /\ history' = history
              /\ \/ Stage[s] = "recording" /\ next = "processing"
                 \/ Stage[s] = "processing" /\ next = "inserting" /\ s = generation
            => Lifecycle!LifecycleNext
         /\ generation' = generation
              /\ \/ history' = history
                 \/ Stage[s] = "inserting" /\ history' = history \cup {s}
              /\ \/ Stage[s] \in {"recording", "processing", "inserting"}
                      /\ next \in {"closing", "told"} /\ s = generation
                 \/ Stage[s] = "closing" /\ next = "told" /\ s = generation
                 \/ Stage[s] \in {"processing", "inserting", "closing"}
                      /\ next = "dropped" /\ s # generation
            => Lifecycle!LifecycleNext
<1> USE DEF Lifecycle!Ids, Sessions, Lifecycle!Becomes
<1>1. ASSUME next = "recording", s = generation + 1, generation' = s,
             \A t \in Sessions : Stage[t] # "recording", history' = history
      PROVE  Lifecycle!LifecycleNext
  BY <1>1 DEF Lifecycle!LifecycleNext, Lifecycle!Begin
<1>2. ASSUME generation' = generation, history' = history,
             \/ Stage[s] = "recording" /\ next = "processing"
             \/ Stage[s] = "processing" /\ next = "inserting" /\ s = generation
      PROVE  Lifecycle!LifecycleNext
  BY <1>2 DEF Lifecycle!LifecycleNext, Lifecycle!Process, Lifecycle!Insert
<1>3. ASSUME generation' = generation,
             history' = history \/ (Stage[s] = "inserting" /\ history' = history \cup {s})
      PROVE  Lifecycle!MayRecord(s)
  BY <1>3 DEF Lifecycle!MayRecord
<1>4. ASSUME generation' = generation, Lifecycle!MayRecord(s),
             \/ Stage[s] \in {"recording", "processing", "inserting"}
                  /\ next \in {"closing", "told"} /\ s = generation
             \/ Stage[s] = "closing" /\ next = "told" /\ s = generation
             \/ Stage[s] \in {"processing", "inserting", "closing"}
                  /\ next = "dropped" /\ s # generation
      PROVE  Lifecycle!LifecycleNext
  BY <1>4 DEF Lifecycle!LifecycleNext, Lifecycle!Close, Lifecycle!Tell, Lifecycle!Drop
<1> QED
  BY <1>1, <1>2, <1>3, <1>4

(* A wait for the floor keeps the event it will show.                      *)
FloorHasEvent ==
  \A s \in Sessions : run[s].at \in {"floor", "errorFloor"} => run[s].event \in TerminalEvents

(* The moves of a pipeline, by their effect on the lifecycle.              *)
Dropped(s, at, event) == Superseded(s) /\ at = "done" /\ event = "none"
Decided(s, at, event) ==
  ~Superseded(s) /\ event \in TerminalEvents
    /\ \/ at = "done"
       \/ at = "floor" /\ run[s].at \in {"context", "model", "inject"}
Working(s, at) == run[s].at \in {"context", "model"} /\ at \in {"model", "insertFloor"}
Inserting(s, at) ==
  ~Superseded(s) /\ run[s].at \in {"model", "insertFloor"} /\ at = "inject"
Moves(s) ==
  \E at, event :
    /\ Wait(s, at, event)
    /\ \/ Dropped(s, at, event) \/ Decided(s, at, event)
       \/ Working(s, at) \/ Inserting(s, at)

(* Every pipeline step is one of four moves, and only a run that was       *)
(* inserting may leave a record.                                           *)
LEMMA PipelineMoves ==
  ASSUME FloorHasEvent, NEW s \in Sessions, PipelineStep(s)
  PROVE  /\ Moves(s)
         /\ run[s].at \in {"context", "model", "insertFloor", "inject", "floor", "errorFloor"}
         /\ history' = history \/ (run[s].at = "inject" /\ history' = history \cup {s})
<1>1. ASSUME NEW event \in TerminalEvents, BeginTerminal(s, event, "floor"),
             run[s].at \in {"context", "model", "inject"}
      PROVE  Moves(s)
  BY <1>1 DEF BeginTerminal, Moves, Dropped, Decided
<1>2. CASE ContextArrives(s)
  BY <1>1, <1>2 DEF ContextArrives, Abandon, Moves, Dropped, Working, TerminalEvents
<1>3. CASE ModelAnswers(s)
  <2>1. CASE BeforeInject(s)
    BY <1>3, <2>1 DEF ModelAnswers, BeforeInject, Abandon, StartInserting, Moves, Dropped,
                      Working, Inserting
  <2> QED
    BY <1>1, <1>3, <2>1 DEF ModelAnswers, TerminalEvents
<1>4. CASE InsertFloorEnds(s)
  BY <1>4 DEF InsertFloorEnds, StartInserting, Moves, Dropped, Inserting
<1>5. CASE InjectionEnds(s)
  BY <1>1, <1>5 DEF InjectionEnds, TerminalEvents
<1>6. CASE FloorEnds(s)
  BY <1>6 DEF FloorEnds, AtFloor, FloorHasEvent, Moves, Dropped, Decided
<1> QED
  BY <1>2, <1>3, <1>4, <1>5, <1>6 DEF PipelineStep

(* A floor keeps its event over every step.                                *)
LEMMA FloorHasEventStep ==
  ASSUME TypeOK, FloorHasEvent, [Next]_vars
  PROVE  FloorHasEvent'
<1>1. RunTypeOK
  BY TypeFacts
<1>2. ASSUME UNCHANGED run PROVE FloorHasEvent'
  BY <1>2 DEF FloorHasEvent
<1>3. ASSUME UNCHANGED pipelineVars \/ UNCHANGED controllerVars PROVE FloorHasEvent'
  BY <1>2, <1>3 DEF controllerVars, pipelineVars
<1>4. ASSUME NEW s \in Sessions, NEW at, NEW event, Wait(s, at, event),
             at \notin {"floor", "errorFloor"} \/ event \in TerminalEvents
      PROVE  FloorHasEvent'
  BY <1>1, <1>4 DEF Wait, RunTypeOK, FloorHasEvent
<1>5. ASSUME NEW s \in Sessions, CaptureFails(s) \/ RecordingArrives(s) PROVE FloorHasEvent'
  BY <1>4, <1>5 DEF CaptureFails, OnCaptureError, RecordingArrives, OnCaptureAudio,
                    TerminalEvents
<1>6. ASSUME NEW s \in Sessions, PipelineStep(s) PROVE FloorHasEvent'
  BY <1>4, <1>6, PipelineMoves DEF Moves, Dropped, Decided, Working, Inserting
<1>7. ASSUME NEW mode \in Modes,
             ChordStarts(mode) \/ ChordDismissesNotice(mode) \/ ChordCompletes(mode)
      PROVE  FloorHasEvent'
  BY <1>2, <1>3, <1>7 DEF ChordStarts, StartSession, StartIgnored, ChordDismissesNotice,
     StartConsumed, ChordCompletes, FinishRecording
<1>8. CASE UiFinish \/ UiCancel \/ DismissNotice \/ TimerStep
  BY <1>2, <1>3, <1>8 DEF UiFinish, UiCancel, FinishRecording, CancelRecording,
     DismissNotice, NoticeDismissed, TimerStep, SlowTimerFires, ObservationEnds
<1>9. ASSUME NEW s \in Sessions, MicOpens(s) PROVE FloorHasEvent'
  BY <1>3, <1>9 DEF MicOpens, OnCaptureStarted
<1> QED
  BY <1>3, <1>5, <1>6, <1>7, <1>8, <1>9, QuietSteps DEF Next

(* The same values of a stage, in the state after a step.                  *)
LEMMA NextStageValues ==
  ASSUME SlotConsistent', SessionTypeOK', NEW s \in Sessions
  PROVE  /\ active' = s => StageOf(s)' = "recording"
         /\ s <= generation' /\ active' # s =>
              /\ run'[s].at \in {"context", "model", "insertFloor"}
                   => StageOf(s)' = "processing"
              /\ run'[s].at = "inject" => StageOf(s)' = "inserting"
              /\ run'[s].at \in {"floor", "errorFloor"} => StageOf(s)' = "closing"
              /\ run'[s].at = "done" /\ run'[s].event = "none" => StageOf(s)' = "dropped"
              /\ run'[s].at = "none" \/ (run'[s].at = "done" /\ run'[s].event # "none")
                   => StageOf(s)' = "told"
<1>1. s \in Nat /\ generation' \in Nat /\ s > 0
  BY DEF Sessions, SessionTypeOK
<1>2. active' = s => s <= generation' /\ run'[s].at = "none"
  BY <1>1 DEF SlotConsistent, None
<1>3. CASE active' = s
  BY <1>1, <1>2, <1>3 DEF StageOf
<1>4. CASE s <= generation' /\ active' # s
  BY <1>1, <1>4 DEF StageOf
<1> QED
  BY <1>3, <1>4

(* Every step of the runtime is a step of SessionLifecycle or changes      *)
(* nothing it can see.                                                     *)
LEMMA StepRefines ==
  ASSUME RuntimeInv, RuntimeInv', FloorHasEvent, [Next]_vars
  PROVE  Lifecycle!LifecycleNext \/ UNCHANGED <<generation, Stage, history>>
<1> DEFINE Simulated == Lifecycle!LifecycleNext \/ UNCHANGED <<generation, Stage, history>>
<1>1. /\ TypeOK /\ SlotConsistent /\ SessionTypeOK /\ RunTypeOK
      /\ SlotConsistent' /\ SessionTypeOK' /\ MachineAgrees
  BY TypeFacts DEF RuntimeInv, TypeOK, ControllerTypeOK
<1>2. ASSUME UNCHANGED <<generation, active, run, history>> PROVE Simulated
  BY <1>2, StageKept
<1>3. ASSUME UNCHANGED controllerVars PROVE Simulated
  BY <1>2, <1>3 DEF controllerVars, sessionVars, pipelineVars
<1>4. ASSUME NEW mode \in Modes, StartSession(mode) PROVE Simulated
  <2>1. /\ generation' = generation + 1 /\ active' = generation' /\ active = None
        /\ generation' \in Sessions /\ UNCHANGED <<run, history>>
    BY <1>1, <1>4, SessionAssumption DEF StartSession, SessionTypeOK, Sessions
  <2>2. PICK s \in Sessions : s = generation'
    BY <2>1
  <2>3. StageOf(s)' = "recording"
    BY <1>1, <2>1, <2>2, NextStageValues
  <2>4. \A t \in Sessions : t # s => /\ run'[t] = run[t]
                                     /\ active' = t <=> active = t
                                     /\ t > generation' <=> t > generation
    BY <1>1, <2>1, <2>2 DEF Sessions, SessionTypeOK, None
  <2>5. Stage' = [Stage EXCEPT ![s] = "recording"]
    BY <2>3, <2>4, StageMoves
  <2>6. \A t \in Sessions : Stage[t] # "recording"
    BY <1>1, <2>1 DEF Stage, StageOf, Sessions, None
  <2> QED
    BY <2>1, <2>2, <2>5, <2>6, AbstractSteps
<1>5. ASSUME NEW s \in Sessions, active = s, generation' = generation, active' = None,
             \A t \in Sessions : t # s => run'[t] = run[t]
      PROVE  /\ Stage' = [Stage EXCEPT ![s] = StageOf(s)']
             /\ Stage[s] = "recording" /\ s = generation
             /\ s <= generation' /\ active' # s
  <2>1. s # None /\ s = generation
    BY <1>1, <1>5 DEF SlotConsistent, Sessions, None
  <2>2. \A t \in Sessions : t # s => /\ run'[t] = run[t]
                                     /\ active' = t <=> active = t
                                     /\ t > generation' <=> t > generation
    BY <1>5 DEF Sessions, None
  <2>3. StageOf(s) = "recording"
    BY <1>1, <1>5, StageValues
  <2>4. s \in Nat /\ generation \in Nat
    BY <1>1 DEF Sessions, SessionTypeOK
  <2> QED
    BY <1>5, <2>1, <2>2, <2>3, <2>4, StageMoves DEF Stage
<1>6. ASSUME FinishRecording PROVE Simulated
  BY <1>2, <1>6 DEF FinishRecording, pipelineVars
<1>7. ASSUME CancelRecording PROVE Simulated
  <2>1. PICK s \in Sessions : s = active
    BY <1>1, <1>7 DEF CancelRecording, SessionTypeOK
  <2>2. generation' = generation /\ active' = None /\ UNCHANGED <<run, history>>
    BY <1>7 DEF CancelRecording, ClearActive
  <2>3. run'[s].at = "none"
    BY <1>1, <2>1, <2>2 DEF SlotConsistent
  <2>4. StageOf(s)' = "told"
    BY <1>1, <1>5, <2>1, <2>2, <2>3, NextStageValues
  <2> QED
    BY <1>5, <2>1, <2>2, <2>4, AbstractSteps
<1>8. ASSUME NEW s \in Sessions, CaptureFails(s) PROVE Simulated
  <2>1. /\ active = s /\ active' = None
        /\ UNCHANGED <<generation, history>>
    BY <1>8 DEF CaptureFails, OnCaptureError, ClearActive
  <2>2. Wait(s, "errorFloor", "error") \/ Wait(s, "done", "error")
    BY <1>8 DEF CaptureFails, OnCaptureError
  <2>3. /\ \A t \in Sessions : t # s => run'[t] = run[t]
        /\ run'[s].at = "errorFloor" \/ (run'[s].at = "done" /\ run'[s].event = "error")
    BY <1>1, <2>2 DEF Wait, RunTypeOK
  <2>4. StageOf(s)' \in {"closing", "told"}
    BY <1>1, <1>5, <2>1, <2>3, NextStageValues
  <2> QED
    BY <1>5, <2>1, <2>3, <2>4, AbstractSteps
<1>9. ASSUME NEW s \in Sessions, RecordingArrives(s) PROVE Simulated
  <2>1. /\ active = s /\ active' = None
        /\ UNCHANGED <<generation, history>>
        /\ Wait(s, "context", "none")
    BY <1>9 DEF RecordingArrives, OnCaptureAudio, ClearActive
  <2>2. /\ \A t \in Sessions : t # s => run'[t] = run[t]
        /\ run'[s].at = "context"
    BY <1>1, <2>1 DEF Wait, RunTypeOK
  <2>3. StageOf(s)' = "processing"
    BY <1>1, <1>5, <2>1, <2>2, NextStageValues
  <2> QED
    BY <1>5, <2>1, <2>2, <2>3, AbstractSteps
<1>10. ASSUME NEW s \in Sessions, PipelineStep(s) PROVE Simulated
  <2>1. /\ Moves(s)
        /\ run[s].at \in {"context", "model", "insertFloor", "inject", "floor", "errorFloor"}
        /\ history' = history \/ (run[s].at = "inject" /\ history' = history \cup {s})
    BY <1>10, PipelineMoves
  <2>2. UNCHANGED <<generation, active>>
    BY <1>10, PipelineKeepsSession DEF sessionVars
  <2>3. PICK at, event : /\ Wait(s, at, event)
                         /\ \/ Dropped(s, at, event) \/ Decided(s, at, event)
                            \/ Working(s, at) \/ Inserting(s, at)
    BY <2>1 DEF Moves
  <2>4. run'[s] = [at |-> at, event |-> event] /\ \A t \in Sessions : t # s => run'[t] = run[t]
    BY <1>1, <2>3 DEF Wait, RunTypeOK
  <2>5. s <= generation /\ active # s
    BY <1>1, <2>1 DEF SlotConsistent, Sessions, SessionTypeOK
  <2>6. Stage' = [Stage EXCEPT ![s] = StageOf(s)']
    BY <2>2, <2>4, StageMoves
  <2>7. /\ run[s].at \in {"context", "model", "insertFloor"} => Stage[s] = "processing"
        /\ run[s].at = "inject" => Stage[s] = "inserting"
        /\ run[s].at \in {"floor", "errorFloor"} => Stage[s] = "closing"
    BY <1>1, <2>5, StageValues DEF Stage
  <2>8. /\ s <= generation' /\ active' # s
        /\ run'[s].at = at /\ run'[s].event = event
    BY <2>2, <2>4, <2>5
  <2>9. Superseded(s) <=> s # generation
    BY <1>1 DEF Superseded, SlotConsistent
  <2>10. Stage[s] = "inserting" <=> run[s].at = "inject"
    BY <2>1, <2>7
  <2>11. CASE Dropped(s, at, event)
    <3>1. StageOf(s)' = "dropped"
      BY <1>1, <2>8, <2>11, NextStageValues DEF Dropped
    <3>2. Stage[s] \in {"processing", "inserting", "closing"} /\ s # generation
      BY <2>1, <2>7, <2>9, <2>11 DEF Dropped
    <3> QED
      BY <2>1, <2>2, <2>6, <2>10, <3>1, <3>2, AbstractSteps
  <2>12. CASE Decided(s, at, event)
    <3>1. \/ StageOf(s)' = "told"
          \/ StageOf(s)' = "closing" /\ run[s].at \in {"context", "model", "inject"}
      BY <1>1, <2>8, <2>12, NextStageValues DEF Decided, TerminalEvents
    <3>2. s = generation
      BY <2>9, <2>12 DEF Decided
    <3>3. CASE StageOf(s)' = "told"
      BY <2>1, <2>2, <2>6, <2>7, <2>10, <3>2, <3>3, AbstractSteps
    <3>4. CASE StageOf(s)' = "closing" /\ run[s].at \in {"context", "model", "inject"}
      BY <2>1, <2>2, <2>6, <2>7, <2>10, <3>2, <3>4, AbstractSteps
    <3> QED
      BY <3>1, <3>3, <3>4
  <2>13. CASE Working(s, at)
    <3>1. StageOf(s)' = "processing" /\ Stage[s] = "processing" /\ history' = history
      BY <1>1, <2>1, <2>7, <2>8, <2>13, NextStageValues DEF Working
    <3>2. Stage' = Stage
      BY <2>6, <3>1 DEF Stage
    <3> QED
      BY <2>2, <3>1, <3>2
  <2>14. CASE Inserting(s, at)
    <3>1. StageOf(s)' = "inserting" /\ Stage[s] = "processing" /\ history' = history
      BY <1>1, <2>1, <2>7, <2>8, <2>14, NextStageValues DEF Inserting
    <3>2. s = generation
      BY <2>9, <2>14 DEF Inserting
    <3> QED
      BY <2>2, <2>6, <3>1, <3>2, AbstractSteps
  <2> QED
    BY <2>3, <2>11, <2>12, <2>13, <2>14
<1>11. ASSUME NEW mode \in Modes, ChordStarts(mode) PROVE Simulated
  BY <1>3, <1>4, <1>11 DEF ChordStarts, StartIgnored
<1>12. ASSUME NEW mode \in Modes, ChordDismissesNotice(mode) PROVE Simulated
  BY <1>2, <1>12 DEF ChordDismissesNotice, StartConsumed, sessionVars
<1>13. ASSUME NEW mode \in Modes, ChordCompletes(mode) PROVE Simulated
  BY <1>3, <1>6, <1>13 DEF ChordCompletes
<1>14. CASE UiFinish \/ UiCancel
  BY <1>6, <1>7, <1>14 DEF UiFinish, UiCancel
<1>15. CASE DismissNotice
  BY <1>2, <1>15 DEF DismissNotice, NoticeDismissed, sessionVars, pipelineVars
<1>16. ASSUME NEW s \in Sessions, MicOpens(s) PROVE Simulated
  BY <1>3, <1>16 DEF MicOpens, OnCaptureStarted
<1>17. CASE TimerStep
  BY <1>2, <1>17 DEF TimerStep, SlowTimerFires, ObservationEnds, sessionVars, pipelineVars
<1>18. CASE HoverEnter \/ HoverLeave \/ UserTouchesMute \/ OverlayStep \/ UNCHANGED vars
  BY <1>3, <1>18 DEF HoverEnter, HoverLeave, UserTouchesMute, OverlayStep, vars
<1> QED
  BY <1>8, <1>9, <1>10, <1>11, <1>12, <1>13, <1>14, <1>15, <1>16, <1>17, <1>18 DEF Next

(* The implementation theorem: seen through generation, Stage and history,  *)
(* every behaviour of the runtime is a behaviour of SessionLifecycle, which *)
(* knows nothing of timers, overlays, microphones or toggles.               *)
THEOREM Refines == Spec => ImplementsLifecycle
<1>1. Init => FloorHasEvent
  BY DEF Init, ControllerInit, FloorHasEvent
<1>2. RuntimeInv /\ FloorHasEvent /\ [Next]_vars => FloorHasEvent'
  BY FloorHasEventStep DEF RuntimeInv
<1>3. RuntimeInv /\ RuntimeInv' /\ FloorHasEvent /\ [Next]_vars
        => [Lifecycle!LifecycleNext]_<<generation, Stage, history>>
  BY StepRefines
<1>4. Init => Lifecycle!LifecycleInit
  BY InitRefines
<1> QED
  BY <1>1, <1>2, <1>3, <1>4, Inductive, PTL
     DEF Spec, ImplementsLifecycle, Lifecycle!LifecycleSpec, Lifecycle!lifecycleVars

-----------------------------------------------------------------------------
(* The controller and the capture driver.                                   *)

(* Each session has a capture of its own, and a start fails only before the *)
(* microphone is granted, while the driver still holds it: the other two    *)
(* ways to fail break the promises (README).                                *)
Joined == Captures = Sessions /\ StartFaults = {}

-----------------------------------------------------------------------------
(* The invariant.                                                           *)
InQueue(queue, m) == \E i \in DOMAIN queue : queue[i] = m
Queued(kind, s) == InQueue(toRenderer, <<kind, s>>)
Sent(kind, s) == InQueue(toMain, <<kind, s>>)

(* The controls on their way were sent, by session and then by kind: each   *)
(* once.                                                                    *)
Rank == [kind \in ControlKinds |-> CASE kind = "begin" -> 1
                                     [] kind = "finish" -> 2
                                     [] kind = "cancel" -> 3]

Before(a, b) == a[2] < b[2] \/ (a[2] = b[2] /\ Rank[a[1]] < Rank[b[1]])

ControlsInOrder ==
  /\ \A i \in DOMAIN toRenderer : toRenderer[i] \in controls
  /\ \A i, j \in DOMAIN toRenderer : i < j => Before(toRenderer[i], toRenderer[j])

(* A cancelled session does not hold the slot.                              *)
CancelFrees == \A s \in Sessions : <<"cancel", s>> \in controls => active # s

(* A session the driver knows nothing of has its begin on its way; what is  *)
(* on its way is of no earlier session than those it knows.                 *)
BeginIsServed ==
  /\ \A s \in Sessions : beginAt[s] = "none" <=> s > generation \/ Queued("begin", s)
  /\ \A s, t \in Sessions : \A kind \in ControlKinds :
       beginAt[s] # "none" /\ Queued(kind, t) => s <= t

(* The driver holds a capture its session has told to end only while that   *)
(* is on its way.                                                           *)
EndIsServed ==
  \A s \in Sessions : \A kind \in {"finish", "cancel"} :
    <<kind, s>> \in controls /\ (beginAt[s] = "none" \/ captureRef = s) => Queued(kind, s)

RefsMatch ==
  captureRef # NoCapture => sessionRef = captureRef /\ beginAt[captureRef] # "none"

(* One capture's awaits and its microphone.                                 *)
MicMatches(s) ==
  /\ stream[s] <=> mic[s] \in {"opening", "recording"}
  /\ beginAt[s] # "teardown"
  /\ beginAt[s] = "none" <=> mic[s] = "idle"
  /\ beginAt[s] = "start" <=> Starting(s)
  /\ mic[s] \in {"asking", "opening", "recording"} =>
       captureRef = s \/ s \in cancelling \/ finishAt[s] = "stop"

EndMatches(s) ==
  /\ finishAt[s] # "none" => <<"finish", s>> \in controls /\ beginAt[s] # "none"
  /\ finishAt[s] \in {"close", "done"} => ~Starting(s)
  /\ s \in cancelling => <<"cancel", s>> \in controls /\ beginAt[s] # "none"

CapturesMatch == \A s \in Sessions : MicMatches(s) /\ EndMatches(s)

(* An ack is of a start that succeeded: media is muted by one, and none is  *)
(* sent of a microphone that was refused.                                   *)
Refused(s) ==
  mic[s] = "stopped" /\ <<"finish", s>> \notin controls /\ <<"cancel", s>> \notin controls

AcksAreTrue ==
  /\ \A s \in Sessions : Sent("started", s) => beginAt[s] = "done"
  /\ engaged => beginAt[active] = "done"
  /\ \A s \in Sessions :
       Refused(s) => beginAt[s] = "done" /\ ~Sent("started", s) /\ ~(engaged /\ active = s)

(* The cue gate is left closed only by a capture whose start succeeded and  *)
(* whose finish, if any, is not yet served.                                 *)
CueHasOwner ==
  cueGate => \E s \in Sessions : beginAt[s] \in {"lead", "done"} /\ finishAt[s] # "done"

(* The live session's capture is held, being finished, or answered for.     *)
Answering ==
  finishAt[active] \in {"stop", "close"} \/ Sent("audio", active) \/ Sent("error", active)

SlotIsServed == active # None /\ beginAt[active] # "none" => captureRef = active \/ Answering

CaptureInd ==
  /\ RuntimeInv /\ SystemTypeOK
  /\ ControlsInOrder /\ CancelFrees
  /\ BeginIsServed /\ EndIsServed /\ RefsMatch
  /\ CapturesMatch /\ AcksAreTrue /\ CueHasOwner
  /\ SlotIsServed /\ AnswerIsComing

-----------------------------------------------------------------------------
(* Queues.                                                                  *)
LEMMA Appending ==
  ASSUME NEW S, NEW queue \in Seq(S), NEW m \in S
  PROVE  /\ Append(queue, m) \in Seq(S)
         /\ \A i \in DOMAIN Append(queue, m) :
              /\ i \in Nat
              /\ \/ i \in DOMAIN queue /\ Append(queue, m)[i] = queue[i]
                 \/ Append(queue, m)[i] = m /\ \A j \in DOMAIN Append(queue, m) : j <= i
         /\ \A x : InQueue(Append(queue, m), x) <=> InQueue(queue, x) \/ x = m
<1> DEFINE longer == Append(queue, m)
<1>1. /\ longer \in Seq(S) /\ Len(queue) \in Nat /\ Len(longer) = Len(queue) + 1
      /\ DOMAIN queue = 1 .. Len(queue) /\ DOMAIN longer = 1 .. Len(longer)
      /\ longer[Len(longer)] = m /\ \A i \in 1 .. Len(queue) : longer[i] = queue[i]
  OBVIOUS
<1> HIDE DEF longer
<1>2. ASSUME NEW x, InQueue(queue, x) PROVE InQueue(longer, x)
  BY <1>1, <1>2 DEF InQueue
<1>3. InQueue(longer, m)
  BY <1>1 DEF InQueue
<1>4. ASSUME NEW x, InQueue(longer, x), x # m PROVE InQueue(queue, x)
  <2>1. PICK i \in 1 .. Len(longer) : longer[i] = x
    BY <1>1, <1>4 DEF InQueue
  <2>2. i \in 1 .. Len(queue)
    BY <1>1, <1>4, <2>1
  <2> QED BY <1>1, <2>1, <2>2 DEF InQueue
<1>5. \A x : InQueue(longer, x) <=> InQueue(queue, x) \/ x = m
  BY <1>2, <1>3, <1>4
<1>6. ASSUME NEW i \in DOMAIN longer
      PROVE  i \in Nat /\ ((i \in DOMAIN queue /\ longer[i] = queue[i])
                           \/ (longer[i] = m /\ \A j \in DOMAIN longer : j <= i))
  BY <1>1
<1> QED BY <1>1, <1>5, <1>6 DEF longer

LEMMA Taking ==
  ASSUME NEW S, NEW queue \in Seq(S), queue # <<>>
  PROVE  /\ Tail(queue) \in Seq(S) /\ Head(queue) \in S
         /\ 1 \in DOMAIN queue /\ queue[1] = Head(queue)
         /\ \A i \in DOMAIN Tail(queue) :
              i + 1 \in DOMAIN queue /\ i \in Nat /\ Tail(queue)[i] = queue[i + 1] /\ 1 < i + 1
         /\ \A x : InQueue(queue, x) <=> InQueue(Tail(queue), x) \/ x = Head(queue)
<1> DEFINE shorter == Tail(queue)
<1>1. /\ shorter \in Seq(S) /\ Len(queue) \in Nat \ {0} /\ Len(shorter) = Len(queue) - 1
      /\ DOMAIN queue = 1 .. Len(queue) /\ DOMAIN shorter = 1 .. Len(shorter)
      /\ \A i \in 1 .. Len(shorter) : shorter[i] = queue[i + 1]
      /\ queue[1] = Head(queue) /\ Head(queue) \in S
  OBVIOUS
<1> HIDE DEF shorter
<1>2. 1 \in DOMAIN queue
  BY <1>1
<1>3. \A i \in DOMAIN shorter :
        i + 1 \in DOMAIN queue /\ i \in Nat /\ shorter[i] = queue[i + 1] /\ 1 < i + 1
  BY <1>1
<1>4. ASSUME NEW x, InQueue(shorter, x) PROVE InQueue(queue, x)
  BY <1>3, <1>4 DEF InQueue
<1>5. InQueue(queue, Head(queue))
  BY <1>1, <1>2 DEF InQueue
<1>6. ASSUME NEW x, InQueue(queue, x), x # Head(queue) PROVE InQueue(shorter, x)
  <2>1. PICK i \in 1 .. Len(queue) : queue[i] = x
    BY <1>1, <1>6 DEF InQueue
  <2>2. i - 1 \in 1 .. Len(shorter) /\ (i - 1) + 1 = i
    BY <1>1, <1>6, <2>1
  <2>3. shorter[i - 1] = x
    BY <1>1, <2>1, <2>2
  <2> QED BY <1>1, <2>2, <2>3 DEF InQueue
<1>7. \A x : InQueue(queue, x) <=> InQueue(shorter, x) \/ x = Head(queue)
  BY <1>4, <1>5, <1>6
<1> QED BY <1>1, <1>2, <1>3, <1>7 DEF shorter

-----------------------------------------------------------------------------
(* Types, and the step the runtime takes.                                   *)
Messages == {"started", "audio", "error"} \X Captures

LEMMA SendsTyped ==
  ASSUME toMain \in Seq(Messages), NEW s \in Captures,
         NEW kind \in {"started", "audio", "error"}, Send(kind, s)
  PROVE  toMain' \in Seq(Messages)
<1>1. <<kind, s>> \in Messages
  BY DEF Messages
<1> QED BY <1>1, Appending DEF Send

LEMMA DriverTyped ==
  ASSUME DriverTypeOK, NEW s \in Captures, OnBegin(s) \/ OnFinish(s) \/ OnCancel(s) \/ DriverStep(s)
  PROVE  DriverTypeOK'
<1> USE DEF DriverTypeOK
<1>1. toMain \in Seq(Messages)
  BY DEF Messages
<1>2. ASSUME OpenMic(s), cancelling' = cancelling PROVE DriverTypeOK'
  BY <1>2 DEF OpenMic
<1>3. CASE OnBegin(s)
  BY <1>3, <1>2 DEF OnBegin
<1>4. CASE OnFinish(s)
  BY <1>4 DEF OnFinish, EmptyRefs, driverVars
<1>5. CASE OnCancel(s)
  <2>1. cueGate' \in BOOLEAN
    BY <1>5 DEF OnCancel, driverVars
  <2>2. cancelling' \subseteq Captures
    BY <1>5 DEF OnCancel, driverVars
  <2>3. captureRef' \in Captures \cup {NoCapture} /\ sessionRef' \in Captures \cup {NoCapture}
    BY <1>5 DEF OnCancel, driverVars, EmptyRefs
  <2>4. UNCHANGED <<mic, stream, beginAt, finishAt, toMain>>
    BY <1>5 DEF OnCancel, driverVars
  <2> QED BY <2>1, <2>2, <2>3, <2>4
<1>6. CASE StaleCaptureGone(s)
  BY <1>6, <1>2 DEF StaleCaptureGone
<1>7. CASE MicGranted(s)
  BY <1>7 DEF MicGranted
<1>8. CASE MicReady(s)
  BY <1>8 DEF MicReady
<1>9. CASE StartFails(s)
  <2>1. toMain' \in Seq(Messages)
    BY <1>9, <1>1, SendsTyped DEF StartFails
  <2> QED BY <1>9, <2>1 DEF StartFails, Messages
<1>10. CASE LeadEnds(s)
  <2>1. toMain' \in Seq(Messages)
    BY <1>10, <1>1, SendsTyped DEF LeadEnds
  <2> QED BY <1>10, <2>1 DEF LeadEnds, Messages
<1>11. CASE StopSettles(s)
  <2>1. toMain' \in Seq(Messages)
    BY <1>11, <1>1, SendsTyped DEF StopSettles
  <2> QED BY <1>11, <2>1 DEF StopSettles, Messages
<1>12. CASE StopCloses(s)
  <2>1. toMain' \in Seq(Messages)
    BY <1>12, <1>1, SendsTyped DEF StopCloses
  <2> QED BY <1>12, <2>1 DEF StopCloses, Messages
<1>13. CASE CancelSettles(s)
  BY <1>13 DEF CancelSettles
<1> QED
  BY <1>3, <1>4, <1>5, <1>6, <1>7, <1>8, <1>9, <1>10, <1>11, <1>12, <1>13 DEF DriverStep

(* Every step of the two joined is a step of the runtime with its free      *)
(* renderer, or leaves the runtime alone.                                   *)
LEMMA StepImplements ==
  ASSUME Joined, SystemTypeOK, [SystemNext]_systemVars
  PROVE  [Next]_vars
<1>1. CASE MainStep
  BY <1>1 DEF MainStep, Next
<1>2. CASE MainReceives
  <2>1. Head(toMain)[2] \in Sessions
    <3>1. Head(toMain) \in Messages
      BY <1>2, Taking DEF MainReceives, SystemTypeOK, DriverTypeOK, Messages
    <3> QED BY <3>1 DEF Messages, Joined
  <2> QED BY <1>2, <2>1 DEF MainReceives, Next
<1>3. CASE RendererReceives \/ RendererStep \/ UNCHANGED systemVars
  BY <1>3 DEF RendererReceives, RendererStep, systemVars
<1> QED BY <1>1, <1>2, <1>3 DEF SystemNext

LEMMA SystemTypeStep ==
  ASSUME Joined, SystemTypeOK, [SystemNext]_systemVars
  PROVE  SystemTypeOK'
<1> USE DEF SystemTypeOK
<1>1. TypeOK'
  BY StepImplements, TypeStep
<1>2. controls' \subseteq ControlKinds \X Sessions
  BY <1>1 DEF TypeOK, ControllerTypeOK
<1>3. ASSUME Forward PROVE toRenderer' \in Seq(ControlKinds \X Sessions)
  BY <1>2, <1>3, Appending DEF Forward
<1>4. CASE MainStep
  BY <1>1, <1>3, <1>4 DEF MainStep, driverVars, DriverTypeOK
<1>5. CASE MainReceives
  <2>1. toMain' \in Seq({"started", "audio", "error"} \X Captures)
    BY <1>5, Taking DEF MainReceives, DriverTypeOK
  <2>2. DriverTypeOK'
    BY <1>5, <2>1 DEF MainReceives, DriverTypeOK
  <2> QED BY <1>1, <1>3, <1>5, <2>2 DEF MainReceives
<1>6. CASE RendererReceives
  <2>1. toRenderer' \in Seq(ControlKinds \X Sessions) /\ Head(toRenderer) \in ControlKinds \X Sessions
    BY <1>6, Taking DEF RendererReceives
  <2>2. Head(toRenderer)[2] \in Captures
    BY <2>1 DEF Joined
  <2> QED BY <1>1, <1>6, <2>1, <2>2, DriverTyped DEF RendererReceives
<1>7. CASE RendererStep
  BY <1>1, <1>7, DriverTyped DEF RendererStep
<1>8. CASE UNCHANGED systemVars
  BY <1>1, <1>8 DEF systemVars, driverVars, DriverTypeOK
<1> QED BY <1>4, <1>5, <1>6, <1>7, <1>8 DEF SystemNext

-----------------------------------------------------------------------------
(* What a step of the main process does to the slot and the controls.       *)
Begins(s) ==
  /\ active = None /\ ~engaged' /\ s = generation + 1 /\ generation' = s
  /\ active' = s /\ ~awaitingAudio' /\ controls' = controls \cup {<<"begin", s>>}

Finishes ==
  /\ active # None /\ ~awaitingAudio /\ ~engaged' /\ awaitingAudio'
  /\ UNCHANGED <<generation, active>> /\ controls' = controls \cup {<<"finish", active>>}

Cancels ==
  /\ active # None /\ active' = None /\ ~engaged' /\ UNCHANGED generation
  /\ controls' = controls \cup {<<"cancel", active>>}

Keeps ==
  /\ UNCHANGED <<generation, controls>>
  /\ UNCHANGED <<active, awaitingAudio>> \/ active' = None

SlotMoves == (\E s \in Sessions : Begins(s)) \/ Finishes \/ Cancels \/ (Keeps /\ (engaged' => engaged))

LEMMA MainSlot ==
  ASSUME RuntimeInv, MainStep
  PROVE  SlotMoves
<1> USE DEF SlotMoves
<1>1. /\ TypeOK /\ MutedOnlyWhileListening /\ SessionTypeOK
      /\ engaged \in BOOLEAN
  BY TypeFacts DEF RuntimeInv, TypeOK, MuteTypeOK
<1>2. ASSUME Keeps, engaged' = engaged PROVE SlotMoves
  BY <1>2
<1>3. ASSUME UNCHANGED <<sessionVars, controls>>, UNCHANGED muteVars PROVE SlotMoves
  BY <1>2, <1>3 DEF Keeps, sessionVars, muteVars
<1>4. ASSUME UNCHANGED controllerVars, UNCHANGED muteVars PROVE SlotMoves
  BY <1>3, <1>4 DEF controllerVars
<1>5. ASSUME UNCHANGED <<sessionVars, controls>>, ReleaseMute PROVE SlotMoves
  BY <1>5, ReleaseDisengages DEF Keeps, sessionVars
<1>6. ASSUME NEW mode \in Modes, StartSession(mode), UNCHANGED muteVars PROVE SlotMoves
  <2>1. generation + 1 \in Sessions /\ generation' = generation + 1
    BY <1>1, <1>6, SessionAssumption DEF StartSession, Sessions, SessionTypeOK
  <2>2. ~engaged'
    BY <1>1, <1>6 DEF StartSession, muteVars, MutedOnlyWhileListening, Listening
  <2>3. ~awaitingAudio'
    BY <1>6, Zenon DEF StartSession
  <2>4. Begins(generation + 1)
    BY <1>6, <2>1, <2>2, <2>3 DEF StartSession, Begins, SendControl
  <2> QED BY <2>1, <2>4
<1>7. ASSUME FinishRecording PROVE SlotMoves
  <2>1. ~engaged' /\ awaitingAudio'
    BY <1>7, ReleaseDisengages, Zenon DEF FinishRecording
  <2> QED BY <1>7, <2>1 DEF FinishRecording, Finishes, SendControl
<1>8. ASSUME CancelRecording PROVE SlotMoves
  BY <1>8, ReleaseDisengages DEF CancelRecording, Cancels, ClearActive, SendControl
<1>9. ASSUME NEW mode \in Modes,
             ChordStarts(mode) \/ ChordDismissesNotice(mode) \/ ChordCompletes(mode)
      PROVE  SlotMoves
  BY <1>9, <1>3, <1>4, <1>6, <1>7 DEF ChordStarts, StartIgnored, ChordDismissesNotice,
                                      StartConsumed, ChordCompletes
<1>10. CASE UiFinish \/ UiCancel
  BY <1>10, <1>7, <1>8 DEF UiFinish, UiCancel
<1>11. CASE DismissNotice \/ TimerStep
  BY <1>11, <1>3 DEF DismissNotice, NoticeDismissed, TimerStep, SlowTimerFires, ObservationEnds
<1>12. CASE HoverEnter \/ HoverLeave \/ OverlayStep
  BY <1>12, <1>4 DEF HoverEnter, HoverLeave, OverlayStep
<1>13. CASE UserTouchesMute
  BY <1>13, <1>2 DEF UserTouchesMute, UserTogglesMute, Keeps, controllerVars, sessionVars
<1>14. ASSUME NEW s \in Sessions, PipelineStep(s) PROVE SlotMoves
  <2>1. UNCHANGED <<sessionVars, controls>>
    BY <1>14, PipelineKeepsSession
  <2>2. ReleaseMute \/ UNCHANGED muteVars
    BY <1>14 DEF PipelineStep, ContextArrives, ModelAnswers, InsertFloorEnds,
                 InjectionEnds, FloorEnds, EndOfRun
  <2> QED BY <1>3, <1>5, <2>1, <2>2
<1> QED BY <1>9, <1>10, <1>11, <1>12, <1>13, <1>14 DEF MainStep

(* The same of a message it receives; only an ack of the live session mutes. *)
Acks == Keeps /\ active' = active /\ Head(toMain) = <<"started", active>>

LEMMA ReceivesSlot ==
  ASSUME Joined, RuntimeInv, SystemTypeOK, MainReceives
  PROVE  /\ SlotMoves \/ Acks
         /\ active # None /\ Head(toMain) \in {<<"audio", active>>, <<"error", active>>}
              => active' = None
<1> DEFINE kind == Head(toMain)[1]
           s == Head(toMain)[2]
<1>1. s \in Sessions /\ Head(toMain) = <<kind, s>>
  <2>1. Head(toMain) \in Messages
    BY Taking DEF MainReceives, SystemTypeOK, DriverTypeOK, Messages
  <2> QED BY <2>1 DEF Messages, Joined
<1>2. s # None
  BY <1>1 DEF Sessions, None
<1>3. \/ kind = "started" /\ MicOpens(s)
      \/ kind = "audio" /\ RecordingArrives(s)
      \/ kind = "error" /\ CaptureFails(s)
      \/ (active # s \/ (kind = "started" /\ awaitingAudio)) /\ UNCHANGED vars
  BY DEF MainReceives
<1> HIDE DEF kind, s
<1>4. CASE kind = "started" /\ MicOpens(s)
  <2>1. Keeps /\ active = s /\ active' = active
    BY <1>4 DEF MicOpens, OnCaptureStarted, Keeps, controllerVars, sessionVars
  <2>2. Acks
    BY <1>1, <1>4, <2>1 DEF Acks
  <2> QED BY <1>1, <1>4, <2>2
<1>5. CASE kind = "audio" /\ RecordingArrives(s)
  <2>1. Keeps /\ active' = None /\ engaged' = engaged
    BY <1>5 DEF RecordingArrives, OnCaptureAudio, Keeps, ClearActive, muteVars
  <2> QED BY <2>1 DEF SlotMoves
<1>6. CASE kind = "error" /\ CaptureFails(s)
  <2>1. Cancels
    BY <1>2, <1>6, ReleaseDisengages DEF CaptureFails, OnCaptureError, Cancels, ClearActive, SendControl
  <2> QED BY <2>1 DEF SlotMoves, Cancels
<1>7. CASE (active # s \/ (kind = "started" /\ awaitingAudio)) /\ UNCHANGED vars
  <2>1. Keeps /\ engaged' = engaged
    BY <1>7 DEF vars, Keeps, controllerVars, sessionVars, muteVars
  <2>2. Head(toMain) \notin {<<"audio", active>>, <<"error", active>>}
    BY <1>1, <1>7
  <2> QED BY <2>1, <2>2 DEF SlotMoves
<1> QED BY <1>3, <1>4, <1>5, <1>6, <1>7

(* A control is forwarded once, behind all that were sent before it.        *)
Told(kind, s) ==
  /\ controls' = controls \cup {<<kind, s>>}
  /\ toRenderer' = Append(toRenderer, <<kind, s>>)
  /\ \A control \in controls : Before(control, <<kind, s>>)

Tells ==
  \/ \E s \in Sessions : Begins(s) /\ Told("begin", s)
  \/ Finishes /\ Told("finish", active)
  \/ Cancels /\ Told("cancel", active)
  \/ Keeps /\ UNCHANGED toRenderer

LEMMA RanksDiffer ==
  Rank["begin"] = 1 /\ Rank["finish"] = 2 /\ Rank["cancel"] = 3
BY DEF Rank, ControlKinds

LEMMA ForwardTells ==
  ASSUME Joined, RuntimeInv, CancelFrees, SlotMoves \/ Acks, Forward
  PROVE  Tells
<1>1. /\ SessionTypeOK /\ controls \subseteq ControlKinds \X Sessions
      /\ active # None => active = generation /\ active \in Sessions
      /\ \A control \in controls : control[2] <= generation
      /\ active # None /\ <<"finish", active>> \in controls => awaitingAudio
  BY TypeFacts DEF RuntimeInv, TypeOK, ControllerTypeOK, SlotConsistent, SessionTypeOK
<1>2. ASSUME NEW control \in controls
      PROVE  /\ control[1] \in ControlKinds /\ control[2] \in Sessions
             /\ control = <<control[1], control[2]>>
             /\ control[2] \in Int /\ control[2] <= generation
  BY <1>1 DEF Sessions
<1>3. ASSUME NEW kind, NEW s \in Sessions, controls' = controls \cup {<<kind, s>>},
             \A control \in controls : Before(control, <<kind, s>>)
      PROVE  Told(kind, s)
  <2>1. \A control \in controls : Rank[control[1]] \in Int
    BY <1>2, RanksDiffer DEF ControlKinds
  <2>2. \A control \in controls : control # <<kind, s>>
    <3> SUFFICES ASSUME NEW control \in controls, control = <<kind, s>> PROVE FALSE
      OBVIOUS
    <3>1. control[1] = kind /\ control[2] = s /\ Before(control, control)
      BY <1>3
    <3> QED BY <1>2, <2>1, <3>1 DEF Before
  <2>3. controls' \ controls = {<<kind, s>>} /\ controls' # controls
    BY <1>3, <2>2
  <2> QED BY <1>3, <2>3 DEF Forward, Told
<1>4. ASSUME NEW s \in Sessions, Begins(s) PROVE Told("begin", s)
  <2>1. \A control \in controls : Before(control, <<"begin", s>>)
    BY <1>1, <1>2, <1>4 DEF Before, Begins, SessionTypeOK
  <2> QED BY <1>3, <1>4, <2>1 DEF Begins
<1>5. CASE Finishes
  <2>1. ASSUME NEW control \in controls PROVE Before(control, <<"finish", active>>)
    <3>1. control[2] = active => control[1] = "begin"
      BY <1>1, <1>2, <1>5 DEF Finishes, CancelFrees, ControlKinds
    <3> QED BY <1>1, <1>2, <1>5, <3>1, RanksDiffer DEF Before, Finishes, Sessions
  <2> QED BY <1>1, <1>3, <1>5, <2>1 DEF Finishes, Tells
<1>6. CASE Cancels
  <2>1. ASSUME NEW control \in controls PROVE Before(control, <<"cancel", active>>)
    <3>1. control[2] = active => control[1] \in {"begin", "finish"}
      BY <1>1, <1>2, <1>6 DEF Cancels, CancelFrees, ControlKinds
    <3> QED BY <1>1, <1>2, <1>6, <3>1, RanksDiffer DEF Before, Cancels, Sessions
  <2> QED BY <1>1, <1>3, <1>6, <2>1 DEF Cancels, Tells
<1>7. CASE Keeps
  BY <1>7 DEF Keeps, Forward, Tells
<1> QED BY <1>4, <1>5, <1>6, <1>7 DEF SlotMoves, Acks, Tells

(* A step of the main process as the driver sees it.                        *)
driverRest == <<captureRef, sessionRef, mic, stream, beginAt, finishAt, cancelling, cueGate>>

Takes ==
  /\ toMain # <<>> /\ toMain' = Tail(toMain)
  /\ active # None /\ Head(toMain) \in {<<"audio", active>>, <<"error", active>>} => active' = None

MainMoves ==
  /\ Tells
  /\ UNCHANGED driverRest
  /\ UNCHANGED toMain \/ Takes
  /\ engaged' => active' = active /\ (engaged \/ Sent("started", active))

LEMMA MainMovesSo ==
  ASSUME Joined, RuntimeInv, RuntimeInv', SystemTypeOK, CancelFrees, MainStep \/ MainReceives
  PROVE  MainMoves
<1>1. SlotMoves \/ (Acks /\ MainReceives)
  BY MainSlot, ReceivesSlot
<1>2. Tells
  BY <1>1, ForwardTells DEF MainStep, MainReceives
<1>3. UNCHANGED driverRest /\ (UNCHANGED toMain \/ (MainReceives /\ toMain' = Tail(toMain)))
  BY DEF MainStep, MainReceives, driverVars, driverRest
<1>4. MainReceives => Takes \/ toMain' # Tail(toMain)
  BY ReceivesSlot DEF MainReceives, Takes
<1>5. ASSUME engaged' PROVE active' = active /\ (engaged \/ Sent("started", active))
  <2>1. active' # None
    BY <1>5 DEF RuntimeInv, MutedOnlyWhileListening, Listening
  <2>2. Acks => Keeps
    BY DEF Acks
  <2>3. active' = active
    BY <1>1, <1>5, <2>1, <2>2 DEF SlotMoves, Begins, Finishes, Cancels, Keeps
  <2>4. Acks /\ MainReceives => Sent("started", active)
    <3>1. MainReceives => InQueue(toMain, Head(toMain))
      BY Taking DEF MainReceives, SystemTypeOK, DriverTypeOK
    <3> QED BY <3>1 DEF Acks, Sent
  <2> QED BY <1>1, <1>5, <2>3, <2>4 DEF SlotMoves, Begins, Finishes, Cancels
<1> QED BY <1>2, <1>3, <1>4, <1>5 DEF MainMoves

-----------------------------------------------------------------------------
(* The invariant over a step of the main process.                           *)
News == controls' \ controls

(* What is told reaches the queue, and is of the newest session.            *)
LEMMA WhatIsTold ==
  ASSUME RuntimeInv, SystemTypeOK, Tells
  PROVE  /\ \A s \in Sessions : s \in Int
         /\ generation \in Int /\ generation' \in {generation, generation + 1}
         /\ controls \subseteq controls'
         /\ \A x : InQueue(toRenderer', x) <=> InQueue(toRenderer, x) \/ x \in News
         /\ \A x \in News : x[2] = generation' /\ (x[1] = "begin" <=> generation' # generation)
         /\ generation' # generation => <<"begin", generation'>> \in News
         /\ \A s \in Sessions : <<"cancel", s>> \in News => active' # s
         /\ active' \in {active, None} \/ (active' = generation' /\ generation' # generation)
         /\ active' # None /\ awaitingAudio' =>
              active' = active /\ (awaitingAudio \/ InQueue(toRenderer', <<"finish", active>>))
<1>1. /\ SessionTypeOK /\ controls \subseteq ControlKinds \X Sessions
      /\ toRenderer \in Seq(ControlKinds \X Sessions)
      /\ active # None => active = generation /\ active \in Sessions
      /\ \A control \in controls : control[2] <= generation
  BY TypeFacts DEF RuntimeInv, TypeOK, ControllerTypeOK, SlotConsistent, SessionTypeOK, SystemTypeOK
<1>2. generation \in Int /\ \A s \in Sessions : s \in Int /\ s # None
  BY <1>1 DEF SessionTypeOK, Sessions, None
<1>3. ASSUME NEW kind \in ControlKinds, NEW s \in Sessions, Told(kind, s)
      PROVE  /\ \A x : InQueue(toRenderer', x) <=> InQueue(toRenderer, x) \/ x = <<kind, s>>
             /\ News \subseteq {<<kind, s>>} /\ controls' = controls \cup {<<kind, s>>}
  BY <1>1, <1>3, Appending DEF Told, News
<1>4. ASSUME NEW kind \in ControlKinds, NEW s \in Sessions, Told(kind, s), <<kind, s>> \in controls
      PROVE  FALSE
  <2>1. Before(<<kind, s>>, <<kind, s>>)
    BY <1>4 DEF Told
  <2> QED BY <1>2, <2>1, RanksDiffer DEF Before, ControlKinds
<1>5. ASSUME NEW s \in Sessions, Begins(s), Told("begin", s)
      PROVE  /\ \A x : InQueue(toRenderer', x) <=> InQueue(toRenderer, x) \/ x \in News
             /\ News = {<<"begin", s>>}
  BY <1>3, <1>4, <1>5 DEF News, ControlKinds
<1>6. CASE Finishes /\ Told("finish", active)
  <2>1. /\ \A x : InQueue(toRenderer', x) <=> InQueue(toRenderer, x) \/ x \in News
        /\ News = {<<"finish", active>>}
    BY <1>1, <1>3, <1>4, <1>6 DEF News, ControlKinds, Finishes
  <2> QED BY <1>1, <1>2, <1>6, <2>1 DEF Finishes
<1>7. CASE Cancels /\ Told("cancel", active)
  <2>1. /\ \A x : InQueue(toRenderer', x) <=> InQueue(toRenderer, x) \/ x \in News
        /\ News = {<<"cancel", active>>}
    BY <1>1, <1>3, <1>4, <1>7 DEF News, ControlKinds, Cancels
  <2> QED BY <1>1, <1>2, <1>7, <2>1 DEF Cancels
<1>8. ASSUME NEW s \in Sessions, Begins(s), Told("begin", s)
      PROVE  /\ generation' = generation + 1 /\ generation' # generation /\ generation' = s
             /\ active' = s /\ ~awaitingAudio' /\ controls \subseteq controls'
  BY <1>2, <1>8 DEF Begins
<1>9. CASE Keeps /\ UNCHANGED toRenderer
  <2>1. News = {}
    BY <1>9 DEF Keeps, News
  <2> QED BY <1>1, <1>2, <1>9, <2>1 DEF Keeps
<1>10. CASE \E s \in Sessions : Begins(s) /\ Told("begin", s)
  BY <1>2, <1>5, <1>8, <1>10
<1> QED BY <1>6, <1>7, <1>9, <1>10 DEF Tells

LEMMA MainKeepsOrder ==
  ASSUME SystemTypeOK, ControlsInOrder, Tells
  PROVE  ControlsInOrder'
<1>1. ASSUME NEW kind \in ControlKinds, NEW s \in Sessions, Told(kind, s) PROVE ControlsInOrder'
  <2> DEFINE m == <<kind, s>>
             longer == Append(toRenderer, m)
  <2>1. \A i \in DOMAIN longer :
          /\ i \in Nat
          /\ \/ i \in DOMAIN toRenderer /\ longer[i] = toRenderer[i]
             \/ longer[i] = m /\ \A j \in DOMAIN longer : j <= i
    BY <1>1, Appending DEF SystemTypeOK
  <2>2. toRenderer' = longer /\ controls' = controls \cup {m} /\ \A c \in controls : Before(c, m)
    BY <1>1 DEF Told
  <2> HIDE DEF m, longer
  <2>3. \A i \in DOMAIN longer : longer[i] \in controls'
    BY <2>1, <2>2 DEF ControlsInOrder
  <2>4. ASSUME NEW i \in DOMAIN longer, NEW j \in DOMAIN longer, i < j
        PROVE  Before(longer[i], longer[j])
    <3>1. i \in DOMAIN toRenderer /\ longer[i] = toRenderer[i] /\ longer[i] \in controls
      BY <2>1, <2>4 DEF ControlsInOrder
    <3> QED BY <2>1, <2>2, <2>4, <3>1 DEF ControlsInOrder
  <2> QED BY <2>2, <2>3, <2>4 DEF ControlsInOrder
<1>2. ASSUME UNCHANGED toRenderer, UNCHANGED controls PROVE ControlsInOrder'
  BY <1>2 DEF ControlsInOrder
<1>3. active # None => active \in Sessions
  BY DEF SystemTypeOK, TypeOK, ControllerTypeOK, SessionTypeOK
<1> QED BY <1>1, <1>2, <1>3 DEF Tells, ControlKinds, Finishes, Cancels, Keeps

LEMMA MainKeepsControls ==
  ASSUME RuntimeInv, SystemTypeOK, ControlsInOrder, CancelFrees, BeginIsServed, EndIsServed,
         MainMoves
  PROVE  ControlsInOrder' /\ CancelFrees' /\ BeginIsServed' /\ EndIsServed'
<1>1. Tells /\ UNCHANGED <<captureRef, beginAt>>
  BY DEF MainMoves, driverRest
<1>2. ControlsInOrder'
  BY <1>1, MainKeepsOrder
<1>3. \A x : InQueue(toRenderer', x) <=> InQueue(toRenderer, x) \/ x \in News
  BY <1>1, WhatIsTold
<1>4. CancelFrees'
  <2> SUFFICES ASSUME NEW s \in Sessions, <<"cancel", s>> \in controls' PROVE active' # s
    BY DEF CancelFrees
  <2>1. \A control \in controls : control[2] <= generation
    BY DEF RuntimeInv, SlotConsistent
  <2>2. <<"cancel", s>> \in controls => active # s /\ s <= generation /\ s # None
    BY <2>1 DEF CancelFrees, Sessions, None
  <2> QED BY <1>1, <2>2, WhatIsTold DEF News
<1>5. BeginIsServed'
  <2>1. ASSUME NEW s \in Sessions
        PROVE  beginAt[s] = "none" <=> s > generation' \/ InQueue(toRenderer', <<"begin", s>>)
    <3>1. beginAt[s] = "none" <=> s > generation \/ InQueue(toRenderer, <<"begin", s>>)
      BY DEF BeginIsServed, Queued
    <3>2. <<"begin", s>> \in News <=> s = generation' /\ generation' # generation
      BY <1>1, WhatIsTold
    <3> QED BY <1>1, <1>3, <3>1, <3>2, WhatIsTold
  <2>2. ASSUME NEW s \in Sessions, NEW t \in Sessions, NEW kind \in ControlKinds,
               beginAt[s] # "none", InQueue(toRenderer', <<kind, t>>)
        PROVE  s <= t
    <3>1. CASE InQueue(toRenderer, <<kind, t>>)
      BY <2>2, <3>1 DEF BeginIsServed, Queued
    <3>2. CASE <<kind, t>> \in News
      <4>1. t = generation' /\ ~(s > generation)
        BY <1>1, <2>2, <3>2, WhatIsTold DEF BeginIsServed
      <4> QED BY <1>1, <4>1, WhatIsTold
    <3> QED BY <1>3, <2>2, <3>1, <3>2
  <2> QED BY <1>1, <2>1, <2>2 DEF BeginIsServed, Queued
<1>6. EndIsServed'
  BY <1>1, <1>3 DEF EndIsServed, Queued, News
<1> QED BY <1>2, <1>4, <1>5, <1>6

LEMMA MainKeepsDriver ==
  ASSUME RuntimeInv, MutedOnlyWhileListening', SystemTypeOK, RefsMatch, CapturesMatch, AcksAreTrue, CueHasOwner, MainMoves
  PROVE  RefsMatch' /\ CapturesMatch' /\ AcksAreTrue' /\ CueHasOwner'
<1>1. Tells /\ controls \subseteq controls' /\ UNCHANGED driverRest
  BY WhatIsTold DEF MainMoves
<1>2. RefsMatch' /\ CueHasOwner'
  BY <1>1 DEF RefsMatch, CueHasOwner, driverRest
<1>3. CapturesMatch'
  BY <1>1 DEF CapturesMatch, MicMatches, EndMatches, Starting, driverRest
<1>4. \A x : InQueue(toMain', x) => InQueue(toMain, x)
  BY Taking DEF MainMoves, Takes, SystemTypeOK, DriverTypeOK
<1>5. \A s \in Sessions : Refused(s)' => Refused(s)
  BY <1>1 DEF Refused, driverRest
<1>6. engaged' => /\ active' = active /\ active \in Sessions
                  /\ engaged \/ Sent("started", active)
  BY DEF MainMoves, MutedOnlyWhileListening, Listening, SystemTypeOK, TypeOK, ControllerTypeOK,
         SessionTypeOK
<1>7. AcksAreTrue'
  <2>1. \A s \in Sessions : Sent("started", s)' => Sent("started", s)
    BY <1>4 DEF Sent
  <2>2. beginAt' = beginAt
    BY <1>1 DEF driverRest
  <2>3. \A s \in Sessions : Sent("started", s)' => beginAt'[s] = "done"
    BY <2>1, <2>2 DEF AcksAreTrue
  <2>4. engaged' => beginAt'[active'] = "done"
    BY <1>6, <2>2 DEF AcksAreTrue
  <2>5. ASSUME NEW s \in Sessions, Refused(s)'
        PROVE  beginAt'[s] = "done" /\ ~Sent("started", s)' /\ ~(engaged' /\ active' = s)
    BY <1>5, <1>6, <2>1, <2>2, <2>5 DEF AcksAreTrue
  <2> QED BY <2>3, <2>4, <2>5 DEF AcksAreTrue
<1> QED BY <1>2, <1>3, <1>7

LEMMA MainKeepsAnswers ==
  ASSUME RuntimeInv, SystemTypeOK, BeginIsServed, SlotIsServed, AnswerIsComing, MainMoves
  PROVE  SlotIsServed' /\ AnswerIsComing'
<1>1. Tells /\ UNCHANGED driverRest
  BY DEF MainMoves
<1>2. active' # None /\ active' # active => beginAt[active'] = "none"
  <2>1. active' # None => active' \in Sessions
    BY <1>1 DEF Tells, Begins, Finishes, Cancels, Keeps, SystemTypeOK, TypeOK,
                ControllerTypeOK, SessionTypeOK
  <2> QED BY <1>1, <2>1, WhatIsTold DEF BeginIsServed
<1>3. ASSUME active' # None, active' = active, Answering PROVE Answering'
  <2>1. finishAt' = finishAt
    BY <1>1 DEF driverRest
  <2>2. CASE UNCHANGED toMain
    BY <1>3, <2>1, <2>2 DEF Answering, Sent
  <2>3. CASE Takes
    <3>1. \A x : InQueue(toMain, x) <=> InQueue(toMain', x) \/ x = Head(toMain)
      BY <2>3, Taking DEF Takes, SystemTypeOK, DriverTypeOK
    <3>2. Head(toMain) \notin {<<"audio", active>>, <<"error", active>>}
      BY <1>3, <2>3 DEF Takes
    <3> QED BY <1>3, <2>1, <3>1, <3>2 DEF Answering, Sent
  <2> QED BY <2>2, <2>3 DEF MainMoves
<1>4. SlotIsServed'
  BY <1>1, <1>2, <1>3 DEF SlotIsServed, driverRest
<1>5. AnswerIsComing'
  <2>1. ASSUME active' # None, awaitingAudio'
        PROVE  InQueue(toRenderer', <<"finish", active'>>) \/ Answering'
    <3>1. active' = active /\ (awaitingAudio \/ InQueue(toRenderer', <<"finish", active>>))
      BY <1>1, <2>1, WhatIsTold
    <3>2. CASE awaitingAudio
      <4>1. InQueue(toRenderer, <<"finish", active>>) \/ Answering
        BY <2>1, <3>1, <3>2 DEF AnswerIsComing, InQueue, Answering, Sent
      <4> QED BY <1>1, <1>3, <2>1, <3>1, <4>1, WhatIsTold
    <3> QED BY <3>1, <3>2
  <2> QED BY <2>1 DEF AnswerIsComing, InQueue, Answering, Sent
<1> QED BY <1>4, <1>5

-----------------------------------------------------------------------------
(* The invariant over a control the driver receives.  Its parts about the   *)
(* main process alone stand still.                                          *)
mainView == <<generation, active, awaitingAudio, controls, engaged>>

LEMMA MainStands ==
  ASSUME UNCHANGED vars
  PROVE  UNCHANGED mainView
BY DEF vars, controllerVars, sessionVars, muteVars, mainView

(* What comes first in the queue belongs before the rest.                   *)
Served(kind, s) ==
  /\ kind \in ControlKinds /\ s \in Sessions
  /\ <<kind, s>> \in controls /\ Queued(kind, s)
  /\ \A x : InQueue(toRenderer, x) <=> InQueue(toRenderer', x) \/ x = <<kind, s>>
  /\ \A x : InQueue(toRenderer', x) => Before(<<kind, s>>, x)
  /\ ControlsInOrder'

LEMMA HeadIsServed ==
  ASSUME SystemTypeOK, ControlsInOrder, toRenderer # <<>>, toRenderer' = Tail(toRenderer),
         UNCHANGED mainView
  PROVE  Served(Head(toRenderer)[1], Head(toRenderer)[2])
<1> DEFINE h == Head(toRenderer)
           shorter == Tail(toRenderer)
<1>1. /\ h \in ControlKinds \X Sessions
      /\ 1 \in DOMAIN toRenderer /\ toRenderer[1] = h
      /\ \A i \in DOMAIN shorter : i + 1 \in DOMAIN toRenderer /\ i \in Nat
                                   /\ shorter[i] = toRenderer[i + 1] /\ 1 < i + 1
      /\ \A x : InQueue(toRenderer, x) <=> InQueue(shorter, x) \/ x = h
  BY Taking DEF SystemTypeOK
<1>2. toRenderer' = shorter /\ controls' = controls
  BY DEF mainView
<1> HIDE DEF h, shorter
<1>3. h = <<h[1], h[2]>> /\ h[1] \in ControlKinds /\ h[2] \in Sessions
  BY <1>1
<1>4. h \in controls /\ InQueue(toRenderer, h)
  BY <1>1 DEF ControlsInOrder
<1>5. ASSUME NEW x, InQueue(shorter, x) PROVE Before(h, x)
  <2>1. PICK i \in DOMAIN shorter : shorter[i] = x
    BY <1>5 DEF InQueue
  <2> QED BY <1>1, <2>1 DEF ControlsInOrder
<1>6. ControlsInOrder'
  <2>1. \A i \in DOMAIN shorter : shorter[i] \in controls
    BY <1>1 DEF ControlsInOrder
  <2>2. ASSUME NEW i \in DOMAIN shorter, NEW j \in DOMAIN shorter, i < j
        PROVE  Before(shorter[i], shorter[j])
    <3>1. i + 1 < j + 1
      BY <1>1, <2>2
    <3> QED BY <1>1, <3>1 DEF ControlsInOrder
  <2> QED BY <1>2, <2>1, <2>2 DEF ControlsInOrder
<1>7. Served(h[1], h[2])
  BY <1>1, <1>2, <1>3, <1>4, <1>5, <1>6 DEF Served, Queued
<1> QED BY <1>7 DEF h

(* What the parts below need of the types and of the runtime.               *)
LEMMA DriverFacts ==
  ASSUME Joined, RuntimeInv, SystemTypeOK
  PROVE  /\ \A s \in Sessions : s \in Int /\ s # None /\ s # NoCapture
         /\ generation \in Int
         /\ captureRef # NoCapture => captureRef \in Sessions
         /\ active # None => active \in Sessions /\ active = generation
         /\ controls \subseteq ControlKinds \X Sessions
         /\ \A control \in controls : control[2] <= generation
         /\ mic \in [Sessions -> {"idle", "asking", "opening", "recording", "stopped"}]
         /\ stream \in [Sessions -> BOOLEAN]
         /\ beginAt \in [Sessions -> {"none", "teardown", "start", "lead", "done"}]
         /\ finishAt \in [Sessions -> {"none", "stop", "close", "done"}]
         /\ toMain \in Seq(Messages)
<1>1. SessionTypeOK /\ SlotConsistent /\ TypeOK
  BY TypeFacts DEF RuntimeInv
<1>2. generation \in Int /\ \A s \in Sessions : s \in Int /\ s # None
  BY <1>1 DEF SessionTypeOK, Sessions, None
<1>3. \A s \in Sessions : s # NoCapture
  BY CaptureAssumption DEF Joined
<1>4. DriverTypeOK
  BY DEF SystemTypeOK
<1>5. controls \subseteq ControlKinds \X Sessions
  BY <1>1 DEF TypeOK, ControllerTypeOK
<1>6. /\ active # None => active \in Sessions /\ active = generation
      /\ \A control \in controls : control[2] <= generation
  BY <1>1 DEF SessionTypeOK, SlotConsistent
<1>7. toMain \in Seq(Messages)
  BY <1>4 DEF DriverTypeOK, Messages
<1> QED BY <1>2, <1>3, <1>4, <1>5, <1>6, <1>7 DEF DriverTypeOK, Joined

(* A begin finds the driver with no capture: the one before was told to     *)
(* end, and that was served first.                                          *)
LEMMA BeginFindsNone ==
  ASSUME Joined, CaptureInd, NEW s, Served("begin", s)
  PROVE  captureRef = NoCapture /\ beginAt[s] = "none"
<1> USE DEF CaptureInd
<1>1. s \in Sessions /\ beginAt[s] = "none" /\ s <= generation
  BY DriverFacts DEF Served, BeginIsServed
<1>2. SUFFICES ASSUME captureRef # NoCapture PROVE FALSE
  BY <1>1
<1> DEFINE c == captureRef
<1>3. c \in Sessions /\ beginAt[c] # "none"
  BY <1>2, DriverFacts DEF RefsMatch
<1>4. c <= s /\ c # s
  BY <1>1, <1>3 DEF BeginIsServed, Served, ControlKinds
<1>5. c < s /\ s \in Int /\ c \in Int
  BY <1>1, <1>3, <1>4, DriverFacts
<1>6. c <= generation /\ active # c
  BY <1>1, <1>3, <1>5, DriverFacts
<1>7. <<"finish", c>> \in controls \/ <<"cancel", c>> \in controls
  BY <1>3, <1>6 DEF RuntimeInv, MicAlwaysReleased
<1>8. PICK kind \in {"finish", "cancel"} : InQueue(toRenderer, <<kind, c>>)
  BY <1>3, <1>7 DEF EndIsServed, Queued
<1>9. Before(<<"begin", s>>, <<kind, c>>)
  BY <1>8 DEF Served
<1> HIDE DEF c
<1> QED BY <1>5, <1>9 DEF Before

(* The parts of the invariant that the driver's own steps touch.            *)
DriverParts ==
  /\ BeginIsServed /\ EndIsServed /\ RefsMatch
  /\ CapturesMatch /\ AcksAreTrue /\ CueHasOwner
  /\ SlotIsServed /\ AnswerIsComing

LEMMA BeginKeeps ==
  ASSUME Joined, CaptureInd, UNCHANGED mainView, NEW s, Served("begin", s), OnBegin(s)
  PROVE  DriverParts'
<1> USE DEF CaptureInd
<1>1. /\ UNCHANGED <<generation, active, awaitingAudio, controls, engaged>>
      /\ s \in Sessions /\ beginAt[s] = "none" /\ captureRef = NoCapture
  BY BeginFindsNone DEF mainView, Served
<1>2. /\ sessionRef' = s /\ captureRef' = s
      /\ mic' = [mic EXCEPT ![s] = "asking"] /\ beginAt' = [beginAt EXCEPT ![s] = "start"]
      /\ UNCHANGED <<stream, finishAt, cueGate, toMain, cancelling>>
  BY <1>1 DEF OnBegin, OpenMic
<1>3. \A t \in Sessions : t # s => mic'[t] = mic[t] /\ beginAt'[t] = beginAt[t]
  BY <1>2, DriverFacts
<1>4. mic'[s] = "asking" /\ beginAt'[s] = "start"
  BY <1>1, <1>2, DriverFacts
<1>5. /\ \A x : InQueue(toRenderer, x) <=> InQueue(toRenderer', x) \/ x = <<"begin", s>>
      /\ \A x : InQueue(toRenderer', x) => Before(<<"begin", s>>, x)
      /\ s <= generation
  BY DriverFacts DEF Served
<1>6. BeginIsServed'
  <2>1. ~InQueue(toRenderer', <<"begin", s>>)
    <3>1. ~Before(<<"begin", s>>, <<"begin", s>>)
      BY <1>1, DriverFacts, RanksDiffer DEF Before
    <3> QED BY <1>5, <3>1
  <2>2. ASSUME NEW t \in Sessions
        PROVE  beginAt'[t] = "none" <=> t > generation \/ InQueue(toRenderer', <<"begin", t>>)
    <3>1. CASE t = s
      <4>1. ~(s > generation)
        BY <1>1, <1>5, DriverFacts
      <4> QED BY <1>4, <2>1, <3>1, <4>1
    <3>2. CASE t # s
      <4>1. InQueue(toRenderer', <<"begin", t>>) <=> InQueue(toRenderer, <<"begin", t>>)
        BY <1>5, <3>2
      <4> QED BY <1>3, <3>2, <4>1 DEF BeginIsServed, Queued
    <3> QED BY <3>1, <3>2
  <2>3. ASSUME NEW t \in Sessions, NEW u \in Sessions, NEW kind \in ControlKinds,
               beginAt'[t] # "none", InQueue(toRenderer', <<kind, u>>)
        PROVE  t <= u
    <3>1. CASE t = s
      BY <1>1, <1>5, <2>3, <3>1, DriverFacts DEF Before
    <3>2. CASE t # s
      BY <1>3, <1>5, <2>3, <3>2 DEF BeginIsServed, Queued
    <3> QED BY <3>1, <3>2
  <2> QED BY <1>1, <2>2, <2>3 DEF BeginIsServed, Queued
<1>7. EndIsServed' /\ RefsMatch'
  BY <1>1, <1>2, <1>3, <1>4, <1>5 DEF EndIsServed, RefsMatch, Queued
<1>8. CapturesMatch'
  <2>1. ASSUME NEW t \in Sessions PROVE MicMatches(t)' /\ EndMatches(t)'
    <3>1. MicMatches(t) /\ EndMatches(t)
      BY DEF CapturesMatch
    <3>2. CASE t = s
      BY <1>1, <1>2, <1>4, <3>1, <3>2 DEF MicMatches, EndMatches, Starting
    <3>3. CASE t # s
      <4>1. captureRef # t
        BY <1>1, DriverFacts
      <4> QED BY <1>1, <1>2, <1>3, <3>1, <3>3, <4>1 DEF MicMatches, EndMatches, Starting
    <3> QED BY <3>2, <3>3
  <2> QED BY <2>1 DEF CapturesMatch
<1>9. AcksAreTrue'
  <2>1. \A t \in Sessions : Refused(t)' => t # s /\ Refused(t)
    BY <1>1, <1>3, <1>4 DEF Refused
  <2>2. \A t \in Sessions : beginAt[t] = "done" => beginAt'[t] = "done"
    BY <1>1, <1>3
  <2>3. engaged => active \in Sessions
    BY DriverFacts DEF RuntimeInv, MutedOnlyWhileListening, Listening
  <2> QED BY <1>1, <1>2, <2>1, <2>2, <2>3 DEF AcksAreTrue, Sent
<1>10. CueHasOwner'
  BY <1>1, <1>2, <1>3 DEF CueHasOwner
<1>11. SlotIsServed'
  <2>1. active # None /\ active # s => beginAt[active] = "none"
    <3>1. active # None => active \in Sessions /\ active = generation
      BY DriverFacts
    <3>2. active # None /\ beginAt[active] # "none" => active <= s
      BY <3>1 DEF BeginIsServed, Served
    <3> QED BY <1>1, <1>5, <3>1, <3>2, DriverFacts
  <2>2. active # None /\ active # s => beginAt'[active] = "none"
    BY <1>3, <2>1, DriverFacts
  <2> QED BY <1>1, <1>2, <2>2 DEF SlotIsServed
<1>12. AnswerIsComing'
  <2>1. InQueue(toRenderer, <<"finish", active>>) => InQueue(toRenderer', <<"finish", active>>)
    BY <1>5
  <2> QED BY <1>1, <1>2, <2>1 DEF AnswerIsComing, InQueue
<1> QED BY <1>6, <1>7, <1>8, <1>9, <1>10, <1>11, <1>12 DEF DriverParts

(* A finish or a cancel finds a capture that has begun.                     *)
LEMMA EndFindsBegun ==
  ASSUME Joined, CaptureInd, NEW s, NEW kind \in {"finish", "cancel"}, Served(kind, s)
  PROVE  beginAt[s] # "none"
<1> USE DEF CaptureInd
<1>1. s \in Sessions /\ s <= generation /\ s \in Int /\ generation \in Int
  BY DriverFacts DEF Served
<1>2. SUFFICES ASSUME InQueue(toRenderer, <<"begin", s>>) PROVE FALSE
  BY <1>1 DEF BeginIsServed, Queued
<1>3. Before(<<kind, s>>, <<"begin", s>>)
  BY <1>2 DEF Served
<1> QED BY <1>1, <1>3, RanksDiffer DEF Before

(* What a finish or a cancel does to the refs and the queue.                *)
LEMMA EndServed ==
  ASSUME Joined, CaptureInd, UNCHANGED mainView, NEW s, NEW kind \in {"finish", "cancel"},
         Served(kind, s), UNCHANGED beginAt,
         \/ captureRef' = NoCapture
         \/ captureRef # s /\ UNCHANGED <<captureRef, sessionRef>>
  PROVE  BeginIsServed' /\ EndIsServed' /\ RefsMatch'
<1> USE DEF CaptureInd
<1>1. /\ UNCHANGED <<generation, active, awaitingAudio, controls, engaged>>
      /\ s \in Sessions /\ beginAt[s] # "none"
      /\ \A x : InQueue(toRenderer, x) <=> InQueue(toRenderer', x) \/ x = <<kind, s>>
  BY EndFindsBegun DEF mainView, Served
<1>2. BeginIsServed'
  BY <1>1 DEF BeginIsServed, Queued
<1>3. \A t \in Sessions : captureRef' = t => t # s /\ captureRef = t
  BY DriverFacts
<1>4. EndIsServed'
  BY <1>1, <1>3 DEF EndIsServed, Queued
<1>5. RefsMatch'
  BY DEF RefsMatch
<1> QED BY <1>2, <1>4, <1>5

LEMMA FinishKeeps ==
  ASSUME Joined, CaptureInd, UNCHANGED mainView, NEW s, Served("finish", s), OnFinish(s)
  PROVE  DriverParts'
<1> USE DEF CaptureInd
<1>1. /\ UNCHANGED <<generation, active, awaitingAudio, controls, engaged>>
      /\ s \in Sessions /\ beginAt[s] # "none" /\ <<"finish", s>> \in controls
      /\ \A x : InQueue(toRenderer, x) <=> InQueue(toRenderer', x) \/ x = <<"finish", s>>
  BY EndFindsBegun DEF mainView, Served
<1>2. UNCHANGED <<mic, stream, beginAt, cancelling, cueGate, toMain>>
  BY DEF OnFinish, driverVars
<1>3. \/ /\ captureRef = s /\ captureRef' = NoCapture /\ sessionRef' = NoCapture
         /\ finishAt' = [finishAt EXCEPT ![s] = "stop"]
      \/ captureRef # s /\ UNCHANGED <<captureRef, sessionRef, finishAt>>
  BY <1>1, DriverFacts DEF OnFinish, EmptyRefs, driverVars, RefsMatch
<1>4. BeginIsServed' /\ EndIsServed' /\ RefsMatch'
  BY <1>2, <1>3, EndServed
<1>5. \A t \in Sessions : finishAt'[t] = finishAt[t] \/ (t = s /\ finishAt'[t] = "stop")
  BY <1>1, <1>3, DriverFacts
<1>6. CapturesMatch'
  <2>1. ASSUME NEW t \in Sessions PROVE MicMatches(t)' /\ EndMatches(t)'
    <3>1. MicMatches(t) /\ EndMatches(t)
      BY DEF CapturesMatch
    <3>2. captureRef = t => captureRef' = t \/ finishAt'[t] = "stop"
      BY <1>1, <1>3, DriverFacts
    <3>3. MicMatches(t)'
      BY <1>2, <1>5, <3>1, <3>2 DEF MicMatches, Starting
    <3>4. EndMatches(t)'
      BY <1>1, <1>2, <1>5, <3>1 DEF EndMatches, Starting
    <3> QED BY <3>3, <3>4
  <2> QED BY <2>1 DEF CapturesMatch
<1>7. AcksAreTrue'
  BY <1>1, <1>2 DEF AcksAreTrue, Sent, Refused
<1>8. CueHasOwner'
  BY <1>1, <1>2, <1>5 DEF CueHasOwner
<1>9. active # None /\ beginAt[active] # "none" => (captureRef' = active /\ active # s) \/ Answering'
  <2>1. active # None => active \in Sessions
    BY DriverFacts
  <2>2. active # None /\ Answering => Answering'
    BY <1>1, <1>2, <1>5, <2>1 DEF Answering, Sent
  <2>3. active # None /\ captureRef = active => (captureRef' = active /\ active # s) \/ Answering'
    BY <1>1, <1>2, <1>3, <2>1, DriverFacts DEF Answering
  <2> QED BY <2>2, <2>3 DEF SlotIsServed
<1>10. SlotIsServed'
  BY <1>1, <1>2, <1>9 DEF SlotIsServed
<1>11. AnswerIsComing'
  <2>1. ASSUME active # None, awaitingAudio
        PROVE  InQueue(toRenderer', <<"finish", active>>) \/ Answering'
    <3>1. active \in Sessions
      BY <2>1, DriverFacts
    <3>2. CASE Answering
      BY <1>1, <1>2, <1>5, <3>1, <3>2 DEF Answering, Sent
    <3>3. CASE InQueue(toRenderer, <<"finish", active>>)
      BY <1>1, <1>9, <2>1, <3>3
    <3> QED BY <2>1, <3>2, <3>3 DEF AnswerIsComing, InQueue, Answering, Sent
  <2> QED BY <1>1, <2>1 DEF AnswerIsComing, InQueue, Answering, Sent
<1> QED BY <1>4, <1>6, <1>7, <1>8, <1>10, <1>11 DEF DriverParts

LEMMA CancelKeeps ==
  ASSUME Joined, CaptureInd, UNCHANGED mainView, NEW s, Served("cancel", s), OnCancel(s)
  PROVE  DriverParts'
<1> USE DEF CaptureInd
<1>1. /\ UNCHANGED <<generation, active, awaitingAudio, controls, engaged>>
      /\ s \in Sessions /\ beginAt[s] # "none" /\ <<"cancel", s>> \in controls /\ active # s
      /\ \A x : InQueue(toRenderer, x) <=> InQueue(toRenderer', x) \/ x = <<"cancel", s>>
  BY EndFindsBegun DEF mainView, Served, CancelFrees
<1>2. UNCHANGED <<mic, stream, beginAt, finishAt, toMain>> /\ (cueGate' => cueGate)
  BY DEF OnCancel, driverVars
<1>3. \/ /\ captureRef \in {NoCapture, s} /\ captureRef' = NoCapture /\ sessionRef' = NoCapture
         /\ cancelling' = IF captureRef = NoCapture \/ mic[captureRef] = "stopped"
                          THEN cancelling ELSE cancelling \cup {captureRef}
      \/ captureRef # s /\ UNCHANGED <<captureRef, sessionRef, cancelling>>
  BY <1>1, DriverFacts DEF OnCancel, EmptyRefs, driverVars, RefsMatch
<1>4. BeginIsServed' /\ EndIsServed' /\ RefsMatch'
  BY <1>2, <1>3, EndServed
<1>5. CapturesMatch'
  <2>1. ASSUME NEW t \in Sessions PROVE MicMatches(t)' /\ EndMatches(t)'
    <3>1. MicMatches(t) /\ EndMatches(t)
      BY DEF CapturesMatch
    <3>2. captureRef = t => captureRef' = t \/ t \in cancelling' \/ mic[t] = "stopped"
      BY <1>1, <1>3, DriverFacts
    <3>3. (t \in cancelling => t \in cancelling') /\ (t \in cancelling' => t \in cancelling \/ t = s)
      BY <1>3
    <3>4. MicMatches(t)'
      BY <1>2, <3>1, <3>2, <3>3 DEF MicMatches, Starting
    <3>5. EndMatches(t)'
      BY <1>1, <1>2, <3>1, <3>3 DEF EndMatches, Starting
    <3> QED BY <3>4, <3>5
  <2> QED BY <2>1 DEF CapturesMatch
<1>6. AcksAreTrue' /\ CueHasOwner'
  BY <1>1, <1>2 DEF AcksAreTrue, Sent, Refused, CueHasOwner
<1>7. SlotIsServed'
  <2>1. captureRef = active /\ active # None => captureRef' = active
    BY <1>1, <1>3, DriverFacts
  <2> QED BY <1>1, <1>2, <2>1 DEF SlotIsServed, Answering, Sent
<1>8. AnswerIsComing'
  <2>1. InQueue(toRenderer, <<"finish", active>>) => InQueue(toRenderer', <<"finish", active>>)
    BY <1>1
  <2> QED BY <1>1, <1>2, <2>1 DEF AnswerIsComing, InQueue
<1> QED BY <1>4, <1>5, <1>6, <1>7, <1>8 DEF DriverParts

-----------------------------------------------------------------------------
(* The invariant over a step of the driver's own: a callback of one capture. *)
Reports(s) == {<<"started", s>>, <<"audio", s>>, <<"error", s>>}

OneCapture(s) ==
  /\ UNCHANGED mainView /\ UNCHANGED <<toRenderer, sessionRef>>
  /\ \/ UNCHANGED captureRef
     \/ captureRef \in {s, NoCapture} /\ captureRef' = NoCapture /\ Sent("error", s)'
  /\ \A t \in Sessions \ {s} :
       /\ mic'[t] = mic[t] /\ stream'[t] = stream[t]
       /\ beginAt'[t] = beginAt[t] /\ finishAt'[t] = finishAt[t]
       /\ t \in cancelling' <=> t \in cancelling
  /\ \A x : InQueue(toMain, x) => InQueue(toMain', x)
  /\ \A x : InQueue(toMain', x) => InQueue(toMain, x) \/ x \in Reports(s)

(* What is to be shown of that capture.                                     *)
CaptureAgrees(s) ==
  /\ MicMatches(s)' /\ EndMatches(s)'
  /\ beginAt'[s] = "none" <=> beginAt[s] = "none"
  /\ beginAt[s] = "done" => beginAt'[s] = "done"
  /\ Sent("started", s)' => beginAt'[s] = "done"
  /\ Refused(s)' => beginAt'[s] = "done" /\ ~Sent("started", s)' /\ ~(engaged /\ active = s)
  /\ finishAt[s] \in {"stop", "close"} =>
       finishAt'[s] \in {"stop", "close"} \/ Sent("audio", s)' \/ Sent("error", s)'

LEMMA OneCaptureKeeps ==
  ASSUME Joined, CaptureInd, NEW s \in Sessions, OneCapture(s), CaptureAgrees(s), CueHasOwner'
  PROVE  DriverParts'
<1> USE DEF CaptureInd
<1>1. /\ UNCHANGED <<generation, active, awaitingAudio, controls, engaged, toRenderer, sessionRef>>
      /\ captureRef' = captureRef \/ captureRef' = NoCapture
  BY DEF OneCapture, mainView
<1>2. ASSUME NEW t \in Sessions, t # s
      PROVE  /\ mic'[t] = mic[t] /\ stream'[t] = stream[t]
             /\ beginAt'[t] = beginAt[t] /\ finishAt'[t] = finishAt[t]
             /\ t \in cancelling' <=> t \in cancelling
             /\ captureRef' = t <=> captureRef = t
             /\ Sent("started", t)' <=> Sent("started", t)
  <2>1. captureRef' = t <=> captureRef = t
    BY <1>2, DriverFacts DEF OneCapture
  <2>2. <<"started", t>> \notin Reports(s)
    BY <1>2 DEF Reports
  <2> QED BY <1>2, <2>1, <2>2 DEF OneCapture, Sent
<1>3. \A t \in Sessions : beginAt'[t] = "none" <=> beginAt[t] = "none"
  BY <1>2 DEF CaptureAgrees
<1>4. BeginIsServed'
  BY <1>1, <1>3 DEF BeginIsServed, Queued
<1>5. EndIsServed'
  <2>1. \A t \in Sessions : captureRef' = t => captureRef = t
    BY <1>1, DriverFacts
  <2> QED BY <1>1, <1>3, <2>1 DEF EndIsServed, Queued
<1>6. RefsMatch'
  BY <1>1, <1>3, DriverFacts DEF RefsMatch
<1>7. CapturesMatch'
  <2>1. ASSUME NEW t \in Sessions, t # s PROVE MicMatches(t)' /\ EndMatches(t)'
    <3>1. MicMatches(t) /\ EndMatches(t)
      BY DEF CapturesMatch
    <3> QED BY <1>1, <1>2, <2>1, <3>1 DEF MicMatches, EndMatches, Starting
  <2> QED BY <2>1 DEF CapturesMatch, CaptureAgrees
<1>8. AcksAreTrue'
  <2>1. \A t \in Sessions : Sent("started", t)' => beginAt'[t] = "done"
    BY <1>2 DEF AcksAreTrue, CaptureAgrees
  <2>2. \A t \in Sessions : beginAt[t] = "done" => beginAt'[t] = "done"
    BY <1>2 DEF CaptureAgrees
  <2>3. engaged => active \in Sessions
    BY DriverFacts DEF RuntimeInv, MutedOnlyWhileListening, Listening
  <2>4. ASSUME NEW t \in Sessions, Refused(t)'
        PROVE  beginAt'[t] = "done" /\ ~Sent("started", t)' /\ ~(engaged /\ active = t)
    <3>1. CASE t = s
      BY <2>4, <3>1 DEF CaptureAgrees
    <3>2. CASE t # s
      <4>1. Refused(t)
        BY <1>1, <1>2, <2>4, <3>2 DEF Refused
      <4> QED BY <1>2, <3>2, <4>1 DEF AcksAreTrue
    <3> QED BY <3>1, <3>2
  <2> QED BY <1>1, <2>1, <2>2, <2>3, <2>4 DEF AcksAreTrue
<1>9. ASSUME active # None, Answering PROVE Answering'
  <2>1. active \in Sessions /\ active' = active
    BY <1>1, <1>9, DriverFacts
  <2>2. Sent("audio", active) \/ Sent("error", active) => Sent("audio", active)' \/ Sent("error", active)'
    BY <2>1 DEF OneCapture, Sent
  <2>3. finishAt[active] \in {"stop", "close"} =>
          finishAt'[active] \in {"stop", "close"} \/ Sent("audio", active)' \/ Sent("error", active)'
    BY <1>2, <2>1 DEF CaptureAgrees
  <2> QED BY <1>9, <2>1, <2>2, <2>3 DEF Answering
<1>10. SlotIsServed'
  <2>1. active # None => active \in Sessions /\ active # NoCapture
    BY DriverFacts
  <2>2. active # None /\ captureRef = active => captureRef' = active \/ Sent("error", active)'
    BY <1>1, <2>1 DEF OneCapture, Sent
  <2>3. active # None /\ beginAt'[active] # "none" => captureRef = active \/ Answering
    BY <1>3, <2>1 DEF SlotIsServed
  <2> QED BY <1>1, <1>9, <2>2, <2>3 DEF SlotIsServed, Answering, Sent
<1>11. AnswerIsComing'
  <2>1. active # None /\ awaitingAudio => InQueue(toRenderer, <<"finish", active>>) \/ Answering
    BY DEF AnswerIsComing, InQueue, Answering, Sent
  <2>2. active' # None /\ awaitingAudio' => InQueue(toRenderer', <<"finish", active'>>) \/ Answering'
    BY <1>1, <1>9, <2>1
  <2> QED BY <2>2 DEF AnswerIsComing, InQueue, Answering, Sent
<1> QED BY <1>4, <1>5, <1>6, <1>7, <1>8, <1>10, <1>11 DEF DriverParts

(* A callback that reports, reports once.                                   *)
LEMMA SendReports ==
  ASSUME NEW s \in Sessions, Joined, toMain \in Seq(Messages),
         NEW kind \in {"started", "audio", "error"}, Send(kind, s)
  PROVE  /\ \A x : InQueue(toMain', x) <=> InQueue(toMain, x) \/ x = <<kind, s>>
         /\ <<kind, s>> \in Reports(s)
<1>1. <<kind, s>> \in Messages
  BY DEF Messages, Joined
<1> QED BY <1>1, Appending DEF Send, Reports

LEMMA StartSteps ==
  ASSUME Joined, CaptureInd, NEW s \in Sessions, UNCHANGED mainView, UNCHANGED toRenderer,
         MicGranted(s) \/ MicReady(s) \/ LeadEnds(s)
  PROVE  OneCapture(s) /\ CaptureAgrees(s) /\ CueHasOwner'
<1> USE DEF CaptureInd
<1>1. /\ MicMatches(s) /\ EndMatches(s)
      /\ Sent("started", s) => beginAt[s] = "done"
      /\ Refused(s) => beginAt[s] = "done" /\ ~Sent("started", s) /\ ~(engaged /\ active = s)
      /\ controls' = controls
  BY DEF CapturesMatch, AcksAreTrue, mainView
<1>2. CASE MicGranted(s)
  <2>1. /\ mic[s] = "asking" /\ mic'[s] = "opening" /\ stream'[s] = TRUE
        /\ \A t \in Sessions \ {s} : mic'[t] = mic[t] /\ stream'[t] = stream[t]
        /\ UNCHANGED <<captureRef, sessionRef, beginAt, finishAt, cancelling, cueGate, toMain>>
    BY <1>2, DriverFacts DEF MicGranted
  <2>2. OneCapture(s)
    BY <2>1 DEF OneCapture
  <2>3. MicMatches(s)' /\ EndMatches(s)'
    BY <1>1, <2>1 DEF MicMatches, EndMatches, Starting
  <2>4. CaptureAgrees(s)
    BY <1>1, <2>1, <2>3 DEF CaptureAgrees, Refused, Sent
  <2>5. CueHasOwner'
    BY <2>1 DEF CueHasOwner
  <2> QED BY <2>2, <2>4, <2>5
<1>3. CASE MicReady(s)
  <2>1. /\ mic[s] = "opening" /\ mic'[s] = "recording" /\ beginAt'[s] = "lead"
        /\ \A t \in Sessions \ {s} : mic'[t] = mic[t] /\ beginAt'[t] = beginAt[t]
        /\ UNCHANGED <<captureRef, sessionRef, stream, finishAt, cancelling, toMain>>
    BY <1>3, DriverFacts DEF MicReady
  <2>2. OneCapture(s)
    BY <2>1 DEF OneCapture
  <2>3. beginAt[s] = "start" /\ finishAt[s] # "done"
    BY <1>1, <2>1 DEF MicMatches, EndMatches, Starting
  <2>4. MicMatches(s)' /\ EndMatches(s)'
    BY <1>1, <2>1, <2>3 DEF MicMatches, EndMatches, Starting
  <2>5. CaptureAgrees(s)
    BY <1>1, <2>1, <2>3, <2>4 DEF CaptureAgrees, Refused, Sent
  <2>6. CueHasOwner'
    BY <2>1, <2>3 DEF CueHasOwner
  <2> QED BY <2>2, <2>5, <2>6
<1>4. CASE LeadEnds(s)
  <2>1. /\ beginAt[s] = "lead" /\ beginAt'[s] = "done"
        /\ \A t \in Sessions \ {s} : beginAt'[t] = beginAt[t]
        /\ UNCHANGED <<captureRef, sessionRef, mic, stream, finishAt, cancelling, cueGate>>
    BY <1>4, DriverFacts DEF LeadEnds
  <2>2. /\ \A x : InQueue(toMain, x) => InQueue(toMain', x)
        /\ \A x : InQueue(toMain', x) => InQueue(toMain, x) \/ x \in Reports(s)
    BY <1>4, SendReports, DriverFacts DEF LeadEnds
  <2>3. OneCapture(s)
    BY <2>1, <2>2 DEF OneCapture
  <2>4. MicMatches(s)' /\ EndMatches(s)'
    BY <1>1, <2>1 DEF MicMatches, EndMatches, Starting
  <2>5. ~Refused(s)'
    BY <1>1, <2>1 DEF Refused
  <2>6. CaptureAgrees(s)
    BY <1>1, <2>1, <2>4, <2>5 DEF CaptureAgrees
  <2>7. CueHasOwner'
    BY <2>1 DEF CueHasOwner
  <2> QED BY <2>3, <2>6, <2>7
<1> QED BY <1>2, <1>3, <1>4

LEMMA StartFailsKeeps ==
  ASSUME Joined, CaptureInd, NEW s \in Sessions, UNCHANGED mainView, UNCHANGED toRenderer,
         StartFails(s)
  PROVE  OneCapture(s) /\ CaptureAgrees(s) /\ CueHasOwner'
<1> USE DEF CaptureInd
<1>1. /\ MicMatches(s) /\ EndMatches(s)
      /\ Sent("started", s) => beginAt[s] = "done"
      /\ engaged => beginAt[active] = "done"
      /\ controls' = controls
  BY DEF CapturesMatch, AcksAreTrue, mainView
<1>2. /\ mic[s] = "asking" /\ mic'[s] = "stopped" /\ beginAt'[s] = "done"
      /\ captureRef \in {s, NoCapture} /\ captureRef' = NoCapture /\ ~cueGate' /\ Send("error", s)
      /\ \A t \in Sessions \ {s} : mic'[t] = mic[t] /\ beginAt'[t] = beginAt[t]
      /\ UNCHANGED <<sessionRef, stream, finishAt, cancelling>>
  BY DriverFacts DEF StartFails, Joined
<1>3. \A x : InQueue(toMain', x) <=> InQueue(toMain, x) \/ x = <<"error", s>>
  BY <1>2, SendReports, DriverFacts
<1>4. OneCapture(s)
  BY <1>2, <1>3 DEF OneCapture, Sent, Reports
<1>5. beginAt[s] = "start"
  BY <1>1, <1>2 DEF MicMatches, Starting
<1>6. MicMatches(s)' /\ EndMatches(s)'
  BY <1>1, <1>2, <1>5 DEF MicMatches, EndMatches, Starting
<1>7. ~Sent("started", s)'
  BY <1>1, <1>3, <1>5 DEF Sent
<1>8. CaptureAgrees(s)
  BY <1>1, <1>2, <1>5, <1>6, <1>7 DEF CaptureAgrees
<1> QED BY <1>2, <1>4, <1>8 DEF CueHasOwner

LEMMA EndSteps ==
  ASSUME Joined, CaptureInd, NEW s \in Sessions, UNCHANGED mainView, UNCHANGED toRenderer,
         StopSettles(s) \/ StopCloses(s) \/ CancelSettles(s)
  PROVE  OneCapture(s) /\ CaptureAgrees(s) /\ CueHasOwner'
<1> USE DEF CaptureInd
<1>1. /\ MicMatches(s) /\ EndMatches(s)
      /\ Sent("started", s) => beginAt[s] = "done"
      /\ controls' = controls
  BY DEF CapturesMatch, AcksAreTrue, mainView
<1>2. ASSUME finishAt[s] # "none" \/ s \in cancelling PROVE ~Refused(s)'
  BY <1>1, <1>2 DEF EndMatches, Refused
<1>3. CASE StopSettles(s) /\ mic[s] = "recording"
  <2>1. /\ finishAt[s] = "stop" /\ ~Starting(s) /\ finishAt'[s] = "close"
        /\ mic'[s] = "stopped" /\ stream'[s] = FALSE
        /\ \A t \in Sessions \ {s} :
             mic'[t] = mic[t] /\ stream'[t] = stream[t] /\ finishAt'[t] = finishAt[t]
        /\ UNCHANGED <<captureRef, sessionRef, beginAt, cancelling, cueGate, toMain>>
    BY <1>3, DriverFacts DEF StopSettles
  <2>2. OneCapture(s)
    BY <2>1 DEF OneCapture
  <2>3. MicMatches(s)' /\ EndMatches(s)'
    BY <1>1, <1>3, <2>1 DEF MicMatches, EndMatches, Starting
  <2>4. CaptureAgrees(s)
    BY <1>1, <1>2, <2>1, <2>3 DEF CaptureAgrees, Sent
  <2>5. \A t \in Sessions : finishAt[t] # "done" => finishAt'[t] # "done"
    BY <2>1
  <2>6. CueHasOwner'
    BY <2>1, <2>5 DEF CueHasOwner
  <2> QED BY <2>2, <2>4, <2>6
<1>4. CASE StopSettles(s) /\ mic[s] # "recording"
  <2>1. /\ finishAt[s] = "stop" /\ ~Starting(s) /\ finishAt'[s] = "done"
        /\ Send("error", s) /\ ~cueGate'
        /\ \A t \in Sessions \ {s} : finishAt'[t] = finishAt[t]
        /\ UNCHANGED <<captureRef, sessionRef, beginAt, cancelling, mic, stream>>
    BY <1>4, DriverFacts DEF StopSettles
  <2>2. \A x : InQueue(toMain', x) <=> InQueue(toMain, x) \/ x = <<"error", s>>
    BY <2>1, SendReports, DriverFacts
  <2>3. OneCapture(s)
    BY <2>1, <2>2 DEF OneCapture, Reports
  <2>4. MicMatches(s)' /\ EndMatches(s)'
    BY <1>1, <1>4, <2>1 DEF MicMatches, EndMatches, Starting
  <2>5. CaptureAgrees(s)
    BY <1>1, <1>2, <2>1, <2>2, <2>4 DEF CaptureAgrees, Sent
  <2> QED BY <2>1, <2>3, <2>5 DEF CueHasOwner
<1>5. CASE StopCloses(s)
  <2>1. /\ finishAt[s] = "close" /\ finishAt'[s] = "done"
        /\ Send("audio", s) \/ Send("error", s)
        /\ ~cueGate'
        /\ \A t \in Sessions \ {s} : finishAt'[t] = finishAt[t]
        /\ UNCHANGED <<captureRef, sessionRef, beginAt, cancelling, mic, stream>>
    BY <1>5, DriverFacts DEF StopCloses
  <2>2. PICK kind \in {"audio", "error"} : Send(kind, s)
    BY <2>1
  <2>3. \A x : InQueue(toMain', x) <=> InQueue(toMain, x) \/ x = <<kind, s>>
    BY <2>2, SendReports, DriverFacts
  <2>4. OneCapture(s)
    BY <2>1, <2>3 DEF OneCapture, Reports
  <2>5. MicMatches(s)' /\ EndMatches(s)'
    BY <1>1, <2>1 DEF MicMatches, EndMatches, Starting
  <2>6. CaptureAgrees(s)
    BY <1>1, <1>2, <2>1, <2>3, <2>5 DEF CaptureAgrees, Sent
  <2> QED BY <2>1, <2>4, <2>6 DEF CueHasOwner
<1>6. CASE CancelSettles(s)
  <2>1. /\ s \in cancelling /\ ~Starting(s) /\ cancelling' = cancelling \ {s}
        /\ mic'[s] = "stopped" /\ stream'[s] = FALSE
        /\ \A t \in Sessions \ {s} : mic'[t] = mic[t] /\ stream'[t] = stream[t]
        /\ UNCHANGED <<captureRef, sessionRef, beginAt, finishAt, cueGate, toMain>>
    BY <1>6, DriverFacts DEF CancelSettles
  <2>2. OneCapture(s)
    BY <2>1 DEF OneCapture
  <2>3. MicMatches(s)' /\ EndMatches(s)'
    BY <1>1, <2>1 DEF MicMatches, EndMatches, Starting
  <2>4. CaptureAgrees(s)
    BY <1>1, <1>2, <2>1, <2>3 DEF CaptureAgrees, Sent
  <2>5. CueHasOwner'
    BY <2>1 DEF CueHasOwner
  <2> QED BY <2>2, <2>4, <2>5
<1> QED BY <1>3, <1>4, <1>5, <1>6

-----------------------------------------------------------------------------
(* The joined system.                                                       *)
LEMMA JoinedInit ==
  ASSUME Joined, SystemInit
  PROVE  CaptureInd
<1> USE DEF SystemInit
<1>1. RuntimeInv
  BY InitInductive
<1>2. DriverTypeOK
  <2>1. toMain \in Seq({"started", "audio", "error"} \X Captures)
    BY DEF DriverInit
  <2>2. stream \in [Captures -> BOOLEAN]
    BY DEF DriverInit
  <2>3. cueGate \in BOOLEAN
    BY Zenon DEF DriverInit
  <2> QED BY <2>1, <2>2, <2>3 DEF DriverInit, DriverTypeOK
<1>3. SystemTypeOK
  BY <1>1, <1>2 DEF SystemTypeOK, RuntimeInv
<1>4. /\ active = None /\ generation = 0 /\ controls = {} /\ ~engaged
      /\ \A s \in Sessions : s \in Int /\ s > 0
  BY DEF Init, ControllerInit, MuteInit, Sessions
<1>5. \A x : ~InQueue(<<>>, x)
  BY DEF InQueue
<1>6. ControlsInOrder /\ CancelFrees
  BY <1>4 DEF ControlsInOrder, CancelFrees
<1>7. /\ captureRef = NoCapture /\ toMain = <<>> /\ ~cueGate /\ cancelling = {}
      /\ \A s \in Sessions : /\ mic[s] = "idle" /\ stream[s] = FALSE
                             /\ beginAt[s] = "none" /\ finishAt[s] = "none"
  BY DEF DriverInit, Joined
<1>8. BeginIsServed /\ EndIsServed /\ RefsMatch
  BY <1>4, <1>5, <1>7 DEF BeginIsServed, EndIsServed, RefsMatch, Queued
<1>9. CapturesMatch
  BY <1>7 DEF CapturesMatch, MicMatches, EndMatches, Starting
<1>10. AcksAreTrue /\ CueHasOwner
  BY <1>4, <1>5, <1>7 DEF AcksAreTrue, CueHasOwner, Sent, Refused
<1>11. SlotIsServed /\ AnswerIsComing
  BY <1>4 DEF SlotIsServed, AnswerIsComing
<1> QED BY <1>1, <1>3, <1>6, <1>8, <1>9, <1>10, <1>11 DEF CaptureInd

LEMMA JoinedNext ==
  ASSUME Joined, CaptureInd, [SystemNext]_systemVars
  PROVE  CaptureInd'
<1>1. RuntimeInv' /\ SystemTypeOK'
  BY StepImplements, SystemTypeStep, NextInductive DEF CaptureInd
<1>2. CASE MainStep \/ MainReceives
  <2>1. MainMoves
    BY <1>1, <1>2, MainMovesSo DEF CaptureInd
  <2>2. ControlsInOrder' /\ CancelFrees' /\ BeginIsServed' /\ EndIsServed'
    BY <2>1, MainKeepsControls DEF CaptureInd
  <2>3. RefsMatch' /\ CapturesMatch' /\ AcksAreTrue' /\ CueHasOwner'
    <3>1. MutedOnlyWhileListening'
      BY <1>1 DEF RuntimeInv
    <3> QED BY <2>1, <3>1, MainKeepsDriver DEF CaptureInd
  <2>4. SlotIsServed' /\ AnswerIsComing'
    BY <2>1, MainKeepsAnswers DEF CaptureInd
  <2> QED BY <1>1, <2>2, <2>3, <2>4 DEF CaptureInd
<1>3. ASSUME UNCHANGED mainView, DriverParts', ControlsInOrder' PROVE CaptureInd'
  <2>1. CancelFrees'
    BY <1>3 DEF CaptureInd, CancelFrees, mainView
  <2> QED BY <1>1, <1>3, <2>1 DEF CaptureInd, DriverParts
<1>4. CASE RendererReceives
  <2> DEFINE kind == Head(toRenderer)[1]
             s == Head(toRenderer)[2]
  <2>1. UNCHANGED mainView /\ toRenderer # <<>> /\ toRenderer' = Tail(toRenderer)
    BY <1>4, MainStands DEF RendererReceives
  <2>2. Served(kind, s)
    BY <2>1, HeadIsServed DEF CaptureInd
  <2>3. \/ kind = "begin" /\ OnBegin(s)
        \/ kind = "finish" /\ OnFinish(s)
        \/ kind = "cancel" /\ OnCancel(s)
    BY <1>4 DEF RendererReceives
  <2> HIDE DEF kind, s
  <2>4. DriverParts'
    BY <2>1, <2>2, <2>3, BeginKeeps, FinishKeeps, CancelKeeps
  <2>5. ControlsInOrder'
    BY <2>2 DEF Served
  <2> QED BY <1>3, <2>1, <2>4, <2>5
<1>5. CASE RendererStep
  <2>1. UNCHANGED mainView /\ UNCHANGED toRenderer
    BY <1>5, MainStands DEF RendererStep
  <2>2. PICK s \in Sessions : DriverStep(s)
    BY <1>5 DEF RendererStep, Joined
  <2>3. ~StaleCaptureGone(s)
    BY <2>2 DEF StaleCaptureGone, CaptureInd, CapturesMatch, MicMatches
  <2>4. OneCapture(s) /\ CaptureAgrees(s) /\ CueHasOwner'
    BY <2>1, <2>2, <2>3, StartSteps, StartFailsKeeps, EndSteps DEF DriverStep
  <2>5. DriverParts'
    BY <2>4, OneCaptureKeeps
  <2>6. ControlsInOrder'
    BY <2>1 DEF CaptureInd, ControlsInOrder, mainView
  <2> QED BY <1>3, <2>1, <2>5, <2>6
<1>6. CASE UNCHANGED systemVars
  <2>1. UNCHANGED mainView /\ UNCHANGED <<driverVars, toRenderer>>
    BY <1>6, MainStands DEF systemVars
  <2>2. UNCHANGED <<generation, active, awaitingAudio, controls, engaged>>
    BY <2>1 DEF mainView
  <2>3. UNCHANGED <<captureRef, sessionRef, mic, stream, beginAt, finishAt, cancelling, cueGate,
                    toMain, toRenderer>>
    BY <2>1 DEF driverVars
  <2>4. BeginIsServed' /\ EndIsServed' /\ RefsMatch'
    BY <2>2, <2>3 DEF CaptureInd, BeginIsServed, EndIsServed, RefsMatch, Queued
  <2>5. CapturesMatch' /\ AcksAreTrue' /\ CueHasOwner'
    BY <2>2, <2>3 DEF CaptureInd, CapturesMatch, MicMatches, EndMatches, Starting, AcksAreTrue,
                      Refused, Sent, CueHasOwner
  <2>6. SlotIsServed' /\ AnswerIsComing'
    BY <2>2, <2>3 DEF CaptureInd, SlotIsServed, AnswerIsComing, Answering, Sent
  <2>7. ControlsInOrder'
    BY <2>2, <2>3 DEF CaptureInd, ControlsInOrder
  <2> QED BY <1>3, <2>1, <2>4, <2>5, <2>6, <2>7 DEF DriverParts
<1> QED BY <1>2, <1>4, <1>5, <1>6 DEF SystemNext

(* The promises follow from the invariant.                                  *)
LEMMA JoinedPromises ==
  ASSUME Joined, CaptureInd
  PROVE  CaptureInv
<1> USE DEF CaptureInd
<1>1. ASSUME NEW s \in Sessions, stream[s]
      PROVE  captureRef = s \/ s \in cancelling \/ finishAt[s] = "stop"
  BY <1>1 DEF CapturesMatch, MicMatches
<1>2. MicClosedWhenIdle
  <2> SUFFICES ASSUME Quiescent, NEW s \in Sessions, stream[s], active # s PROVE FALSE
    BY DEF MicClosedWhenIdle, Joined
  <2>1. captureRef = s
    BY <1>1 DEF Quiescent, DriverIdle, Joined
  <2>2. s # NoCapture /\ beginAt[s] # "none"
    BY <2>1, DriverFacts DEF RefsMatch
  <2>3. s <= generation
    BY <2>2, DriverFacts DEF BeginIsServed
  <2>4. PICK kind \in {"finish", "cancel"} : <<kind, s>> \in controls
    BY <2>3 DEF RuntimeInv, MicAlwaysReleased
  <2>5. InQueue(toRenderer, <<kind, s>>)
    BY <2>1, <2>4 DEF EndIsServed, Queued
  <2> QED BY <2>5 DEF Quiescent, InQueue
<1>3. OneMicOpen
  BY <1>1 DEF OneMicOpen, Leaving, Joined
<1>4. MutedOnlyWithOpenMic
  <2> SUFFICES ASSUME engaged PROVE active # None /\ stream[active]
    BY DEF MutedOnlyWithOpenMic
  <2>1. active # None /\ ~awaitingAudio /\ active \in Sessions
    BY DriverFacts DEF RuntimeInv, MutedOnlyWhileListening, Listening
  <2>2. <<"finish", active>> \notin controls /\ <<"cancel", active>> \notin controls
    BY <2>1 DEF RuntimeInv, SlotConsistent, CancelFrees
  <2>3. beginAt[active] = "done" /\ mic[active] # "stopped"
    BY <2>1, <2>2 DEF AcksAreTrue, Refused
  <2>4. mic[active] = "recording"
    BY <2>1, <2>3, DriverFacts DEF CapturesMatch, MicMatches, Starting
  <2> QED BY <2>1, <2>4 DEF CapturesMatch, MicMatches
<1>5. CueGateRestsAfterFinish
  <2> SUFFICES ASSUME Quiescent, cueGate
               PROVE  \E s \in Captures : beginAt[s] = "done" /\ finishAt[s] = "none"
    BY DEF CueGateRestsAfterFinish, CueGateRests
  <2>1. PICK s \in Sessions : beginAt[s] \in {"lead", "done"} /\ finishAt[s] # "done"
    BY DEF CueHasOwner
  <2>2. beginAt[s] # "lead" /\ finishAt[s] \notin {"stop", "close"}
    BY <2>1 DEF Quiescent, DriverIdle, Joined
  <2> QED BY <2>1, <2>2, DriverFacts DEF Joined
<1> QED BY <1>2, <1>3, <1>4, <1>5 DEF CaptureInv

(* The inductive invariant: a control is served once and in order, and what *)
(* the driver holds has not been told to end, or will be.                   *)
THEOREM JoinedInductive == Joined /\ SystemSpec => []CaptureInd
<1>1. Joined => []Joined
  OBVIOUS
<1>2. Joined /\ SystemInit => CaptureInd
  BY JoinedInit
<1>3. Joined /\ CaptureInd /\ [SystemNext]_systemVars => CaptureInd'
  BY JoinedNext
<1> QED BY <1>1, <1>2, <1>3, PTL DEF SystemSpec

(* Every finish is answered, at rest no microphone is open but the live     *)
(* session's, media is muted only while that one is on, and the cue gate    *)
(* rests after a finish.                                                    *)
THEOREM CaptureSafe == Joined /\ SystemSpec => []CaptureInv
<1>1. Joined => []Joined
  OBVIOUS
<1>2. Joined /\ CaptureInd => CaptureInv
  BY JoinedPromises
<1> QED BY <1>1, <1>2, JoinedInductive, PTL

(* The controller joined to the driver behaves as VoiceRuntime with its     *)
(* free renderer: what is proved of the latter holds of the former.         *)
THEOREM JoinedImplements == Joined /\ SystemSpec => Spec
<1>1. Joined => []Joined
  OBVIOUS
<1>2. SystemInit => Init
  BY DEF SystemInit
<1>3. CaptureInd => SystemTypeOK
  BY DEF CaptureInd
<1>4. Joined /\ SystemTypeOK /\ [SystemNext]_systemVars => [Next]_vars
  BY StepImplements
<1> QED BY <1>1, <1>2, <1>3, <1>4, JoinedInductive, PTL DEF SystemSpec, Spec

(* So no outcome is replaced, and text goes only where the newest session   *)
(* sends it, with the real driver too.                                      *)
THEOREM JoinedLifecycle == Joined /\ SystemSpec => ImplementsLifecycle
BY JoinedImplements, Refines
=============================================================================
