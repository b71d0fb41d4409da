------------------------- MODULE SessionController -------------------------
(***************************************************************************)
(* SessionController with the pipeline it runs (runVoiceSession): the main *)
(* process's owner of a recording session, from the start gesture to the   *)
(* terminal event on the capsule.                                          *)
(*                                                                         *)
(* A session is its generation number: each real start takes the next one. *)
(* An operator is one synchronous stretch of the event loop: a handler or  *)
(* a continuation up to its next real wait (target context, model answer,  *)
(* thinking floor, native insertion).  Waits are of unknown length; the    *)
(* settings and the store are an environment that answers anything.        *)
(***************************************************************************)
EXTENDS MediaMute, CapsuleOverlay, HotkeyCoordinator

CONSTANT MaxSessions   \* bound: the run starts at most this many sessions

ASSUME SessionAssumption == MaxSessions \in Nat \ {0}

Sessions == 1 .. MaxSessions
None == 0               \* null, where a session is expected

VARIABLES
  generation,        \* sessionGeneration
  active,            \* the active session, None when the slot is empty
  activeMode,        \* its mode
  awaitingAudio,     \* it was finished and its WAV has not arrived
  machine,           \* RecordingSessionMachine: state, with the stop reason
  slowTimers,        \* "still working" beats that have not fired
  thinkingStartedAt, \* the session that started the thinking phase, or None
  attentionNotice,   \* an error notice the user has not acknowledged
  lastTerminalText,  \* the session whose final text the notice would copy
  currentRunDispose, \* the session whose transports the controller will close
  transports,        \* the sessions whose transports are open
  run,               \* each session's pipeline: where it waits, and with what
  history,           \* sessions with a history record
  observing,         \* the session whose post-insert observer is running
  controls,          \* capture controls sent to the renderer
  face               \* the capsule's face and the session that drew it

sessionVars == <<generation, active, activeMode, awaitingAudio, machine>>
noticeVars == <<attentionNotice, lastTerminalText, face>>
pipelineVars == <<currentRunDispose, transports, run, history, observing>>
timerVars == <<slowTimers, thinkingStartedAt>>
controllerVars == <<sessionVars, noticeVars, pipelineVars, timerVars, controls>>

-----------------------------------------------------------------------------
(* The values.                                                             *)

MachineStates == {"idle", "recording_active", "completed", "cancelled", "failed"}
TerminalEvents == {"completed", "empty", "failed", "error"}
Waits == {"none", "context", "model", "insertFloor", "inject",
          "floor", "errorFloor", "done"}
Faces == {"idle", "listening", "thinking", "inserting",
          "completed", "cancelled", "failed"}
ControlKinds == {"begin", "finish", "cancel"}

SessionTypeOK ==
  /\ generation \in 0 .. MaxSessions
  /\ active \in {None} \cup Sessions
  /\ activeMode \in Modes \cup {NoMode}
  /\ awaitingAudio \in BOOLEAN
  /\ machine \in MachineStates

NoticeTypeOK ==
  /\ attentionNotice \in BOOLEAN
  /\ lastTerminalText \in {None} \cup Sessions
  /\ face \in [session : {None} \cup Sessions, phase : Faces]

RunTypeOK == run \in [Sessions -> [at : Waits, event : TerminalEvents \cup {"none"}]]

PipelineTypeOK ==
  /\ currentRunDispose \in {None} \cup Sessions
  /\ transports \subseteq Sessions
  /\ RunTypeOK
  /\ history \subseteq Sessions
  /\ observing \in {None} \cup Sessions

TimerTypeOK ==
  /\ slowTimers \in 0 .. 2
  /\ thinkingStartedAt \in {None} \cup Sessions

ControllerTypeOK ==
  /\ SessionTypeOK
  /\ NoticeTypeOK
  /\ PipelineTypeOK
  /\ TimerTypeOK
  /\ controls \subseteq ControlKinds \X Sessions

ControllerInit ==
  /\ generation = 0
  /\ active = None
  /\ activeMode = NoMode
  /\ awaitingAudio = FALSE
  /\ machine = "idle"
  /\ slowTimers = 0
  /\ thinkingStartedAt = None
  /\ attentionNotice = FALSE
  /\ lastTerminalText = None
  /\ currentRunDispose = None
  /\ transports = {}
  /\ run = [s \in Sessions |-> [at |-> "none", event |-> "none"]]
  /\ history = {}
  /\ observing = None
  /\ controls = {}
  /\ face = [session |-> None, phase |-> "idle"]

-----------------------------------------------------------------------------
(* Helpers shared by the handlers.                                         *)

(* RecordingSessionMachine.handle: a fresh machine takes the start; a stop  *)
(* needs an active recording, and the first stop reason stays.              *)
MachineStarts == "recording_active"
MachineStops(reason) == IF machine = "recording_active" THEN reason ELSE machine

(* isSuperseded; the mutant forgets sessions that have already ended.       *)
SupersededByLive(s) == active # None /\ active # s
Superseded(s) == generation # s \/ (active # None /\ active # s)

(* disposeCurrentRun *)
DisposeCurrentRun ==
  /\ currentRunDispose' = None
  /\ transports' = transports \ {currentRunDispose}

(* The pipeline's finally: close the transports if they are still this      *)
(* run's to close.                                                          *)
DisposeOwnRun(s) ==
  IF currentRunDispose = s THEN DisposeCurrentRun
                           ELSE UNCHANGED <<currentRunDispose, transports>>

(* The active slot is emptied; the mutant only stops waiting for audio.     *)
KeepActive ==
  /\ awaitingAudio' = FALSE
  /\ UNCHANGED <<active, activeMode>>
ClearActive ==
  /\ active' = None
  /\ activeMode' = NoMode
  /\ awaitingAudio' = FALSE

(* clearSlowTimers                                                          *)
ClearSlowTimers == slowTimers' = 0

(* sendCaptureControl                                                       *)
SendControl(kind, s) == controls' = controls \cup {<<kind, s>>}

Wait(s, at, event) == run' = [run EXCEPT ![s] = [at |-> at, event |-> event]]

(* capsuleReducer over the event the controller emits.                      *)
Draw(s, phase) == face' = [session |-> s, phase |-> phase]
FacePhase(event) == IF event \in {"failed", "error"} THEN "failed" ELSE "completed"

(* emit(): errors and failures ask for attention and `started` ends it.  An *)
(* event with text becomes what the notice copies.                          *)
AttentionAfter(event) ==
  event # "started" /\ (attentionNotice \/ event \in {"failed", "error"})

EmitTerminal(s, event) ==
  /\ Draw(s, FacePhase(event))
  /\ attentionNotice' = AttentionAfter(event)
  /\ lastTerminalText' = IF event \in {"completed", "failed"}
                         THEN s ELSE lastTerminalText

-----------------------------------------------------------------------------
(* startRecording                                                          *)

(* The slot is taken: the worker-level guard returns first.                *)
StartIgnored ==
  /\ active # None
  /\ UNCHANGED <<controllerVars, overlayVars>>

(* A lingering error notice takes the gesture: dismissed, nothing starts,   *)
(* and the caller must reset the hotkey coordinator (onStartConsumed).      *)
StartConsumed ==
  /\ active = None
  /\ attentionNotice /\ HasPendingHide
  /\ attentionNotice' = FALSE
  /\ DisposeCurrentRun
  /\ observing' = None
  /\ ExpediteHide
  /\ UNCHANGED <<sessionVars, timerVars, controls, lastTerminalText, face,
                 run, history>>

StartSession(mode) ==
  /\ active = None
  /\ ~(attentionNotice /\ HasPendingHide)
  /\ generation < MaxSessions
  /\ DisposeCurrentRun
  /\ observing' = None
  /\ generation' = generation + 1
  /\ active' = generation'
  /\ activeMode' = mode
  /\ awaitingAudio' = FALSE
  /\ machine' = MachineStarts
  /\ ShowCapsule
  /\ SendControl("begin", generation')
  /\ Draw(generation', "listening")
  /\ attentionNotice' = AttentionAfter("started")
  /\ UNCHANGED <<timerVars, lastTerminalText, run, history>>

(* finishRecording: needs a session that is still listening.               *)
FinishRecording ==
  /\ active # None /\ ~awaitingAudio
  /\ awaitingAudio' = TRUE
  /\ thinkingStartedAt' = active
  /\ machine' = MachineStops("completed")
  /\ Draw(active, "thinking")
  /\ SendControl("finish", active)
  /\ slowTimers' = 2
  /\ ReleaseMute
  /\ UNCHANGED <<generation, active, activeMode, pipelineVars, attentionNotice,
                 lastTerminalText, overlayVars>>

(* cancelRecording                                                         *)
CancelRecording ==
  /\ active # None
  /\ DisposeCurrentRun
  /\ ClearSlowTimers
  /\ thinkingStartedAt' = None
  /\ machine' = MachineStops("cancelled")
  /\ SendControl("cancel", active)
  /\ Draw(active, "cancelled")
  /\ ReleaseMute
  /\ ScheduleHide
  /\ ClearActive
  /\ UNCHANGED <<generation, attentionNotice, lastTerminalText, run, history,
                 observing>>

(* A beat of the slow timers: a panel notice, nothing the session keeps.   *)
SlowTimerFires ==
  /\ slowTimers > 0
  /\ slowTimers' = slowTimers - 1
  /\ UNCHANGED <<sessionVars, noticeVars, pipelineVars, thinkingStartedAt,
                 controls, overlayVars, muteVars>>

(* The user closed the notice: expediteHide, then noticeDismissed.         *)
NoticeDismissed ==
  /\ ExpediteHide
  /\ attentionNotice' = FALSE
  /\ UNCHANGED <<sessionVars, lastTerminalText, face, pipelineVars, timerVars,
                 controls, muteVars>>

-----------------------------------------------------------------------------
(* Messages from the renderer.  Each carries its session, and one that is   *)
(* not the active session is dropped.                                       *)

(* Mutant of OnCaptureStarted: a late ack mutes for a finished session.     *)
AckAlwaysMutes(s) ==
  /\ active = s
  /\ EngageMute
  /\ UNCHANGED <<controllerVars, overlayVars>>

(* onCaptureStarted: the microphone is open.  A session already finished    *)
(* must not mute again.                                                     *)
OnCaptureStarted(s) ==
  /\ active = s /\ ~awaitingAudio
  /\ EngageMute
  /\ UNCHANGED <<controllerVars, overlayVars>>

(* Show a terminal event and plan the hide; the mutant forgets the hide.    *)
ShowWithoutHide(s, event) ==
  /\ EmitTerminal(s, event)
  /\ UNCHANGED overlayVars

ShowTerminal(s, event) ==
  /\ EmitTerminal(s, event)
  /\ ScheduleHide

(* emitTerminalAfterFloor, up to its wait for the thinking floor.  The wait *)
(* happens only when a thinking phase is being timed and has time left; the *)
(* phase is over either way, unless a newer session made this run stale.    *)
BeginTerminal(s, event, wait) ==
  \/ /\ Superseded(s)
     /\ Wait(s, "done", "none")
     /\ UNCHANGED <<thinkingStartedAt, noticeVars, overlayVars>>
  \/ /\ ~Superseded(s)
     /\ thinkingStartedAt # None
     /\ thinkingStartedAt' = None
     /\ Wait(s, wait, event)
     /\ UNCHANGED <<noticeVars, overlayVars>>
  \/ /\ ~Superseded(s)
     /\ thinkingStartedAt' = None
     /\ Wait(s, "done", event)
     /\ ShowTerminal(s, event)

(* onCaptureError: hardware first (cancel the renderer, unmute, free the    *)
(* slot), the notice after the floor.                                       *)
OnCaptureError(s) ==
  /\ active = s
  /\ DisposeCurrentRun
  /\ ClearSlowTimers
  /\ machine' = MachineStops("failed")
  /\ SendControl("cancel", s)
  /\ ReleaseMute
  /\ ClearActive
  /\ \/ /\ thinkingStartedAt # None
        /\ thinkingStartedAt' = None
        /\ Wait(s, "errorFloor", "error")
        /\ UNCHANGED <<noticeVars, overlayVars>>
     \/ /\ thinkingStartedAt' = None
        /\ Wait(s, "done", "error")
        /\ ShowTerminal(s, "error")
  /\ UNCHANGED <<generation, history, observing>>

(* onCaptureAudio: free the slot so that a second push does nothing, then   *)
(* run the session from the target context it captured at the start.        *)
OnCaptureAudio(s) ==
  /\ active = s
  /\ ClearSlowTimers
  /\ ClearActive
  /\ Wait(s, "context", "none")
  /\ UNCHANGED <<generation, machine, noticeVars, currentRunDispose, transports,
                 history, observing, thinkingStartedAt, controls, overlayVars,
                 muteVars>>

-----------------------------------------------------------------------------
(* runResolvedSession and runVoiceSession, one operator per wait.           *)

(* The tail of onCaptureAudio, whatever way the run ended.                  *)
EndOfRun(s) == IF run'[s].at = "done" THEN ReleaseMute ELSE UNCHANGED muteVars

Abandon(s) ==
  /\ Wait(s, "done", "none")
  /\ UNCHANGED <<thinkingStartedAt, noticeVars, overlayVars>>

(* The target context arrives, or its capture fails; the session resolves   *)
(* against the store, or does not; the recording passes the gates, or not.  *)
(* A resolved session owns transports when its engine is a realtime one.    *)
ContextArrives(s) ==
  /\ run[s].at = "context"
  /\ \/ /\ Superseded(s)
        /\ Abandon(s)
        /\ UNCHANGED <<currentRunDispose, transports>>
     \/ /\ ~Superseded(s)
        /\ BeginTerminal(s, "error", "floor")
        /\ UNCHANGED <<currentRunDispose, transports>>
     \/ /\ ~Superseded(s)
        /\ BeginTerminal(s, "empty", "floor")
        /\ \/ DisposeCurrentRun
           \/ UNCHANGED <<currentRunDispose, transports>>
     \/ /\ ~Superseded(s)
        /\ Wait(s, "model", "none")
        /\ \/ /\ currentRunDispose' = s
              /\ transports' = (transports \ {currentRunDispose}) \cup {s}
           \/ UNCHANGED <<currentRunDispose, transports>>
        /\ UNCHANGED <<thinkingStartedAt, noticeVars, overlayVars>>
  /\ EndOfRun(s)
  /\ UNCHANGED <<sessionVars, slowTimers, history, observing, controls>>

(* The insertion phase begins: announce it and hand the text over.          *)
StartInserting(s) ==
  /\ Wait(s, "inject", "none")
  /\ Draw(s, "inserting")
  /\ UNCHANGED <<attentionNotice, lastTerminalText, overlayVars>>

(* The model answered with text: emitInsertingAfterFloor, up to its wait.   *)
BeforeInject(s) ==
  \/ /\ Superseded(s)
     /\ Abandon(s)
     /\ DisposeOwnRun(s)
  \/ /\ ~Superseded(s)
     /\ thinkingStartedAt # None
     /\ thinkingStartedAt' = None
     /\ Wait(s, "insertFloor", "none")
     /\ UNCHANGED <<noticeVars, overlayVars, currentRunDispose, transports>>
  \/ /\ ~Superseded(s)
     /\ thinkingStartedAt' = None
     /\ StartInserting(s)
     /\ UNCHANGED <<currentRunDispose, transports>>

(* The model answers with text, with nothing recognised, or not at all.     *)
ModelAnswers(s) ==
  /\ run[s].at = "model"
  /\ \/ BeforeInject(s)
     \/ \E event \in {"empty", "error"} :
          /\ DisposeOwnRun(s)
          /\ BeginTerminal(s, event, "floor")
  /\ EndOfRun(s)
  /\ UNCHANGED <<sessionVars, slowTimers, history, observing, controls>>

(* Mutant of InsertFloorEnds: no second look for a newer session.           *)
InsertFloorTrusts(s) ==
  /\ run[s].at = "insertFloor"
  /\ StartInserting(s)
  /\ UNCHANGED <<sessionVars, slowTimers, history, observing, controls,
                 thinkingStartedAt, currentRunDispose, transports, muteVars>>

(* The floor before insertion is paid: look again for a newer session.      *)
InsertFloorEnds(s) ==
  /\ run[s].at = "insertFloor"
  /\ UNCHANGED thinkingStartedAt
  /\ \/ /\ Superseded(s)
        /\ Wait(s, "done", "none")
        /\ DisposeOwnRun(s)
        /\ UNCHANGED <<noticeVars, overlayVars>>
     \/ /\ ~Superseded(s)
        /\ StartInserting(s)
        /\ UNCHANGED <<currentRunDispose, transports>>
  /\ EndOfRun(s)
  /\ UNCHANGED <<sessionVars, slowTimers, history, observing, controls>>

(* The injector returns (or throws), the record is written unless history   *)
(* is off (or the write throws), and a record gets a post-insert observer.  *)
(* There is no check for a newer session between the floor and the terminal *)
(* event: what was handed to the injector is recorded.                      *)
InjectionEnds(s) ==
  /\ run[s].at = "inject"
  /\ DisposeOwnRun(s)
  /\ \/ /\ BeginTerminal(s, "error", "floor")
        /\ UNCHANGED <<history, observing>>
     \/ \E event \in {"completed", "failed"} :
          /\ BeginTerminal(s, event, "floor")
          /\ \/ UNCHANGED <<history, observing>>
             \/ /\ history' = history \cup {s}
                /\ observing' \in {None, s}
  /\ EndOfRun(s)
  /\ UNCHANGED <<sessionVars, slowTimers, controls>>

(* The floor before a terminal event is paid.                               *)
AtFloor(s) == run[s].at \in {"floor", "errorFloor"}

FloorEnds(s) ==
  /\ AtFloor(s)
  /\ \/ /\ Superseded(s)
        /\ Wait(s, "done", "none")
        /\ UNCHANGED <<noticeVars, overlayVars>>
     \/ /\ ~Superseded(s)
        /\ Wait(s, "done", run[s].event)
        /\ ShowTerminal(s, run[s].event)
  /\ IF run[s].at = "floor" THEN ReleaseMute ELSE UNCHANGED muteVars
  /\ UNCHANGED <<sessionVars, timerVars, currentRunDispose, transports, history,
                 observing, controls>>

(* The observer finished, timed out or lost its target.                     *)
ObservationEnds ==
  /\ observing # None
  /\ observing' = None
  /\ UNCHANGED <<sessionVars, noticeVars, currentRunDispose, transports, run,
                 history, timerVars, controls, overlayVars, muteVars>>
=============================================================================
