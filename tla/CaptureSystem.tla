--------------------------- MODULE CaptureSystem ---------------------------
(***************************************************************************)
(* The voice runtime and the capture driver joined by the two IPC channels: *)
(* capture controls to the renderer, capture messages to the main process.  *)
(* Electron delivers each channel in order and loses nothing while both     *)
(* windows live.                                                            *)
(***************************************************************************)
EXTENDS VoiceRuntime, CaptureDriver

VARIABLE toRenderer

systemVars == <<vars, driverVars, toRenderer>>

SystemInit ==
  /\ Init
  /\ DriverInit
  /\ toRenderer = <<>>

SystemTypeOK ==
  /\ TypeOK
  /\ DriverTypeOK
  /\ toRenderer \in Seq(ControlKinds \X Sessions)

-----------------------------------------------------------------------------
(* sendCaptureControl: a handler sends at most one control.                *)
Forward ==
  IF controls' = controls
  THEN UNCHANGED toRenderer
  ELSE \E control \in controls' \ controls :
         toRenderer' = Append(toRenderer, control)

(* Everything the main process does on its own or for the user.            *)
MainStep ==
  /\ \/ \E mode \in Modes :
          ChordStarts(mode) \/ ChordDismissesNotice(mode) \/ ChordCompletes(mode)
     \/ UiFinish \/ UiCancel
     \/ DismissNotice \/ HoverEnter \/ HoverLeave
     \/ UserTouchesMute
     \/ TimerStep
     \/ \E s \in Sessions : PipelineStep(s)
     \/ OverlayStep
  /\ Forward
  /\ UNCHANGED driverVars

(* A message from the renderer; its handler drops one for a session that is *)
(* no longer the active one (and a late `started` after finish).            *)
MainReceives ==
  /\ toMain # <<>>
  /\ LET kind == Head(toMain)[1]
         s    == Head(toMain)[2]
     IN  \/ kind = "started" /\ MicOpens(s)
         \/ kind = "audio" /\ RecordingArrives(s)
         \/ kind = "error" /\ CaptureFails(s)
         \/ /\ active # s \/ (kind = "started" /\ awaitingAudio)
            /\ UNCHANGED vars
  /\ toMain' = Tail(toMain)
  /\ Forward
  /\ UNCHANGED <<captureRef, sessionRef, mic, stream, beginAt, finishAt,
                 cancelling, cueGate>>

RendererReceives ==
  /\ toRenderer # <<>>
  /\ LET kind == Head(toRenderer)[1]
         s    == Head(toRenderer)[2]
     IN  \/ kind = "begin" /\ OnBegin(s)
         \/ kind = "finish" /\ OnFinish(s)
         \/ kind = "cancel" /\ OnCancel(s)
  /\ toRenderer' = Tail(toRenderer)
  /\ UNCHANGED vars

RendererStep ==
  /\ \E s \in Captures : DriverStep(s)
  /\ UNCHANGED <<vars, toRenderer>>

SystemNext == MainStep \/ MainReceives \/ RendererReceives \/ RendererStep

SystemSpec == SystemInit /\ [][SystemNext]_systemVars

(* Both event loops run, and what either side waits for comes: the           *)
(* permission prompt is answered, the audio graph comes up or fails, the     *)
(* pipeline's waits end as Fairness of VoiceRuntime says, timers fire.  That *)
(* a recording arrives is no assumption here: the driver has to send it.     *)
SystemFairSpec ==
  /\ SystemSpec
  /\ \A s \in Sessions :
       WF_systemVars(PipelineStep(s) /\ Forward /\ UNCHANGED driverVars)
  /\ WF_systemVars(OverlayStep /\ Forward /\ UNCHANGED driverVars)
  /\ WF_systemVars(MainReceives)
  /\ WF_systemVars(RendererReceives)
  /\ \A s \in Captures : WF_systemVars(DriverStep(s) /\ UNCHANGED <<vars, toRenderer>>)

-----------------------------------------------------------------------------
Quiescent == toMain = <<>> /\ toRenderer = <<>> /\ DriverIdle

(* A session waiting for its recording gets an answer: the finish is on its *)
(* way to the driver, or being served, or the answer is on its way back.    *)
(* Without it the controller's slot stays taken and every later chord press *)
(* is dropped (the hang finishRecording's comment describes).               *)
AnswerIsComing ==
  active # None /\ awaitingAudio =>
    \/ \E i \in DOMAIN toRenderer : toRenderer[i] = <<"finish", active>>
    \/ finishAt[active] \in {"stop", "close"}
    \/ \E i \in DOMAIN toMain :
         toMain[i] \in {<<"audio", active>>, <<"error", active>>}

(* The microphone is off once a session is over and both sides are done.    *)
MicClosedWhenIdle ==
  Quiescent => \A s \in Captures : stream[s] => active = s

(* One microphone at a time ("tear down any stale capture before starting   *)
(* a fresh one"): a second open one is on its way out, left by a finish or a *)
(* cancel that overtook its start and which nobody waits for.                *)
Leaving(s) == s \in cancelling \/ finishAt[s] = "stop"

OneMicOpen ==
  \A s, t \in Captures : stream[s] /\ stream[t] => s = t \/ Leaving(s) \/ Leaving(t)

(* Media is muted only while the microphone of the live session is on: a    *)
(* refused microphone, or an ack overtaken by a stop, mutes nothing.        *)
MutedOnlyWithOpenMic == engaged => active # None /\ stream[active]

(* The cue gate is at rest between sessions, so the next session's start    *)
(* cue will play ("cancel / error: clear state", recordingCues.ts).         *)
CueGateRests == Quiescent /\ active = None => ~cueGate

(* That much of it is true: when every session was finished, not cancelled. *)
CueGateRestsAfterFinish ==
  CueGateRests \/ \E s \in Captures : beginAt[s] = "done" /\ finishAt[s] = "none"

(* What the two sides owe each other, together.                            *)
CaptureInv ==
  /\ SystemTypeOK
  /\ AnswerIsComing
  /\ MicClosedWhenIdle
  /\ OneMicOpen
  /\ MutedOnlyWithOpenMic
  /\ CueGateRestsAfterFinish
=============================================================================
