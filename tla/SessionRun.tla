----------------------------- MODULE SessionRun -----------------------------
(***************************************************************************)
(* The inside of one dictation after another, from the chord to the        *)
(* history record: the target context is acquired stage by stage under one *)
(* deadline, through accessibility calls of which only one may be in       *)
(* flight and any may hang (acquireTargetContext.ts, koffiBridge.ts); the  *)
(* recording is gated; the engine of the settings is asked, over HTTP or a *)
(* realtime socket, and with the two-hop engine the language model after   *)
(* it (engine.ts, the provider clients); the text is inserted unless a     *)
(* newer session has begun, and a record is appended (runVoiceSession.ts). *)
(* What the user sees meanwhile is modelled in VoiceRuntime, how the text  *)
(* is inserted in TextInjection: here insertion is one step.               *)
(* A hung accessibility call and a silent provider are allowed for ever:   *)
(* only the program's own timers are fair.                                 *)
(***************************************************************************)
EXTENDS AppContext, VoicedActivity

CONSTANTS
  MaxRuns,     \* sessions that may begin
  Screens      \* what may have the focus: records [app, title, control]

ASSUME MaxRunsAssumption == MaxRuns \in Nat \ {0}

(* What may have the focus: an application, and what the accessibility      *)
(* layer reports of a control: a text or none, a role, and two unsigned     *)
(* offsets, which need not lie in the text.                                 *)
ASSUME ScreensAssumption ==
  \A screen \in Screens :
    /\ DOMAIN screen.app = {"bundle", "name"}
    /\ screen.control.value \in Seq(ToSet(screen.control.value))
    /\ screen.control.range = NoRange \/ screen.control.range \in Nat \X Nat
    /\ screen.control.role # Null

VARIABLES
  platform,    \* "macos" or "windows"
  include,     \* the setting include_window_context_in_requests
  keeps,       \* the setting history_enabled
  axInFlight,  \* the accessibility call in flight: <<run, stage>>, or NoCall
  acq,         \* what each run has acquired of its target
  generation,  \* the newest run
  active,      \* the run that is recording or awaits its audio, or 0
  disposeSlot, \* currentRunDispose: the run whose sockets it closes, or 0
  run,         \* each run's pipeline
  socket,      \* each run's realtime socket and the promise over it
  sent,        \* the evidence a run put into a chat request, or NoRequest
  history      \* the records appended

vars == <<platform, include, keeps, axInFlight, acq, generation, active, disposeSlot,
          run, socket, sent, history>>

settings == <<platform, include, keeps>>

Runs == 1..MaxRuns
NoCall == <<0, "none">>
NoRequest == [profile |-> "no request", rows |-> {}]
Engines == {"omni", "http", "realtime"}

Stages == <<"probe", "capture", "title", "done">>
After(stage) == CHOOSE s \in ToSet(Stages) :
                  \E i \in 1..3 : Stages[i] = stage /\ Stages[i + 1] = s

NoAcquisition ==
  [stage |-> "none", waiting |-> FALSE, late |-> FALSE, app |-> NoApp,
   capture |-> NoCapture, from |-> NoCapture, title |-> Null]

NoRun == [at |-> "none", engine |-> "none", raw |-> "none", final |-> "none", llm |-> FALSE]

NoSocket == [ws |-> "none", streamed |-> FALSE, settled |-> FALSE]

Init ==
  /\ platform \in {"macos", "windows"}
  /\ include \in BOOLEAN /\ keeps \in BOOLEAN
  /\ axInFlight = NoCall
  /\ acq = [r \in Runs |-> NoAcquisition]
  /\ generation = 0 /\ active = 0 /\ disposeSlot = 0
  /\ run = [r \in Runs |-> NoRun]
  /\ socket = [r \in Runs |-> NoSocket]
  /\ sent = [r \in Runs |-> NoRequest]
  /\ history = {}

(* disposeCurrentRun over realtimeSocket.ts dispose: a socket that is      *)
(* connecting is terminated, an open one begins its closing handshake; the *)
(* slot is emptied.                                                        *)
Disposed(r) ==
  IF r \in Runs /\ socket[r].ws \in {"connecting", "open"}
  THEN [socket EXCEPT ![r].ws = "closing"] ELSE socket

(* isSuperseded.                                                           *)
Superseded(r) == generation # r

(***************************************************************************)
(* The target context.                                                     *)
(***************************************************************************)
(* startRecording: ignored while a session is active; the previous run's   *)
(* sockets are closed, and the acquisition begins with the application in  *)
(* front.                                                                  *)
StartRecording ==
  /\ active = 0 /\ generation < MaxRuns
  /\ LET r == generation + 1
     IN /\ generation' = r /\ active' = r
        /\ \E screen \in Screens :
             acq' = [acq EXCEPT ![r] = [NoAcquisition EXCEPT
                       !.stage = "probe", !.app = screen.app]]
        /\ run' = [run EXCEPT ![r].at = "recording"]
  /\ socket' = Disposed(disposeSlot)
  /\ disposeSlot' = 0
  /\ UNCHANGED <<settings, axInFlight, sent, history>>

(* The next stage; the deadline means nothing to the last.                 *)
Advanced(record) ==
  LET next == After(record.stage)
  IN [record EXCEPT !.stage = next, !.waiting = FALSE, !.late = @ /\ next # "done"]

Fallback(r) == [acq EXCEPT ![r] = Advanced(@)]

(* koffiBridge.ts: on Windows the focused element is never queried.        *)
SkipsQuery(stage) == platform = "windows" /\ stage \in {"probe", "capture"}

(* safeAsync, its call: past the deadline, while another accessibility     *)
(* call is in flight, or without a query to make, a stage yields its       *)
(* fallback at once; otherwise its call goes out and the stage waits.      *)
StageBegins(r) ==
  /\ acq[r].stage \in {"probe", "capture", "title"} /\ ~acq[r].waiting
  /\ IF acq[r].late \/ SkipsQuery(acq[r].stage) \/ axInFlight # NoCall
     THEN acq' = Fallback(r) /\ UNCHANGED axInFlight
     ELSE /\ axInFlight' = <<r, acq[r].stage>>
          /\ acq' = [acq EXCEPT ![r].waiting = TRUE]
  /\ UNCHANGED <<settings, generation, active, disposeSlot, run, socket,
                 sent, history>>

(* The value a call reads of what has the focus when it is executed; the   *)
(* probe's is only logged.                                                 *)
Answered(record, stage, screen) ==
  CASE stage = "probe" -> record
    [] stage = "capture" ->
         LET got == CaptureFocused(screen.control)
         IN [record EXCEPT !.capture = got,
                           !.from = IF got = NoCapture THEN NoCapture ELSE screen.control]
    [] stage = "title" -> [record EXCEPT !.title = screen.title]

(* Variant: the value is taken whether or not the stage still waits.       *)
AxReturnsLate ==
  /\ axInFlight # NoCall
  /\ axInFlight' = NoCall
  /\ LET r == axInFlight[1]
     IN \E screen \in Screens :
          acq' = [acq EXCEPT ![r] = Answered(@, axInFlight[2], screen)]
  /\ UNCHANGED <<settings, generation, active, disposeSlot, run, socket, sent, history>>

(* runAxSingleFlight, the call returns, whatever the user has in front by  *)
(* then: the slot is free, and the stage takes the value if it still waits *)
(* for it; a stage the deadline has already passed by has lost the race.   *)
AxReturns ==
  /\ axInFlight # NoCall
  /\ axInFlight' = NoCall
  /\ LET r == axInFlight[1]
         stage == axInFlight[2]
     IN IF acq[r].waiting /\ acq[r].stage = stage
        THEN \E screen \in Screens :
               acq' = [acq EXCEPT ![r] = Advanced(Answered(@, stage, screen))]
        ELSE UNCHANGED acq
  /\ UNCHANGED <<settings, generation, active, disposeSlot, run, socket, sent, history>>

(* A call that throws yields the fallback.                                 *)
AxFails ==
  /\ axInFlight # NoCall
  /\ axInFlight' = NoCall
  /\ LET r == axInFlight[1]
     IN IF acq[r].waiting /\ acq[r].stage = axInFlight[2]
        THEN acq' = Fallback(r) ELSE UNCHANGED acq
  /\ UNCHANGED <<settings, generation, active, disposeSlot, run, socket,
                 sent, history>>

(* Variant: the deadline is only looked at before a call.                  *)
DeadlineNoted(r) ==
  /\ acq[r].stage \in {"probe", "capture", "title"} /\ ~acq[r].late
  /\ acq' = [acq EXCEPT ![r].late = TRUE]
  /\ UNCHANGED <<settings, axInFlight, generation, active, disposeSlot, run, socket, sent,
                 history>>

(* safeAsync, its timer: 350 ms after the start the waiting stage yields   *)
(* its fallback, and every later one will.                                 *)
DeadlinePasses(r) ==
  /\ acq[r].stage \in {"probe", "capture", "title"} /\ ~acq[r].late
  /\ acq' = [acq EXCEPT ![r] = IF @.waiting THEN Advanced([@ EXCEPT !.late = TRUE])
                               ELSE [@ EXCEPT !.late = TRUE]]
  /\ UNCHANGED <<settings, axInFlight, generation, active, disposeSlot,
                 run, socket, sent, history>>

(***************************************************************************)
(* The recording.                                                          *)
(***************************************************************************)
(* finishRecording and onCaptureAudio: the slot is free for the next       *)
(* session, the pipeline waits for its target context.                     *)
AudioArrives ==
  /\ active # 0
  /\ active' = 0
  /\ run' = [run EXCEPT ![active].at = "context"]
  /\ UNCHANGED <<settings, axInFlight, acq, generation, disposeSlot,
                 socket, sent, history>>

(* cancelRecording, onCaptureError.                                        *)
CancelRecording ==
  /\ active # 0
  /\ active' = 0
  /\ run' = [run EXCEPT ![active].at = "cancelled"]
  /\ socket' = Disposed(disposeSlot)
  /\ disposeSlot' = 0
  /\ UNCHANGED <<settings, axInFlight, acq, generation, sent, history>>

(***************************************************************************)
(* The pipeline.                                                           *)
(***************************************************************************)
Target(r) == [app |-> acq[r].app, capture |-> acq[r].capture, title |-> acq[r].title]
Context(r) == BuildAppContext(Target(r), include)

(* The run ends, and with it the locals of its pipeline; its finally       *)
(* closes its own sockets if the slot is still its own.                    *)
Forgets(r, at) ==
  /\ run' = [run EXCEPT ![r] = [NoRun EXCEPT !.at = at]]
  /\ acq' = [acq EXCEPT ![r] = NoAcquisition]
  /\ sent' = [sent EXCEPT ![r] = NoRequest]

FreesSlot(r) == disposeSlot' = IF disposeSlot = r THEN 0 ELSE disposeSlot

EndsAt(r, at) ==
  /\ Forgets(r, at) /\ FreesSlot(r)
  /\ socket' = IF disposeSlot = r THEN Disposed(r) ELSE socket

(* runResolvedSession, the context has come: a superseded run stops here.  *)
ContextSuperseded(r) ==
  /\ run[r].at = "context" /\ acq[r].stage = "done" /\ Superseded(r)
  /\ Forgets(r, "superseded")
  /\ UNCHANGED <<settings, axInFlight, generation, active, disposeSlot, socket, history>>

(* makeResolveSession answers missing_mode, missing_provider or            *)
(* runtime_unavailable, or it throws.                                      *)
ResolveFails(r) ==
  /\ run[r].at = "context" /\ acq[r].stage = "done" /\ ~Superseded(r)
  /\ Forgets(r, "failed")
  /\ UNCHANGED <<settings, axInFlight, generation, active, disposeSlot, socket, history>>

(* validateRecording: the audio is too short or silent.                    *)
RecordingRefused(r) ==
  /\ run[r].at = "context" /\ acq[r].stage = "done" /\ ~Superseded(r)
  /\ RefusedRecordings # {}
  /\ Forgets(r, "empty")
  /\ socket' = Disposed(disposeSlot)
  /\ disposeSlot' = 0
  /\ UNCHANGED <<settings, axInFlight, generation, active, history>>

(* makeResolveSession's engine, assembleModelInput, and the first hop of   *)
(* createEngineTranscription: the omni model is sent the evidence with the *)
(* audio, a recognizer only the audio and the hotwords.                    *)
AskEngine(r, engine) ==
  /\ run[r].at = "context" /\ acq[r].stage = "done" /\ ~Superseded(r)
  /\ Recordings \ RefusedRecordings # {}
  /\ run' = [run EXCEPT ![r] = [@ EXCEPT !.at = engine, !.engine = engine]]
  /\ sent' = IF engine = "omni" THEN [sent EXCEPT ![r] = Evidence(Context(r))] ELSE sent
  /\ socket' = IF engine = "realtime"
               THEN [Disposed(disposeSlot) EXCEPT ![r].ws = "connecting"]
               ELSE Disposed(disposeSlot)
  /\ disposeSlot' = r
  /\ UNCHANGED <<settings, axInFlight, acq, generation, active, history>>

(* A recognizer's text: an empty one skips the language model and ends the *)
(* run as no_recognition, any other is sent on with the evidence.          *)
Recognized(r, text) ==
  IF text = "blank"
  THEN Forgets(r, "empty") /\ FreesSlot(r)
  ELSE /\ run' = [run EXCEPT ![r] = [@ EXCEPT !.at = "llm", !.raw = text]]
       /\ sent' = [sent EXCEPT ![r] = Evidence(Context(r))]
       /\ UNCHANGED <<acq, disposeSlot>>

(* parseTranscriptionResponse, parseFlashResponse: any text is valid.      *)
RecognizerAnswers(r) ==
  /\ run[r].at = "http"
  /\ \E text \in {"blank", "words"} : Recognized(r, text)
  /\ UNCHANGED <<settings, axInFlight, generation, active, socket, history>>

(* parseOmniResponse: the omni model's text is both raw and final.         *)
OmniAnswers(r) ==
  /\ run[r].at = "omni"
  /\ \E text \in {"stop", "words"} :
       run' = [run EXCEPT ![r] = [@ EXCEPT !.at = "floor", !.raw = text, !.final = text]]
  /\ UNCHANGED <<settings, axInFlight, acq, generation, active,
                 disposeSlot, socket, sent, history>>

(* The language model's text is the final one.                             *)
LlmAnswers(r) ==
  /\ run[r].at = "llm"
  /\ \E text \in {"stop", "words"} :
       run' = [run EXCEPT ![r] = [@ EXCEPT !.at = "floor", !.final = text, !.llm = TRUE]]
  /\ UNCHANGED <<settings, axInFlight, acq, generation, active,
                 disposeSlot, socket, sent, history>>

(* createResponseException, empty_response, a body that is no JSON, a      *)
(* failed connection: the run rejects, without falling back to the raw     *)
(* transcript.                                                             *)
RequestFails(r) ==
  /\ run[r].at \in {"omni", "http", "llm"}
  /\ EndsAt(r, "failed")
  /\ UNCHANGED <<settings, axInFlight, generation, active, history>>

(* postChatCompletions and the recognizers, the abort after 30 s.          *)
RequestAborts(r) == RequestFails(r)

(***************************************************************************)
(* The realtime socket.                                                    *)
(***************************************************************************)
(* settleResolve, settleReject: once, and the socket is closed; whatever   *)
(* the promise had heard is dropped.                                       *)
Settle(r) ==
  /\ ~socket[r].settled
  /\ socket' = [socket EXCEPT ![r] = [NoSocket EXCEPT !.settled = TRUE, !.ws = "closing"]]

SettleReject(r) == Settle(r) /\ Forgets(r, "failed") /\ FreesSlot(r)

SocketOpens(r) ==
  /\ socket[r].ws = "connecting"
  /\ socket' = [socket EXCEPT ![r].ws = "open"]
  /\ UNCHANGED <<settings, axInFlight, acq, generation, active,
                 disposeSlot, run, sent, history>>

(* session.created and session.updated: the configuration, then all of the *)
(* audio.  What a closing socket is told to send is dropped.               *)
SessionUpdated(r) ==
  /\ socket[r].ws = "open" /\ ~socket[r].streamed
  /\ socket' = [socket EXCEPT ![r].streamed = TRUE]
  /\ UNCHANGED <<settings, axInFlight, acq, generation, active,
                 disposeSlot, run, sent, history>>

(* settleResolve, for input_audio_transcription.completed and, with an     *)
(* omni realtime model, response.done: the event's transcript, or else     *)
(* what the deltas have said so far.  A closing socket still delivers.     *)
TranscriptionCompletes(r) ==
  /\ socket[r].ws \in {"open", "closing"} /\ socket[r].streamed
  /\ Settle(r)
  /\ \E text \in {"blank", "words"} : Recognized(r, text)
  /\ UNCHANGED <<settings, axInFlight, generation, active, history>>

(* An error event, an event that is no JSON, the socket's own error.       *)
SocketFails(r) ==
  /\ socket[r].ws \in {"connecting", "open", "closing"}
  /\ SettleReject(r)
  /\ UNCHANGED <<settings, axInFlight, generation, active, history>>

(* The close event: it rejects only a transcription that has not settled.  *)
SocketCloses(r) ==
  /\ socket[r].ws \in {"open", "closing"}
  /\ IF socket[r].settled THEN UNCHANGED <<run, acq, sent, disposeSlot>>
     ELSE Forgets(r, "failed") /\ FreesSlot(r)
  /\ socket' = [socket EXCEPT ![r] = [NoSocket EXCEPT !.settled = TRUE, !.ws = "closed"]]
  /\ UNCHANGED <<settings, axInFlight, generation, active, history>>

(* The adapter's own timer, 30 s.                                          *)
SocketTimesOut(r) ==
  /\ run[r].at = "realtime"
  /\ SettleReject(r)
  /\ UNCHANGED <<settings, axInFlight, generation, active, history>>

(***************************************************************************)
(* Insertion and the record.                                               *)
(***************************************************************************)
(* postprocessFinalText: a short single line loses its final stop.         *)
FinalText(text) == IF text = "stop" THEN "" ELSE text

(* emitInsertingAfterFloor: after the floor a superseded run stops.        *)
Announce(r) ==
  /\ run[r].at = "floor"
  /\ IF Superseded(r) THEN EndsAt(r, "superseded")
     ELSE /\ run' = [run EXCEPT ![r].at = "inserting"]
          /\ UNCHANGED <<acq, sent, socket, disposeSlot>>
  /\ UNCHANGED <<settings, axInFlight, generation, active, history>>

(* sessionStatusFor.                                                       *)
StatusFor(outcome) == IF outcome \in {"failed", "focus_lost"} THEN "failed" ELSE "completed"

(* historyRecordForVoiceSession; its context is HistoryContext(Context(r)). *)
RecordFor(r, outcome) ==
  [run |-> r,
   raw |-> run[r].raw,
   processed |-> IF FinalText(run[r].final) = run[r].raw THEN Null ELSE FinalText(run[r].final),
   outcome |-> outcome,
   status |-> StatusFor(outcome),
   llm |-> run[r].llm]

(* runVoiceSession after inject: the record is appended if history is on.  *)
Inserted(r) ==
  /\ run[r].at = "inserting"
  /\ \E outcome \in {"inserted", "failed"} :
       history' = IF keeps THEN history \cup {RecordFor(r, outcome)} ELSE history
  /\ run' = [run EXCEPT ![r].at = "done"]
  /\ acq' = [acq EXCEPT ![r] = NoAcquisition]
  /\ sent' = [sent EXCEPT ![r] = NoRequest]
  /\ socket' = IF disposeSlot = r THEN Disposed(r) ELSE socket
  /\ FreesSlot(r)
  /\ UNCHANGED <<settings, axInFlight, generation, active>>

(* Once its audio is there, a run's own steps and timers go on; the        *)
(* accessibility layer, the providers and the user owe nothing.            *)
OwnStep(r) ==
  \/ StageBegins(r) \/ DeadlinePasses(r)
  \/ ContextSuperseded(r) \/ ResolveFails(r) \/ RecordingRefused(r)
  \/ \E engine \in Engines : AskEngine(r, engine)
  \/ RequestAborts(r) \/ SocketTimesOut(r)
  \/ Announce(r) \/ Inserted(r)

Next ==
  \/ StartRecording \/ AudioArrives \/ CancelRecording
  \/ AxReturns \/ AxFails
  \/ \E r \in Runs :
       \/ OwnStep(r)
       \/ RecognizerAnswers(r) \/ OmniAnswers(r) \/ LlmAnswers(r) \/ RequestFails(r)
       \/ SocketOpens(r) \/ SessionUpdated(r) \/ TranscriptionCompletes(r)
       \/ SocketFails(r) \/ SocketCloses(r)

Fairness == \A r \in Runs : WF_vars(OwnStep(r))

Spec == Init /\ [][Next]_vars /\ Fairness

-----------------------------------------------------------------------------
Ended == {"superseded", "failed", "empty", "done"}

(* The shape of the state, and: a stage that waits waits for its own call, *)
(* the one in flight, so that its return or the deadline wakes it.         *)
SessionShape ==
  /\ active \in {0, generation} /\ disposeSlot \in 0..generation
  /\ \A r \in Runs : run[r].at = "none" <=> r > generation
  /\ \A r \in Runs : acq[r].waiting => axInFlight = <<r, acq[r].stage>>

(* With the names of windows and applications kept out of requests, what   *)
(* the provider is sent is what it would be sent had no name been captured *)
(* at all: neither the rows of the prompt nor the application's profile    *)
(* tell anything of them.                                                  *)
RequestIsPrivate ==
  \A r \in Runs :
    sent[r] # NoRequest /\ ~include =>
      LET nameless == [Target(r) EXCEPT !.app.name = Null, !.title = Null]
      IN sent[r] = Evidence(BuildAppContext(nameless, FALSE))

(* What is captured is read of a field that is not secure and lies within  *)
(* ContextUnits of the selection, as far as that lies in the text; the     *)
(* parts fit together, and the offsets history keeps mark what the user    *)
(* had selected.                                                           *)
CaptureIsTheWindow ==
  \A r \in Runs : acq[r].capture # NoCapture =>
    LET field == acq[r].from
        got == acq[r].capture
        first == Smaller(SelectedRange(field)[1], Len(field.value))
        last == Smaller(SelectedRange(field)[2], Len(field.value))
        near == {p \in DOMAIN field.value : first - ContextUnits < p /\ p <= last + ContextUnits}
        kept == HistoryContext(Context(r))
    IN /\ ~field.secureInput /\ field.role # "AXSecureTextField"
       /\ ToSet(got.text) = {field.value[p] : p \in near}
       /\ got.text = got.before \o SelectedText(got) \o got.after
       /\ Slice(kept.text, kept.start, kept.end) = [i \in 1..(last - first) |-> field.value[first + i]]

(* A context, once acquired, is what the session uses to its end: no       *)
(* accessibility call that returns late, and no later session's, changes   *)
(* it.                                                                     *)
ContextIsFixed ==
  [][\A r \in Runs : acq[r].stage = "done" => acq'[r] = acq[r] \/ run'[r].at \in Ended]_vars

(* History holds exactly one record of each insertion it was to keep, with *)
(* the text that was inserted and the language model's stamp exactly if it *)
(* answered.                                                               *)
HistoryTellsTheRun ==
  \A r \in Runs :
    LET records == {rec \in history : rec.run = r}
    IN /\ Cardinality(records) = IF run[r].at = "done" /\ keeps THEN 1 ELSE 0
       /\ \A rec \in records :
            /\ rec.llm = (run[r].engine # "omni")
            /\ Or(rec.processed, rec.raw) = FinalText(run[r].final)
            /\ (rec.status = "completed") = (rec.outcome = "inserted")

(* Together: what a session hears, reads, waits for and leaves behind.     *)
SessionRunInv ==
  /\ SegmentsAreFound /\ SpeechIsHeard
  /\ SessionShape /\ CaptureIsTheWindow /\ HistoryTellsTheRun

(* A recording that reached the pipeline comes to an end, though the       *)
(* accessibility layer hangs and no provider ever answers.                 *)
RunEnds == \A r \in Runs : run[r].at = "context" ~> run[r].at \in Ended
=============================================================================
