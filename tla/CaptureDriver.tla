--------------------------- MODULE CaptureDriver ---------------------------
(***************************************************************************)
(* useCaptureDriver with the MicCapture instances it creates and the        *)
(* recording cue gate: the capsule renderer's side of a session.            *)
(*                                                                          *)
(* Each session has its own MicCapture.  beginCapture, finishCapture and    *)
(* cancelCapture are asynchronous functions that share two refs and wait at *)
(* the points kept in beginAt, finishAt and cancelling; an operator is one  *)
(* callback with the promise continuations it triggers.                     *)
(***************************************************************************)
EXTENDS Integers, Sequences

CONSTANTS
  Captures,       \* session ids
  NoCapture,      \* null
  StartFaults     \* which failures of a start a run adds to a refused microphone

ASSUME CaptureAssumption ==
  /\ NoCapture \notin Captures
  /\ StartFaults \subseteq {"graph", "late"}

VARIABLES
  captureRef,   \* the MicCapture in use, by session
  sessionRef,   \* the session in use
  mic,          \* MicCapture.state, with the two halves of a pending start
  stream,       \* the MediaStream is live: the microphone is on
  beginAt,      \* where beginCapture waits
  finishAt,     \* where finishCapture waits
  cancelling,   \* MicCaptures whose cancel() waits for their start
  cueGate,      \* RecordingCueGate.recording
  toMain        \* messages on their way to the main process

driverVars == <<captureRef, sessionRef, mic, stream, beginAt, finishAt,
                cancelling, cueGate, toMain>>

DriverTypeOK ==
  /\ captureRef \in Captures \cup {NoCapture}
  /\ sessionRef \in Captures \cup {NoCapture}
  /\ mic \in [Captures -> {"idle", "asking", "opening", "recording", "stopped"}]
  /\ stream \in [Captures -> BOOLEAN]
  /\ beginAt \in [Captures -> {"none", "teardown", "start", "lead", "done"}]
  /\ finishAt \in [Captures -> {"none", "stop", "close", "done"}]
  /\ cancelling \subseteq Captures
  /\ cueGate \in BOOLEAN
  /\ toMain \in Seq({"started", "audio", "error"} \X Captures)

DriverInit ==
  /\ captureRef = NoCapture
  /\ sessionRef = NoCapture
  /\ mic = [s \in Captures |-> "idle"]
  /\ stream = [s \in Captures |-> FALSE]
  /\ beginAt = [s \in Captures |-> "none"]
  /\ finishAt = [s \in Captures |-> "none"]
  /\ cancelling = {}
  /\ cueGate = FALSE
  /\ toMain = <<>>

Send(kind, s) == toMain' = Append(toMain, <<kind, s>>)

(* start() of this capture has not settled. *)
Starting(s) == mic[s] \in {"asking", "opening"}

-----------------------------------------------------------------------------
(* beginCapture                                                            *)

(* The refs move to the new session and its start() begins.                *)
OpenMic(s) ==
  /\ sessionRef' = s
  /\ captureRef' = s
  /\ mic' = [mic EXCEPT ![s] = "asking"]
  /\ beginAt' = [beginAt EXCEPT ![s] = "start"]
  /\ UNCHANGED <<stream, finishAt, cueGate, toMain>>

(* A capture still in the ref is cancelled first, and waited for.          *)
OnBegin(s) ==
  \/ /\ captureRef = NoCapture
     /\ OpenMic(s)
     /\ UNCHANGED cancelling
  \/ /\ captureRef # NoCapture
     /\ cancelling' = cancelling \cup {captureRef}
     /\ beginAt' = [beginAt EXCEPT ![s] = "teardown"]
     /\ UNCHANGED <<captureRef, sessionRef, mic, stream, finishAt, cueGate, toMain>>

StaleCaptureGone(s) ==
  /\ beginAt[s] = "teardown"
  /\ captureRef \notin cancelling
  /\ OpenMic(s)
  /\ UNCHANGED cancelling

(* getUserMedia resolves; the audio graph is not up yet.                   *)
MicGranted(s) ==
  /\ mic[s] = "asking"
  /\ mic' = [mic EXCEPT ![s] = "opening"]
  /\ stream' = [stream EXCEPT ![s] = TRUE]
  /\ UNCHANGED <<captureRef, sessionRef, beginAt, finishAt, cancelling, cueGate,
                 toMain>>

(* The graph is live: start() resolves, the start cue plays.               *)
MicReady(s) ==
  /\ mic[s] = "opening"
  /\ mic' = [mic EXCEPT ![s] = "recording"]
  /\ cueGate' = TRUE
  /\ beginAt' = [beginAt EXCEPT ![s] = "lead"]
  /\ UNCHANGED <<captureRef, sessionRef, stream, finishAt, cancelling, toMain>>

(* start() rejects: the catch block empties the ref, silences the cue gate  *)
(* and reports, whatever session the ref belongs to by now.  Two failures   *)
(* happen only where StartFaults names them: the audio graph's, after the   *)
(* microphone opened ("graph"), and one that comes when the ref has gone on *)
(* to another session ("late").                                             *)
StartFails(s) ==
  /\ \/ mic[s] = "asking" /\ mic' = [mic EXCEPT ![s] = "stopped"]
     \/ "graph" \in StartFaults /\ mic[s] = "opening" /\ mic' = [mic EXCEPT ![s] = "idle"]
  /\ captureRef \in {s, NoCapture} \/ "late" \in StartFaults
  /\ captureRef' = NoCapture
  /\ cueGate' = FALSE
  /\ beginAt' = [beginAt EXCEPT ![s] = "done"]
  /\ Send("error", s)
  /\ UNCHANGED <<sessionRef, stream, finishAt, cancelling>>

(* The cue rang out: acknowledge, unless the session was replaced.         *)
LeadEnds(s) ==
  /\ beginAt[s] = "lead"
  /\ beginAt' = [beginAt EXCEPT ![s] = "done"]
  /\ IF sessionRef = s THEN Send("started", s) ELSE UNCHANGED toMain
  /\ UNCHANGED <<captureRef, sessionRef, mic, stream, finishAt, cancelling, cueGate>>

-----------------------------------------------------------------------------
(* finishCapture and cancelCapture                                         *)

EmptyRefs ==
  /\ captureRef' = NoCapture
  /\ sessionRef' = NoCapture

(* Mutant of OnFinish: a finish before the microphone opened is dropped.    *)
FinishNeedsOpenMic(s) ==
  \/ /\ captureRef # NoCapture /\ sessionRef = s /\ ~Starting(s)
     /\ EmptyRefs
     /\ finishAt' = [finishAt EXCEPT ![s] = "stop"]
     /\ UNCHANGED <<mic, stream, beginAt, cancelling, cueGate, toMain>>
  \/ /\ captureRef = NoCapture \/ sessionRef # s \/ Starting(s)
     /\ UNCHANGED driverVars

(* A finish for another session, or a second one, does nothing.            *)
OnFinish(s) ==
  \/ /\ captureRef # NoCapture /\ sessionRef = s
     /\ EmptyRefs
     /\ finishAt' = [finishAt EXCEPT ![s] = "stop"]
     /\ UNCHANGED <<mic, stream, beginAt, cancelling, cueGate, toMain>>
  \/ /\ captureRef = NoCapture \/ sessionRef # s
     /\ UNCHANGED driverVars

(* MicCapture.stop, once its start settled: nothing to stop is an error;    *)
(* otherwise encode, and tear the graph down whether or not that worked.    *)
StopSettles(s) ==
  /\ finishAt[s] = "stop" /\ ~Starting(s)
  /\ \/ /\ mic[s] = "recording"
        /\ mic' = [mic EXCEPT ![s] = "stopped"]
        /\ stream' = [stream EXCEPT ![s] = FALSE]
        /\ finishAt' = [finishAt EXCEPT ![s] = "close"]
        /\ UNCHANGED <<cueGate, toMain>>
     \/ /\ mic[s] # "recording"
        /\ finishAt' = [finishAt EXCEPT ![s] = "done"]
        /\ cueGate' = FALSE
        /\ Send("error", s)
        /\ UNCHANGED <<mic, stream>>
  /\ UNCHANGED <<captureRef, sessionRef, beginAt, cancelling>>

(* Mutant of StopCloses: an encode error is not reported.                   *)
EncodeErrorIsSilent(s) ==
  /\ finishAt[s] = "close"
  /\ finishAt' = [finishAt EXCEPT ![s] = "done"]
  /\ cueGate' = FALSE
  /\ Send("audio", s) \/ UNCHANGED toMain
  /\ UNCHANGED <<captureRef, sessionRef, mic, stream, beginAt, cancelling>>

(* The graph is closed: the stop cue and the audio, or the encode error.    *)
StopCloses(s) ==
  /\ finishAt[s] = "close"
  /\ finishAt' = [finishAt EXCEPT ![s] = "done"]
  /\ cueGate' = FALSE
  /\ Send("audio", s) \/ Send("error", s)
  /\ UNCHANGED <<captureRef, sessionRef, mic, stream, beginAt, cancelling>>

(* A cancel for another session leaves the live one alone.                 *)
OnCancel(s) ==
  \/ /\ sessionRef \in {NoCapture, s}
     /\ EmptyRefs
     /\ cueGate' = FALSE
     /\ cancelling' = IF captureRef = NoCapture \/ mic[captureRef] = "stopped"
                      THEN cancelling ELSE cancelling \cup {captureRef}
     /\ UNCHANGED <<mic, stream, beginAt, finishAt, toMain>>
  \/ /\ sessionRef \notin {NoCapture, s}
     /\ UNCHANGED driverVars

(* MicCapture.cancel, once the start it may have raced settled.            *)
CancelSettles(s) ==
  /\ s \in cancelling /\ ~Starting(s)
  /\ cancelling' = cancelling \ {s}
  /\ mic' = [mic EXCEPT ![s] = "stopped"]
  /\ stream' = [stream EXCEPT ![s] = FALSE]
  /\ UNCHANGED <<captureRef, sessionRef, beginAt, finishAt, cueGate, toMain>>

DriverStep(s) ==
  \/ StaleCaptureGone(s) \/ MicGranted(s) \/ MicReady(s) \/ StartFails(s)
  \/ LeadEnds(s) \/ StopSettles(s) \/ StopCloses(s) \/ CancelSettles(s)

(* No callback or continuation of the driver is outstanding.               *)
DriverIdle ==
  /\ cancelling = {}
  /\ \A s \in Captures :
       /\ ~Starting(s)
       /\ beginAt[s] \notin {"teardown", "start", "lead"}
       /\ finishAt[s] \notin {"stop", "close"}
=============================================================================
