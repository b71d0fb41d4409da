---------------------------- MODULE PanelNotices ----------------------------
(***************************************************************************)
(* What a voice-runtime event means for the capsule window: the notice it   *)
(* pushes on the panel, how long the window then lingers, how it leaves,    *)
(* and the face the pill draws.  Four pure functions of the code, written   *)
(* apart from each other, that have to agree.  Wording is left out.         *)
(***************************************************************************)
EXTENDS Integers

CONSTANTS
  AutoTime,    \* PANEL_DEFAULT_DURATION_MS
  ErrorTime,   \* PANEL_ERROR_DURATION_MS
  StickyTime,  \* STICKY_NOTICE_LINGER_MS
  Margin,      \* PANEL_EXIT_MARGIN_MS
  ExitTime,    \* PANEL_EXIT_MS and EXIT_SINK_MS
  ShortLinger  \* SUCCESS_LINGER_MS and CANCEL_LINGER_MS

(* Times are small integers in the code's order, so that every comparison   *)
(* between two of them comes out as it does in milliseconds.                *)
ASSUME PanelTimesAssumption ==
  /\ {AutoTime, ErrorTime, StickyTime, Margin, ExitTime, ShortLinger} \subseteq Nat
  /\ 0 < ExitTime /\ ExitTime < Margin /\ ExitTime < ShortLinger
  /\ ShortLinger < AutoTime /\ AutoTime <= ErrorTime /\ ErrorTime < StickyTime

(* A session's terminal event: how it ended, and why nothing or something   *)
(* else was inserted.                                                       *)
EmptyReasons == {"too_short", "silent", "no_recognition"}
Unconfirmed == {"paste_unverified", "paste_send_failed", "clipboard_busy"}
CopyReasons == {"clipboard_unrestorable", "native_unavailable"} \cup Unconfirmed
Outcomes == {"paste_sent", "no_op", "focus_lost", "inject_failed"} \cup CopyReasons
ErrorCodes == {"missing_provider", "missing_mode", "runtime_unavailable", "generic"}

Ended(kind, why) == [kind |-> kind, why |-> why]
TerminalEvents == {Ended("completed", why) : why \in EmptyReasons \cup Outcomes}
                  \cup {Ended("error", code) : code \in ErrorCodes}
                  \cup {Ended("failed", "no_op")}
Cancelled == Ended("cancelled", "no_op")
Started == Ended("started", "")
Slow == Ended("slow", "")

-----------------------------------------------------------------------------
(* The notice.                                                             *)

Notice(id, duration) == [id |-> id, duration |-> duration]
Sticky(id) == Notice(id, 0)   \* dismissPolicy "until_next"
NoNotice == Notice("none", 0)
IsAuto(notice) == notice.duration > 0

(* Clean inserts and cancellations say nothing; a new session clears.      *)
WithoutWords == {Ended("completed", "paste_sent"), Ended("completed", "no_op"),
                 Cancelled, Started}

SlowNotice == Sticky("slow")
ErrorNotice(code) == IF code \in {"missing_provider", "missing_mode"}
                     THEN Sticky(code)
                     ELSE Notice(code, ErrorTime)
OutcomeNotice(why) == Notice(IF why \in Unconfirmed THEN "manual-fallback" ELSE why,
                             IF why \in {"focus_lost", "inject_failed"}
                             THEN ErrorTime ELSE AutoTime)

(* panelActionForVoiceEvent: the notice pushed, none for a clear.           *)
NoticeFor(event) ==
  CASE event \in WithoutWords -> NoNotice
    [] event = Slow -> SlowNotice
    [] event.kind = "error" -> ErrorNotice(event.why)
    [] event.kind = "failed" -> Notice("failed", ErrorTime)
    [] event.why \in EmptyReasons -> Notice("empty", AutoTime)
    [] OTHER -> OutcomeNotice(event.why)

-----------------------------------------------------------------------------
(* The window and the pill.                                                *)

(* The window outlives the notice's own time by a margin; the mutant takes  *)
(* that time for the whole of it.                                           *)
OnTheDot(duration) == duration
PastTheNotice(duration) == duration + Margin

(* panelHideLingerMs, and the short linger of an event without a notice.    *)
HideLinger(event) ==
  LET notice == NoticeFor(event) IN
  IF notice = NoNotice THEN ShortLinger
  ELSE PastTheNotice(IF IsAuto(notice) THEN notice.duration ELSE StickyTime)

(* exitIntentForEvent *)
ExitIntent(event) ==
  CASE event.kind = "cancelled" -> "cancel"
    [] event.kind \in {"failed", "error"} \/ event.why = "inject_failed" -> "error"
    [] event.kind = "completed" /\ event.why \in {"paste_sent", "no_op"} -> "success"
    [] OTHER -> "notice"

(* barStateFor over the phase capsuleReducer gives the event, and           *)
(* isCleanSuccess; the mutant draws the check mark for every completion.    *)
BarOfPhase(event) ==
  CASE event = Started -> "listening"
    [] event.kind \in {"failed", "error"} -> "error"
    [] event.kind = "completed" -> "success"
    [] OTHER -> "idle"
BarState(event) ==
  CASE event = Started -> "listening"
    [] event.kind \in {"failed", "error"} -> "error"
    [] event.kind = "completed" /\ event.why \in {"paste_sent", "no_op"} -> "success"
    [] OTHER -> "idle"

(* exitPlanFor: the exit animation starts so as to end with the window.     *)
ExitStart(inTime) == IF inTime > ExitTime THEN inTime - ExitTime ELSE 0

(* The pill, the notice and the way out tell one story about every ending:  *)
(* a notice if and only if the exit is not a plain success or a cancel, the *)
(* check mark only without a notice, and the window always outlives what it *)
(* shows.  The code keeps four switch statements in step by hand            *)
(* (capsuleMeterModel.ts: "Mirrors panelState's clean-success branch").     *)
EndingsAgree ==
  \A event \in TerminalEvents \cup {Cancelled} :
    /\ (NoticeFor(event) = NoNotice) <=> (ExitIntent(event) \in {"success", "cancel"})
    /\ (BarState(event) = "success") <=> (ExitIntent(event) = "success")
    /\ HideLinger(event) > NoticeFor(event).duration + ExitTime
=============================================================================
