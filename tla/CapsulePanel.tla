---------------------------- MODULE CapsulePanel ----------------------------
(***************************************************************************)
(* The notice above the capsule: one click-through window driven by two     *)
(* processes.  Main owns the window, its hide timer and whether the mouse   *)
(* reaches it (CapsuleOverlay with its times, the session controller cut    *)
(* down to what reaches the window); the renderer owns the notice, its      *)
(* dismissal timer and the exit animation (usePanelNotice, useCaptureDriver,*)
(* CapsulePanel).  They talk over two FIFO channels and share no clock; the *)
(* user's pointer talks to the renderer.                                    *)
(*                                                                         *)
(* Time is discrete.  A tick passes only when no timer is due and no        *)
(* message is in flight: an IPC message is faster than the shortest time    *)
(* here (160 ms).  Timers that are due together fire in any order.          *)
(***************************************************************************)
EXTENDS PanelNotices, Sequences

CONSTANTS
  Floor,        \* HOVER_RESUME_FLOOR_MS and RESUME_HIDE_FLOOR_MS
  HideDelay,    \* CAPSULE_HIDE_DELAY_MS
  Endings,      \* the terminal events of this instance
  MaxSessions,  \* bound: sessions started
  MaxInFlight   \* bound: messages in flight, either way, when an actor adds more

ASSUME PanelAssumption ==
  /\ {Floor, HideDelay, MaxSessions, MaxInFlight} \subseteq Nat
  /\ ExitTime < HideDelay /\ HideDelay <= Margin /\ Margin < Floor /\ Floor < AutoTime
  /\ Endings \subseteq TerminalEvents

VARIABLES
  session,      \* sessions started, which is also the overlay's show epoch
  live,         \* the terminal event of the current session is still to come
  attention,    \* attentionNotice
  hideIn,       \* time left on the armed hide timer
  pausedIn,     \* time left on a hide frozen by hovering
  revealQueued, \* the 0 ms reveal of show has not run
  windowShown,  \* the window is on screen
  clickThrough, \* the mouse passes through the window
  notice,       \* the panel's notice, with the session it came from
  timer,        \* its dismissal: time left, and the id it will dismiss
  remaining,    \* remainingRef: what was left when the pointer entered
  hovered,      \* hoveredRef
  exitIn,       \* time left until the exit animation starts
  exited,       \* overlay.exit: the animation has faded the stack out
  bar,          \* the pill's face
  inside,       \* the notice's element has the pointer
  touched,      \* history: the user has reached for the panel since the last ending
  toRenderer,   \* messages from main to the renderer
  toMain        \* messages from the renderer to main

sessionVars == <<session, live, attention>>
windowVars == <<hideIn, pausedIn, revealQueued, windowShown, clickThrough>>
noticeVars == <<notice, timer, remaining, hovered, touched, inside>>
faceVars == <<exitIn, exited, bar>>
panelVars == <<sessionVars, windowVars, noticeVars, faceVars, toRenderer, toMain>>

NoTime == -1
Later(a, b) == IF a > b THEN a ELSE b
Earlier(a, b) == IF a < b THEN a ELSE b
NoTimer == [in |-> NoTime, id |-> "none"]
From(s, n) == [id |-> n.id, duration |-> n.duration, from |-> s]
Hidden == From(0, NoNotice)

Shown(s) == [kind |-> "will-show", event |-> Started, from |-> s, in |-> 0]
Hides(in) == [kind |-> "will-hide", event |-> Started, from |-> 0, in |-> in]
Emits(event, s) == [kind |-> "event", event |-> event, from |-> s, in |-> 0]
Tell(messages) == toRenderer' = toRenderer \o messages

(* A hidden, click-through window (createCapsuleWindow) and no notice.      *)
PanelInit ==
  /\ session = 0 /\ live = FALSE /\ attention = FALSE
  /\ hideIn = NoTime /\ pausedIn = NoTime
  /\ revealQueued = FALSE /\ windowShown = FALSE /\ clickThrough = TRUE
  /\ notice = Hidden /\ timer = NoTimer /\ remaining = NoTime
  /\ hovered = FALSE /\ touched = FALSE /\ inside = FALSE
  /\ exitIn = NoTime /\ exited = FALSE /\ bar = "idle"
  /\ toRenderer = <<>> /\ toMain = <<>>

-----------------------------------------------------------------------------
(* Main: the overlay.                                                      *)

KeepUp == Len(toRenderer) < MaxInFlight /\ Len(toMain) < MaxInFlight   \* the bound
Lingering == hideIn # NoTime \/ pausedIn # NoTime

(* show: every pending hide is disarmed, the window turns click-through and *)
(* its reveal is queued.  The mutant leaves an armed hide armed.            *)
ShowOverHide ==
  /\ pausedIn' = NoTime /\ revealQueued' = TRUE /\ clickThrough' = TRUE
  /\ UNCHANGED <<hideIn, windowShown>>
Show ==
  /\ hideIn' = NoTime /\ pausedIn' = NoTime
  /\ revealQueued' = TRUE
  /\ clickThrough' = TRUE
  /\ UNCHANGED windowShown

(* expediteHide: shorten a pending hide, the frozen one first.              *)
Expedite ==
  IF ~Lingering THEN UNCHANGED <<hideIn, pausedIn, toRenderer>>
  ELSE /\ hideIn' = Earlier(IF pausedIn # NoTime THEN pausedIn ELSE hideIn, HideDelay)
       /\ pausedIn' = NoTime
       /\ Tell(<<Hides(hideIn')>>)

(* The reveal and the hide timer, whose epoch is the current one: show      *)
(* clears the timer.                                                        *)
RevealFires ==
  /\ revealQueued
  /\ revealQueued' = FALSE
  /\ windowShown' = TRUE
  /\ UNCHANGED <<sessionVars, hideIn, pausedIn, clickThrough, noticeVars, faceVars,
                 toRenderer, toMain>>

HideFires ==
  /\ hideIn = 0 /\ ~revealQueued
  /\ hideIn' = NoTime
  /\ windowShown' = FALSE
  /\ clickThrough' = TRUE
  /\ UNCHANGED <<sessionVars, pausedIn, revealQueued, noticeVars, faceVars,
                 toRenderer, toMain>>

(* CAPSULE_SET_INTERACTIVE: the mouse reaches the window and a pending hide *)
(* is frozen, or the reverse with a floor to read on.                       *)
HoverArrives ==
  /\ toMain # <<>> /\ Head(toMain) = "enter"
  /\ toMain' = Tail(toMain)
  /\ clickThrough' = FALSE
  /\ IF hideIn = NoTime THEN UNCHANGED <<hideIn, pausedIn>>
     ELSE pausedIn' = hideIn /\ hideIn' = NoTime
  /\ UNCHANGED <<sessionVars, revealQueued, windowShown, noticeVars, faceVars, toRenderer>>

(* Mutant of ResumeHide: a hover with time to spare is not resumed.         *)
ResumeShortHides ==
  IF pausedIn = NoTime \/ pausedIn > Floor THEN UNCHANGED <<hideIn, pausedIn, toRenderer>>
  ELSE /\ hideIn' = Floor
       /\ pausedIn' = NoTime
       /\ Tell(<<Hides(hideIn')>>)
ResumeHide ==
  IF pausedIn = NoTime THEN UNCHANGED <<hideIn, pausedIn, toRenderer>>
  ELSE /\ hideIn' = Later(pausedIn, Floor)
       /\ pausedIn' = NoTime
       /\ Tell(<<Hides(hideIn')>>)

LeaveArrives ==
  /\ toMain # <<>> /\ Head(toMain) = "leave"
  /\ toMain' = Tail(toMain)
  /\ clickThrough' = TRUE
  /\ ResumeHide
  /\ UNCHANGED <<sessionVars, revealQueued, windowShown, noticeVars, faceVars>>

(* CAPSULE_NOTICE_DISMISSED: click-through again, the window goes, and the  *)
(* next chord records.                                                      *)
DismissArrives ==
  /\ toMain # <<>> /\ Head(toMain) = "dismissed"
  /\ toMain' = Tail(toMain)
  /\ clickThrough' = TRUE
  /\ Expedite
  /\ attention' = FALSE
  /\ touched' = TRUE
  /\ UNCHANGED <<session, live, revealQueued, windowShown, notice, timer,
                 remaining, hovered, inside, faceVars>>

-----------------------------------------------------------------------------
(* Main: the session, as far as it reaches the window.                     *)

(* startRecording: an unacknowledged error notice still on screen takes the *)
(* chord; any other start shows the window anew, and a session that was     *)
(* still live (its audio in the pipeline) is superseded: it ends unseen.    *)
ChordDismisses ==
  /\ KeepUp
  /\ attention /\ Lingering
  /\ attention' = FALSE
  /\ touched' = TRUE
  /\ Expedite
  /\ UNCHANGED <<session, live, revealQueued, windowShown, clickThrough,
                 notice, timer, remaining, hovered, inside, faceVars, toMain>>

StartSession ==
  /\ KeepUp
  /\ ~(attention /\ Lingering)
  /\ session < MaxSessions
  /\ session' = session + 1
  /\ live' = TRUE
  /\ attention' = FALSE
  /\ Show
  /\ Tell(<<Shown(session'), Emits(Started, session')>>)
  /\ UNCHANGED <<noticeVars, faceVars, toMain>>

(* A "still working" beat; the code has two of them, any number may come.   *)
SlowBeat ==
  /\ KeepUp
  /\ live
  /\ Tell(<<Emits(Slow, session)>>)
  /\ UNCHANGED <<sessionVars, windowVars, noticeVars, faceVars, toMain>>

(* setVisible(false): the armed timer is replaced, a frozen one stays.      *)
EndSession(event, linger) ==
  /\ KeepUp
  /\ live
  /\ live' = FALSE
  /\ attention' = (attention \/ event.kind \in {"error", "failed"})
  /\ hideIn' = linger
  /\ Tell(<<Emits(event, session), Hides(linger)>>)
  /\ touched' = FALSE
  /\ UNCHANGED <<session, pausedIn, revealQueued, windowShown, clickThrough, notice, timer,
                 remaining, hovered, inside, faceVars, toMain>>

SessionEnds(event) == EndSession(event, HideLinger(event))
CancelRecording == EndSession(Cancelled, ShortLinger)

-----------------------------------------------------------------------------
(* The renderer: the notice.                                               *)

(* A new notice, or none (panelReducer), with the two effects that follow   *)
(* the render.  The first one's cleanup stops the timer of a notice that    *)
(* had armed it and an automatic notice arms its own; the second returns    *)
(* the window to click-through, except for the same notice under the        *)
(* pointer.  An element that is removed loses the pointer and says nothing. *)
DismissTimer(n) ==
  CASE IsAuto(n) -> [in |-> n.duration + ExitTime, id |-> n.id]
    [] ~IsAuto(n) /\ IsAuto(notice) -> NoTimer
    [] OTHER -> timer

(* The mutant never turns click-through under a pointer once on the panel.  *)
StaysInteractive(n) == hovered
SameUnderPointer(n) == hovered /\ n.id # "none" /\ n.id = notice.id

ChangeNotice(n) ==
  /\ notice' = n
  /\ inside' = (inside /\ n.id # "none")
  /\ toMain' = IF SameUnderPointer(n) THEN toMain ELSE Append(toMain, "leave")

Push(n) == ChangeNotice(n) /\ timer' = DismissTimer(n)

(* panelReducer's early return: clearing an empty panel changes nothing.    *)
Clear(timerOfEmpty) ==
  IF notice.id = "none" THEN timer' = timerOfEmpty /\ UNCHANGED <<notice, inside, toMain>>
  ELSE ChangeNotice(Hidden) /\ timer' = timerOfEmpty

(* The fanout of a voice-runtime event to the pill and the panel.           *)
EventArrives ==
  /\ toRenderer # <<>> /\ Head(toRenderer).kind = "event"
  /\ toRenderer' = Tail(toRenderer)
  /\ LET event == Head(toRenderer).event
         pushed == From(Head(toRenderer).from, NoticeFor(event))
     IN /\ IF pushed.id = "none" THEN Clear(DismissTimer(Hidden)) ELSE Push(pushed)
        /\ bar' = IF event = Slow THEN bar ELSE BarState(event)
  /\ UNCHANGED <<sessionVars, windowVars, remaining, hovered, touched, exitIn, exited>>

(* will-show: no exit, no stale face, no notice that outlived its window,   *)
(* before the window reveals.  The mutant of clearPanel leaves the notice   *)
(* to the `started` event, with its timer.                                  *)
LeaveToStarted == UNCHANGED <<notice, timer, inside, toMain>>
ClearPanel == Clear(NoTimer)

WillShowArrives ==
  /\ toRenderer # <<>> /\ Head(toRenderer).kind = "will-show"
  /\ toRenderer' = Tail(toRenderer)
  /\ ClearPanel
  /\ exitIn' = NoTime /\ exited' = FALSE
  /\ bar' = "idle"
  /\ UNCHANGED <<sessionVars, windowVars, remaining, hovered, touched>>

(* will-hide: the exit animation is timed to end with the window.           *)
WillHideArrives ==
  /\ toRenderer # <<>> /\ Head(toRenderer).kind = "will-hide"
  /\ toRenderer' = Tail(toRenderer)
  /\ exitIn' = ExitStart(Head(toRenderer).in)
  /\ UNCHANGED <<sessionVars, windowVars, noticeVars, exited, bar, toMain>>

ExitStarts ==
  /\ exitIn = 0
  /\ exitIn' = NoTime
  /\ exited' = TRUE
  /\ UNCHANGED <<sessionVars, windowVars, noticeVars, bar, toRenderer, toMain>>

(* The dismissal timer; it dismisses only the notice it was armed for.      *)
DismissFires ==
  /\ timer.in = 0
  /\ timer' = NoTimer
  /\ IF timer.id = notice.id THEN ChangeNotice(Hidden)
                             ELSE UNCHANGED <<notice, inside, toMain>>
  /\ UNCHANGED <<sessionVars, windowVars, remaining, hovered, touched, faceVars, toRenderer>>

-----------------------------------------------------------------------------
(* The user's pointer, on a window that is on screen.                      *)

(* setPanelInteractive(true): an automatic notice stops its clock.          *)
PointerEnters ==
  /\ windowShown /\ notice.id # "none" /\ ~inside
  /\ KeepUp
  /\ inside' = TRUE /\ touched' = TRUE /\ hovered' = TRUE
  /\ toMain' = Append(toMain, "enter")
  /\ IF IsAuto(notice) THEN remaining' = timer.in /\ timer' = NoTimer
                       ELSE UNCHANGED <<remaining, timer>>
  /\ UNCHANGED <<sessionVars, windowVars, notice, faceVars, toRenderer>>

(* setPanelInteractive(false): what was left, but at least the floor.  A    *)
(* window that hides under the pointer may still report it leaving.         *)
Resumed(left) == Later(left, Floor)

PointerLeaves ==
  /\ inside
  /\ KeepUp
  /\ inside' = FALSE /\ touched' = TRUE /\ hovered' = FALSE
  /\ toMain' = Append(toMain, "leave")
  /\ IF IsAuto(notice) /\ remaining # NoTime
     THEN /\ timer' = [in |-> Resumed(remaining), id |-> notice.id]
          /\ remaining' = NoTime
     ELSE UNCHANGED <<remaining, timer>>
  /\ UNCHANGED <<sessionVars, windowVars, notice, faceVars, toRenderer>>

(* dismissPanel: the exit now, and main is told.                            *)
DismissPanel ==
  /\ hovered' = FALSE
  /\ timer' = [in |-> ExitTime, id |-> notice.id]
  /\ toMain' = Append(toMain, "dismissed")

(* A click that the window lets through to the panel: on the strip, or on   *)
(* its button, whose action (copy, open settings) is carried out too.       *)
PointerClicks ==
  /\ windowShown /\ inside /\ ~clickThrough
  /\ KeepUp
  /\ touched' = TRUE
  /\ DismissPanel
  /\ UNCHANGED <<sessionVars, windowVars, notice, remaining, inside, faceVars, toRenderer>>

-----------------------------------------------------------------------------
(* Time.                                                                   *)

Quiet == toRenderer = <<>> /\ toMain = <<>>
Due == hideIn = 0 \/ timer.in = 0 \/ exitIn = 0 \/ revealQueued
Ticking == hideIn > 0 \/ timer.in > 0 \/ exitIn > 0
Less(t) == IF t = NoTime THEN NoTime ELSE t - 1

Tick ==
  /\ Quiet /\ ~Due /\ Ticking
  /\ hideIn' = Less(hideIn)
  /\ timer' = IF timer.in = NoTime THEN timer ELSE [timer EXCEPT !.in = @ - 1]
  /\ exitIn' = Less(exitIn)
  /\ UNCHANGED <<sessionVars, pausedIn, revealQueued, windowShown, clickThrough, notice,
                 remaining, hovered, touched, inside, exited, bar, toRenderer, toMain>>

Main == RevealFires \/ HideFires \/ HoverArrives \/ LeaveArrives \/ DismissArrives
Session == \/ ChordDismisses \/ StartSession \/ SlowBeat \/ CancelRecording
           \/ \E event \in Endings : SessionEnds(event)
Renderer == \/ EventArrives \/ WillShowArrives \/ WillHideArrives \/ ExitStarts
            \/ DismissFires
User == PointerEnters \/ PointerLeaves \/ PointerClicks

Next == Main \/ Session \/ Renderer \/ User \/ Tick

(* The processes handle what reaches them and time passes; nothing is owed  *)
(* by the user, nor by the session.                                         *)
PanelFairness ==
  /\ WF_panelVars(RevealFires) /\ WF_panelVars(HideFires)
  /\ WF_panelVars(HoverArrives \/ LeaveArrives \/ DismissArrives)
  /\ WF_panelVars(EventArrives \/ WillShowArrives \/ WillHideArrives)
  /\ WF_panelVars(ExitStarts) /\ WF_panelVars(DismissFires)
  /\ WF_panelVars(Tick)

Spec == PanelInit /\ [][Next]_panelVars /\ PanelFairness

-----------------------------------------------------------------------------
(* Properties.                                                             *)

Times == NoTime .. (StickyTime + Margin)
Events == Endings \cup {Started, Slow, Cancelled}

PanelTypeOK ==
  /\ session \in 0 .. MaxSessions
  /\ {live, attention, revealQueued, windowShown, clickThrough, hovered, exited,
      inside, touched} \subseteq BOOLEAN
  /\ {hideIn, pausedIn, remaining, exitIn, timer.in} \subseteq Times
  /\ notice \in {Hidden} \cup {From(s, NoticeFor(e)) : s \in 1 .. MaxSessions, e \in Events}
  /\ bar \in {"idle", "listening", "error", "success"}

(* With nothing in flight, a window the pointer is not on never takes the   *)
(* mouse away from the application behind it (windows.ts: the empty area is *)
(* fully click-through).                                                    *)
ClickThroughRests == Quiet /\ windowShown /\ ~inside => clickThrough

(* With nothing in flight, a hide stays frozen only under the pointer:      *)
(* otherwise nobody is left to resume it and the window stays for ever.     *)
FrozenUnderPointer == Quiet /\ pausedIn # NoTime => inside

(* Once the renderer has handled will-show, a window on screen shows no     *)
(* notice of an earlier session (usePanelNotice.ts:29-31, "can never flash  *)
(* on the next session's reveal"), and never a check mark beside a notice.  *)
ShowsThisSession ==
  /\ windowShown /\ notice.id # "none" =>
       \/ notice.from = session
       \/ \E i \in DOMAIN toRenderer : toRenderer[i].kind = "will-show"
  /\ notice.id # "none" => bar # "success"

(* A notice that goes by itself always has a timer to go by, or the pointer.*)
AutoNoticeIsTimed == IsAuto(notice) /\ ~inside => timer.in # NoTime /\ timer.id = notice.id

PanelInv ==
  /\ PanelTypeOK
  /\ ClickThroughRests
  /\ FrozenUnderPointer
  /\ ShowsThisSession
  /\ AutoNoticeIsTimed
  /\ EndingsAgree

(* The window never goes from under a notice that goes by itself and that   *)
(* the user has not reached for: the renderer owns the dismissal beat and   *)
(* the window hides onto an empty frame (panelState.ts:74-79).              *)
NoBeheading ==
  [][windowShown /\ ~windowShown' /\ IsAuto(notice) => touched]_panelVars

(* With no session in progress the window goes, and a notice that goes by   *)
(* itself goes, unless the pointer rests on it.                             *)
OverlayGoesAway ==
  /\ (~live /\ windowShown) ~> (~windowShown \/ inside \/ live)
  /\ IsAuto(notice) ~> (~IsAuto(notice) \/ inside)

(* The untimed overlay of the other modules is what this one implements.    *)
Overlay == INSTANCE CapsuleOverlay WITH
  showEpoch <- session, hideEpoch <- IF hideIn = NoTime THEN 0 ELSE session,
  pausedHide <- pausedIn # NoTime
ImplementsOverlay == Overlay!OverlaySpec

(* A comment of the code: hovering freezes the hide, so that a notice       *)
(* cannot vanish while it is being read (bootstrap/index.ts:739-740).       *)
HoverKeepsNotice == Quiet /\ inside /\ pausedIn # NoTime => ~exited
=============================================================================
