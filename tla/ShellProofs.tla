----------------------------- MODULE ShellProofs -----------------------------
(***************************************************************************)
(* What CapsulePanel promises, for all times that are in the code's order,  *)
(* any endings, any number of sessions and messages in flight.              *)
(*                                                                         *)
(* The properties speak of what is on screen; why they hold lies in what is *)
(* on its way.  A notice of an earlier session is safe because a will-show  *)
(* follows it; the notice is outlived because an ending arms a hide longer  *)
(* than what the ending, still in flight, will show.  So the invariant is   *)
(* about the messages, and about what a will-show behind them wipes out.    *)
(*                                                                         *)
(* The second half is what AppLife promises of the windows, the Dock        *)
(* and the profile, for any displays that do not overlap, any cursors and   *)
(* frames, profiles and hotkeys, and any number of the user's acts.  The    *)
(* two parts share no state: the first is about the capsule's window, the   *)
(* second about the process and the window beside it.                       *)
(***************************************************************************)
EXTENDS CapsulePanel, AppLife, SequenceTheorems, WellFoundedInduction, TLAPS

-----------------------------------------------------------------------------
(* The inductive invariant.                                                 *)

Directions == {"enter", "leave", "dismissed"}
Messages == [kind : {"will-show", "will-hide", "event"}, event : Events,
             from : 0 .. MaxSessions, in : Times]
Notices == {Hidden} \cup {From(s, NoticeFor(e)) : s \in 1 .. MaxSessions, e \in Events}
Ids == {n.id : n \in Notices}

(* What travels, and the timer's record.                                    *)
Sound(message) ==
  /\ message.kind = "event" => message.from > 0
  /\ message.kind = "will-hide" => message.in # NoTime
Wired ==
  /\ toRenderer \in Seq(Messages) /\ toMain \in Seq(Directions)
  /\ \A i \in DOMAIN toRenderer : Sound(toRenderer[i])
  /\ timer \in [in : Times, id : Ids]

(* A hide is armed or frozen only after a session began, and not while it   *)
(* is going on.                                                             *)
HideHasSession ==
  /\ Lingering => session > 0
  /\ live => session > 0 /\ ~Lingering

(* A pointer that is not on the notice has left, or its leaving is the last *)
(* thing main will hear.                                                    *)
PointerReturns ==
  inside \/ IF toMain = <<>> THEN clickThrough /\ pausedIn = NoTime
                             ELSE toMain[Len(toMain)] # "enter"

Armed == timer.in # NoTime /\ timer.id = notice.id
NoticeTimed == IsAuto(notice) => Armed \/ (inside /\ remaining # NoTime)

(* A will-show is on its way between the i-th and the k-th message; after   *)
(* the i-th.  The 0-th is what the renderer has handled.                    *)
ShowBetween(i, k) == \E j \in (i + 1) .. (k - 1) : toRenderer[j].kind = "will-show"
ShowAfter(i) == ShowBetween(i, Len(toRenderer) + 1)
Outlived(time) == (hideIn # NoTime => hideIn > time) /\ (pausedIn # NoTime => pausedIn > time)
IsEvent(i) == toRenderer[i].kind = "event"
Telling(i) == toRenderer[i].event
Ends(event) == event \notin {Started, Slow}

(* The notice, and an event no will-show will wipe out, are this session's; *)
(* and the window stays longer than what the event will show.               *)
InOrder ==
  /\ notice.id # "none" => notice.from = session \/ ShowAfter(0)
  /\ live /\ IsAuto(notice) => ShowAfter(0)
  /\ \A i \in DOMAIN toRenderer : IsEvent(i) /\ ~ShowAfter(i) =>
       /\ toRenderer[i].from = session
       /\ live => ~Ends(Telling(i))
       /\ ~touched /\ IsAuto(NoticeFor(Telling(i))) =>
            Outlived(NoticeFor(Telling(i)).duration + ExitTime)

(* A beat of the k-th message, or the next one, meets no check mark: a      *)
(* will-show comes between it and every ending before it.                   *)
BeatMeetsNoMark(k) ==
  /\ bar = "success" => ShowBetween(0, k)
  /\ \A i \in 1 .. (k - 1) : IsEvent(i) /\ Ends(Telling(i)) => ShowBetween(i, k)
FaceInOrder ==
  /\ notice.id # "none" => bar # "success"
  /\ live => BeatMeetsNoMark(Len(toRenderer) + 1)
  /\ \A k \in DOMAIN toRenderer : IsEvent(k) /\ Telling(k) = Slow => BeatMeetsNoMark(k)

(* The window outlives an automatic notice the user has not reached for.    *)
Outlives ==
  ~touched =>
    /\ IsAuto(notice) /\ ~ShowAfter(0) => Armed /\ Outlived(timer.in)
    /\ ShowAfter(0) => hideIn # 0

IInv ==
  /\ PanelTypeOK /\ Wired /\ HideHasSession /\ PointerReturns /\ NoticeTimed
  /\ InOrder /\ FaceInOrder /\ Outlives

-----------------------------------------------------------------------------
(* What the proofs use of the times.                                        *)
LEMMA TimesInOrder ==
  /\ {AutoTime, ErrorTime, StickyTime, Margin, ExitTime, ShortLinger, Floor, HideDelay} \subseteq Int
  /\ 0 < ExitTime /\ ExitTime < HideDelay /\ HideDelay <= Margin /\ Margin < Floor
  /\ Floor < AutoTime /\ AutoTime <= ErrorTime /\ ErrorTime < StickyTime
  /\ ExitTime < ShortLinger /\ ShortLinger < AutoTime
BY PanelTimesAssumption, PanelAssumption

(* Every ending is one of these, whatever its reason.                       *)
LEMMA EndingCases ==
  ASSUME NEW e \in TerminalEvents
  PROVE  \/ \E why \in EmptyReasons : e = Ended("completed", why)
         \/ \E why \in Outcomes : e = Ended("completed", why)
         \/ \E code \in ErrorCodes : e = Ended("error", code)
         \/ e = Ended("failed", "no_op")
BY DEF TerminalEvents

LEMMA Told ==
  /\ NoticeFor(Started) = NoNotice /\ NoticeFor(Cancelled) = NoNotice
  /\ NoticeFor(Slow) = SlowNotice
  /\ Started # Slow
  /\ BarState(Started) = "listening" /\ BarState(Cancelled) = "idle"
<1>1. Started # Slow /\ Slow \notin WithoutWords
  BY DEF WithoutWords, Started, Cancelled, Ended, Slow
<1>2. Started \in WithoutWords /\ Cancelled \in WithoutWords
  BY DEF WithoutWords
<1>3. NoticeFor(Started) = NoNotice /\ NoticeFor(Cancelled) = NoNotice
  BY <1>1, <1>2 DEF NoticeFor, Started, Cancelled, Ended, EmptyReasons
<1>4. NoticeFor(Slow) = SlowNotice
  BY <1>1 DEF NoticeFor, Slow, Ended, EmptyReasons
<1>5. BarState(Started) = "listening" /\ BarState(Cancelled) = "idle"
  BY DEF BarState, Started, Cancelled, Ended
<1> QED BY <1>1, <1>3, <1>4, <1>5

LEMMA EndingsTold ==
  ASSUME NEW e \in TerminalEvents
  PROVE  /\ e \notin {Started, Slow, Cancelled}
         /\ \/ NoticeFor(e) = NoNotice
            \/ NoticeFor(e).id # "none" /\ NoticeFor(e).duration \in {0, AutoTime, ErrorTime}
         /\ (NoticeFor(e) = NoNotice) <=> (ExitIntent(e) \in {"success", "cancel"})
         /\ (BarState(e) = "success") <=> (ExitIntent(e) = "success")
         /\ BarState(e) \in {"idle", "error", "success"}
<1> USE TimesInOrder
<1>1. /\ NoNotice.id = "none" /\ NoNotice.duration = 0
      /\ \A id, time : Notice(id, time).id = id /\ Notice(id, time).duration = time
      /\ \A kind, why : Ended(kind, why).kind = kind /\ Ended(kind, why).why = why
  BY DEF NoNotice, Notice, Ended
<1>6. Started.kind = "started" /\ Slow.kind = "slow" /\ Cancelled.kind = "cancelled"
  BY DEF Started, Slow, Cancelled, Ended
<1>7. /\ Ended("completed", "paste_sent").why = "paste_sent" /\ Ended("completed", "no_op").why = "no_op"
      /\ Ended("completed", "paste_sent").kind = "completed" /\ Ended("completed", "no_op").kind = "completed"
  BY DEF Ended
<1>8. ASSUME e.kind # "completed" \/ e.why \notin {"paste_sent", "no_op"},
             e.kind \in {"completed", "error", "failed"}
      PROVE  e \notin WithoutWords
  BY <1>6, <1>7, <1>8 DEF WithoutWords
<1>9. ASSUME e.kind \in {"completed", "error", "failed"}
      PROVE  e \notin {Started, Slow, Cancelled}
  BY <1>6, <1>9
<1>2. CASE \E why \in EmptyReasons : e = Ended("completed", why)
  <2>1. e.kind = "completed" /\ e.why \in EmptyReasons
    BY <1>1, <1>2
  <2>2. e \notin WithoutWords /\ e \notin {Started, Slow, Cancelled}
    BY <2>1, <1>8, <1>9 DEF EmptyReasons
  <2>3. NoticeFor(e) = Notice("empty", AutoTime)
    BY <2>1, <2>2 DEF NoticeFor
  <2>4. ExitIntent(e) = "notice" /\ BarState(e) = "idle"
    BY <2>1, <2>2 DEF ExitIntent, BarState, EmptyReasons
  <2> QED BY <1>1, <2>2, <2>3, <2>4
<1>3. CASE \E why \in Outcomes : e = Ended("completed", why)
  <2>1. e.kind = "completed" /\ e.why \in Outcomes
    BY <1>1, <1>3
  <2>2. e \notin {Started, Slow, Cancelled} /\ e.why \notin EmptyReasons
    BY <2>1, <1>9 DEF EmptyReasons, Outcomes, CopyReasons, Unconfirmed
  <2>3. CASE e.why \in {"paste_sent", "no_op"}
    <3>1. e \in WithoutWords
      BY <1>1, <1>3, <2>3 DEF WithoutWords
    <3>2. NoticeFor(e) = NoNotice
      BY <2>1, <2>2, <3>1 DEF NoticeFor
    <3>3. ExitIntent(e) = "success" /\ BarState(e) = "success"
      BY <2>1, <2>2, <2>3 DEF ExitIntent, BarState
    <3> QED BY <2>2, <3>2, <3>3
  <2>4. CASE e.why \notin {"paste_sent", "no_op"}
    <3>1. e \notin WithoutWords
      BY <2>1, <1>8, <2>4
    <3>2. NoticeFor(e) = OutcomeNotice(e.why)
      BY <2>1, <2>2, <3>1 DEF NoticeFor
    <3>3. OutcomeNotice(e.why).id # "none" /\ OutcomeNotice(e.why).duration \in {AutoTime, ErrorTime}
      BY <1>1, <2>1 DEF OutcomeNotice, Outcomes, CopyReasons, Unconfirmed
    <3>4. ExitIntent(e) \in {"error", "notice"} /\ BarState(e) = "idle"
      BY <2>1, <2>2, <2>4 DEF ExitIntent, BarState
    <3> QED BY <1>1, <2>2, <3>2, <3>3, <3>4
  <2> QED BY <2>3, <2>4
<1>4. CASE \E code \in ErrorCodes : e = Ended("error", code)
  <2>1. e.kind = "error" /\ e.why \in ErrorCodes
    BY <1>1, <1>4
  <2>2. e \notin WithoutWords /\ e \notin {Started, Slow, Cancelled}
    BY <2>1, <1>8, <1>9
  <2>3. NoticeFor(e) = ErrorNotice(e.why)
    BY <2>1, <2>2 DEF NoticeFor, ErrorCodes, EmptyReasons
  <2>4. ErrorNotice(e.why).id # "none" /\ ErrorNotice(e.why).duration \in {0, ErrorTime}
    BY <1>1, <2>1 DEF ErrorNotice, Sticky, ErrorCodes
  <2>5. ExitIntent(e) = "error" /\ BarState(e) = "error"
    BY <2>1, <2>2 DEF ExitIntent, BarState, ErrorCodes
  <2> QED BY <1>1, <2>2, <2>3, <2>4, <2>5
<1>5. CASE e = Ended("failed", "no_op")
  <2>1. e.kind = "failed" /\ e.why = "no_op"
    BY <1>1, <1>5
  <2>2. e \notin WithoutWords /\ e \notin {Started, Slow, Cancelled}
    BY <2>1, <1>8, <1>9
  <2>3. NoticeFor(e) = Notice("failed", ErrorTime)
    BY <2>1, <2>2 DEF NoticeFor, EmptyReasons
  <2>4. ExitIntent(e) = "error" /\ BarState(e) = "error"
    BY <2>1, <2>2 DEF ExitIntent, BarState
  <2> QED BY <1>1, <2>2, <2>3, <2>4
<1> QED BY <1>2, <1>3, <1>4, <1>5, EndingCases

LEMMA LingersLonger ==
  ASSUME NEW e \in TerminalEvents \cup {Cancelled}
  PROVE  /\ HideLinger(e) \in Int
         /\ HideLinger(e) > NoticeFor(e).duration + ExitTime
         /\ HideLinger(e) <= StickyTime + Margin
         /\ NoticeFor(e).duration \in {0, AutoTime, ErrorTime}
         /\ e = Cancelled => HideLinger(e) = ShortLinger
<1>1. \/ NoticeFor(e) = NoNotice /\ NoNotice.duration = 0
      \/ NoticeFor(e) # NoNotice /\ NoticeFor(e).duration \in {0, AutoTime, ErrorTime}
  <2>1. NoNotice.id = "none" /\ NoNotice.duration = 0
    BY DEF NoNotice, Notice
  <2> QED BY <2>1, EndingsTold, Told
<1> QED BY <1>1, Told, TimesInOrder DEF HideLinger, PastTheNotice, IsAuto

(* A notice if and only if the exit is not a success or a cancel, the check *)
(* mark only without one, and a window that outlives what it shows: the     *)
(* four functions agree about every ending the code has, for all times.     *)
THEOREM EndingsAlwaysAgree == EndingsAgree
<1> SUFFICES ASSUME NEW e \in TerminalEvents \cup {Cancelled}
    PROVE /\ (NoticeFor(e) = NoNotice) <=> (ExitIntent(e) \in {"success", "cancel"})
          /\ (BarState(e) = "success") <=> (ExitIntent(e) = "success")
          /\ HideLinger(e) > NoticeFor(e).duration + ExitTime
  BY DEF EndingsAgree
<1>1. CASE e \in TerminalEvents
  BY <1>1, EndingsTold, LingersLonger
<1>2. CASE e = Cancelled
  <2>1. Cancelled.kind = "cancelled" /\ Cancelled.why = "no_op"
    BY DEF Cancelled, Ended
  <2>2. ExitIntent(Cancelled) = "cancel"
    BY <2>1 DEF ExitIntent
  <2> QED BY <1>2, <2>2, Told, LingersLonger
<1> QED BY <1>1, <1>2

-----------------------------------------------------------------------------
(* What a notice may be.                                                    *)
LEMMA EventsTold ==
  ASSUME NEW e \in Events
  PROVE  /\ \/ NoticeFor(e).id = "none" /\ NoticeFor(e).duration = 0
            \/ NoticeFor(e).id # "none" /\ NoticeFor(e).duration \in {0, AutoTime, ErrorTime}
         /\ IsAuto(NoticeFor(e)) => Ends(e)
         /\ NoticeFor(e).id # "none" /\ e # Slow => BarState(e) # "success"
         /\ e # Slow => BarState(e) \in {"idle", "listening", "error", "success"}
         /\ BarState(e) = "success" => Ends(e)
         /\ NoticeFor(Slow).id # "none" /\ ~IsAuto(NoticeFor(Slow))
<1>1. NoNotice.id = "none" /\ NoNotice.duration = 0
      /\ SlowNotice.id = "slow" /\ SlowNotice.duration = 0
  BY DEF NoNotice, SlowNotice, Sticky, Notice
<1>2. CASE e \in Endings
  <2>1. e \in TerminalEvents
    BY <1>2, PanelAssumption
  <2>2. Ends(e) /\ e # Slow
    BY <2>1, EndingsTold DEF Ends
  <2>3. /\ \/ NoticeFor(e) = NoNotice
           \/ NoticeFor(e).id # "none" /\ NoticeFor(e).duration \in {0, AutoTime, ErrorTime}
        /\ BarState(e) = "success" => NoticeFor(e) = NoNotice
        /\ BarState(e) \in {"idle", "error", "success"}
    BY <2>1, EndingsTold
  <2>4. ~IsAuto(NoticeFor(Slow)) /\ NoticeFor(Slow).id # "none"
    BY <1>1, Told DEF IsAuto
  <2> QED BY <1>1, <2>2, <2>3, <2>4
<1>3. CASE e \in {Started, Cancelled, Slow}
  <2>1. BarState(Slow) # "success"
    BY DEF BarState, Slow, Started, Ended
  <2>2. e = Slow \/ (NoticeFor(e) = NoNotice /\ BarState(e) \in {"idle", "listening"})
    BY <1>3, Told
  <2>3. ~IsAuto(NoNotice) /\ ~IsAuto(SlowNotice)
    BY <1>1 DEF IsAuto
  <2> QED BY <1>1, <1>3, <2>1, <2>2, <2>3, Told
<1> QED BY <1>2, <1>3 DEF Events

LEMMA NoticeTypes ==
  ASSUME NEW n \in Notices
  PROVE  /\ n.duration \in {0, AutoTime, ErrorTime} /\ n.id \in Ids
         /\ n.id = "none" => ~IsAuto(n)
<1>1. Hidden.duration = 0
  BY DEF Hidden, From, NoNotice, Notice
<1> QED BY <1>1, EventsTold DEF Notices, From, Ids, IsAuto

LEMMA HiddenType == Hidden \in Notices /\ Hidden.id = "none" /\ ~IsAuto(Hidden)
BY DEF Notices, Hidden, From, NoNotice, Notice, IsAuto

LEMMA TimesAreInts ==
  /\ NoTime = -1 /\ Times \subseteq Int /\ NoTime \in Times /\ 0 \in Times
  /\ {Floor, HideDelay, ShortLinger, ExitTime} \subseteq Times \ {NoTime}
  /\ \A d \in {0, AutoTime, ErrorTime} : d + ExitTime \in Times \ {NoTime}
  /\ \A t \in Times : t # NoTime => t >= 0
  /\ \A t, u \in Times : 0 <= t /\ t <= u => t \in Times
BY TimesInOrder DEF Times, NoTime

-----------------------------------------------------------------------------
(* What the renderer handles, and what it is told.                          *)
LEMMA HandlingShifts ==
  ASSUME Wired, toRenderer # <<>>, toRenderer' = Tail(toRenderer)
  PROVE  /\ Len(toRenderer) \in Nat \ {0} /\ DOMAIN toRenderer = 1 .. Len(toRenderer)
         /\ Head(toRenderer) = toRenderer[1] /\ toRenderer[1] \in Messages
         /\ toRenderer' \in Seq(Messages)
         /\ Len(toRenderer') = Len(toRenderer) - 1
         /\ DOMAIN toRenderer' = 1 .. (Len(toRenderer) - 1)
         /\ \A i \in 1 .. (Len(toRenderer) - 1) : toRenderer'[i] = toRenderer[i + 1]
         /\ \A i \in Nat, k \in 1 .. Len(toRenderer) : ShowBetween(i, k)' <=> ShowBetween(i + 1, k + 1)
         /\ ~(toRenderer[1].kind = "will-show") =>
              \A k \in 1 .. (Len(toRenderer) + 1) : ShowBetween(0, k) <=> ShowBetween(1, k)
<1>1. /\ Len(toRenderer) \in Nat \ {0} /\ DOMAIN toRenderer = 1 .. Len(toRenderer)
      /\ Head(toRenderer) = toRenderer[1] /\ toRenderer[1] \in Messages
      /\ toRenderer' \in Seq(Messages)
      /\ Len(toRenderer') = Len(toRenderer) - 1
      /\ DOMAIN toRenderer' = 1 .. (Len(toRenderer) - 1)
      /\ \A i \in 1 .. (Len(toRenderer) - 1) : toRenderer'[i] = toRenderer[i + 1]
  BY DEF Wired
<1>2. ASSUME NEW i \in Nat, NEW k \in 1 .. Len(toRenderer)
      PROVE  ShowBetween(i, k)' <=> ShowBetween(i + 1, k + 1)
  <2>1. ASSUME NEW j \in (i + 1) .. (k - 1), toRenderer'[j].kind = "will-show"
        PROVE  ShowBetween(i + 1, k + 1)
    <3>1. j + 1 \in ((i + 1) + 1) .. ((k + 1) - 1) /\ toRenderer'[j] = toRenderer[j + 1]
      BY <1>1
    <3>2. toRenderer[j + 1].kind = "will-show"
      BY <2>1, <3>1
    <3> QED BY <3>1, <3>2 DEF ShowBetween
  <2>2. ASSUME NEW j \in ((i + 1) + 1) .. ((k + 1) - 1), toRenderer[j].kind = "will-show"
        PROVE  ShowBetween(i, k)'
    <3>1. j - 1 \in (i + 1) .. (k - 1) /\ toRenderer'[j - 1] = toRenderer[(j - 1) + 1]
      BY <1>1
    <3>2. (j - 1) + 1 = j
      OBVIOUS
    <3>3. toRenderer'[j - 1].kind = "will-show"
      BY <2>2, <3>1, <3>2
    <3> QED BY <3>1, <3>3 DEF ShowBetween
  <2> QED BY <2>1, <2>2 DEF ShowBetween
<1>3. ASSUME ~(toRenderer[1].kind = "will-show"), NEW k \in 1 .. (Len(toRenderer) + 1)
      PROVE  ShowBetween(0, k) <=> ShowBetween(1, k)
  BY <1>1, <1>3 DEF ShowBetween
<1> QED BY <1>1, <1>2, <1>3

-----------------------------------------------------------------------------
LEMMA InvInit == PanelInit => IInv
<1> SUFFICES ASSUME PanelInit PROVE IInv
  OBVIOUS
<1>1. {live, attention, revealQueued, windowShown, clickThrough, hovered, exited,
       inside, touched} \subseteq BOOLEAN /\ clickThrough /\ ~live
  BY DEF PanelInit
<1>2. PanelTypeOK
  <2>1. 0 \in 0 .. MaxSessions
    BY PanelAssumption
  <2> QED BY <1>1, <2>1, TimesAreInts DEF PanelInit, PanelTypeOK, NoTimer
<1>3. Wired
  BY TimesAreInts, HiddenType DEF PanelInit, Wired, NoTimer, Ids, Hidden, From, NoNotice, Notice
<1>4. HideHasSession /\ PointerReturns /\ NoticeTimed
  BY <1>1, HiddenType DEF PanelInit, HideHasSession, Lingering, PointerReturns, NoticeTimed
<1>5. InOrder /\ FaceInOrder /\ Outlives
  BY <1>1, HiddenType DEF PanelInit, InOrder, FaceInOrder, Outlives, ShowAfter, ShowBetween
<1> QED BY <1>2, <1>3, <1>4, <1>5 DEF IInv

(* What the steps of the renderer do to the notice.                         *)
LEMMA NoticeSteps ==
  ASSUME PanelTypeOK, Wired, EventArrives \/ WillShowArrives \/ DismissFires
  PROVE  /\ notice' \in Notices /\ inside' \in BOOLEAN
         /\ toMain' \in Seq(Directions) /\ timer' \in [in : Times, id : Ids]
         /\ \/ inside' = inside /\ toMain' = toMain
            \/ toMain' = Append(toMain, "leave")
<1> USE DEF PanelTypeOK, Wired, Notices
<1>1. ASSUME NEW n \in Notices, ChangeNotice(n)
      PROVE  /\ notice' \in Notices /\ inside' \in BOOLEAN /\ toMain' \in Seq(Directions)
             /\ \/ inside' = inside /\ toMain' = toMain
                \/ toMain' = Append(toMain, "leave")
  <2>1. toMain' = IF SameUnderPointer(n) THEN toMain ELSE Append(toMain, "leave")
    BY <1>1 DEF ChangeNotice
  <2>2. notice' = n /\ inside' = (inside /\ n.id # "none")
    BY <1>1 DEF ChangeNotice
  <2>3. SameUnderPointer(n) => n.id # "none"
    BY DEF SameUnderPointer
  <2>4. inside \in BOOLEAN
    BY DEF PanelTypeOK
  <2> DEFINE stays == inside /\ n.id # "none"
  <2>5. inside' = stays /\ stays \in BOOLEAN /\ (stays <=> inside /\ n.id # "none")
    BY <1>1 DEF ChangeNotice
  <2> HIDE DEF stays
  <2>6. inside' \in BOOLEAN
    BY <2>5
  <2>7. SameUnderPointer(n) => inside' = inside
    BY <2>3, <2>4, <2>5
  <2> QED BY <2>1, <2>2, <2>6, <2>7, <1>1 DEF Directions
<1>2. ASSUME NEW t \in [in : Times, id : Ids], Clear(t)
      PROVE  /\ notice' \in Notices /\ inside' \in BOOLEAN /\ toMain' \in Seq(Directions)
             /\ timer' \in [in : Times, id : Ids]
             /\ \/ inside' = inside /\ toMain' = toMain
                \/ toMain' = Append(toMain, "leave")
  BY <1>1, <1>2, HiddenType DEF Clear
<1>3. NoTimer \in [in : Times, id : Ids]
  BY TimesAreInts, HiddenType, NoticeTypes DEF NoTimer, Ids
<1>4. ASSUME NEW n \in Notices PROVE DismissTimer(n) \in [in : Times, id : Ids]
  <2>1. /\ IsAuto(n) => DismissTimer(n) = [in |-> n.duration + ExitTime, id |-> n.id]
        /\ ~IsAuto(n) => DismissTimer(n) \in {NoTimer, timer}
    BY DEF DismissTimer
  <2>2. n.duration + ExitTime \in Times /\ n.id \in Ids
    BY NoticeTypes, TimesAreInts
  <2> QED BY <1>3, <2>1, <2>2
<1>5. CASE EventArrives
  <2>1. toRenderer[1] \in Messages /\ Head(toRenderer) = toRenderer[1] /\ toRenderer[1].from > 0
    BY <1>5 DEF EventArrives, Sound
  <2> DEFINE pushed == From(toRenderer[1].from, NoticeFor(toRenderer[1].event))
  <2>2. pushed \in Notices
    BY <2>1 DEF Messages
  <2>3. IF pushed.id = "none" THEN Clear(DismissTimer(Hidden)) ELSE Push(pushed)
    BY <1>5, <2>1 DEF EventArrives
  <2> QED BY <2>2, <2>3, <1>1, <1>2, <1>4, HiddenType DEF Push
<1>6. CASE WillShowArrives
  BY <1>6, <1>2, <1>3 DEF WillShowArrives, ClearPanel
<1>7. CASE DismissFires
  BY <1>7, <1>1, <1>3, HiddenType DEF DismissFires
<1> QED BY <1>5, <1>6, <1>7

LEMMA MessageTypes ==
  /\ \A t \in Times : Hides(t) \in Messages
  /\ \A s \in 0 .. MaxSessions : Shown(s) \in Messages
  /\ \A s \in 0 .. MaxSessions, e \in Events : Emits(e, s) \in Messages
<1>1. Started \in Events /\ 0 \in Times /\ 0 \in 0 .. MaxSessions
  BY TimesAreInts, PanelAssumption DEF Events
<1> QED BY <1>1 DEF Hides, Shown, Emits, Messages

(* Main shortens or resumes a hide, and says so.                            *)
LEMMA HideSteps ==
  ASSUME PanelTypeOK, Wired, HideHasSession, Expedite \/ ResumeHide
  PROVE  /\ hideIn' \in Times /\ pausedIn' = NoTime /\ toRenderer' \in Seq(Messages)
         /\ Lingering' <=> Lingering
         /\ \/ UNCHANGED <<hideIn, pausedIn, toRenderer>>
            \/ hideIn' \in Times \ {NoTime} /\ Tell(<<Hides(hideIn')>>)
         /\ ResumeHide => \/ UNCHANGED <<hideIn, pausedIn>>
                          \/ hideIn' >= pausedIn /\ hideIn' > 0 /\ pausedIn # NoTime
<1> USE DEF PanelTypeOK, Lingering
<1>1. toRenderer \in Seq(Messages)
  BY DEF Wired
<1>2. ASSUME NEW t \in Times, Tell(<<Hides(t)>>) PROVE toRenderer' \in Seq(Messages)
  <2>1. <<Hides(t)>> \in Seq(Messages)
    BY MessageTypes
  <2> QED BY <1>1, <1>2, <2>1 DEF Tell
<1>3. ASSUME Expedite, Lingering
      PROVE  hideIn' \in Times \ {NoTime} /\ pausedIn' = NoTime /\ Tell(<<Hides(hideIn')>>)
  BY <1>3, TimesAreInts DEF Expedite, Earlier
<1>4. ASSUME ResumeHide, pausedIn # NoTime
      PROVE  /\ hideIn' \in Times \ {NoTime} /\ pausedIn' = NoTime /\ Tell(<<Hides(hideIn')>>)
             /\ hideIn' >= pausedIn /\ hideIn' > 0
  <2>1. pausedIn \in Times /\ Floor \in Times \ {NoTime} /\ Times \subseteq Int /\ Floor > 0
    BY TimesAreInts, TimesInOrder
  <2>2. hideIn' = Later(pausedIn, Floor) /\ pausedIn' = NoTime /\ Tell(<<Hides(hideIn')>>)
    BY <1>4 DEF ResumeHide
  <2>3. hideIn' \in {pausedIn, Floor} /\ hideIn' >= pausedIn /\ hideIn' >= Floor
    BY <2>1, <2>2 DEF Later
  <2> QED BY <1>4, <2>1, <2>2, <2>3
<1>5. Expedite /\ ~Lingering => UNCHANGED <<hideIn, pausedIn, toRenderer>>
  BY DEF Expedite
<1>6. ResumeHide /\ pausedIn = NoTime => UNCHANGED <<hideIn, pausedIn, toRenderer>>
  BY DEF ResumeHide
<1> QED BY <1>1, <1>2, <1>3, <1>4, <1>5, <1>6

-----------------------------------------------------------------------------
(* The types, one step per action.                                          *)
LEMMA WireTells ==
  ASSUME Wired, NEW a \in Messages, NEW b \in Messages, Sound(a), Sound(b),
         Tell(<<a>>) \/ Tell(<<a, b>>),
         toMain' \in Seq(Directions), timer' \in [in : Times, id : Ids]
  PROVE  Wired'
<1>1. /\ toRenderer' \in Seq(Messages)
      /\ \A i \in DOMAIN toRenderer' :
           \/ i \in DOMAIN toRenderer /\ toRenderer'[i] = toRenderer[i]
           \/ toRenderer'[i] \in {a, b}
  <2>1. CASE Tell(<<a>>)
    BY <2>1 DEF Tell, Wired
  <2>2. CASE Tell(<<a, b>>)
    BY <2>2 DEF Tell, Wired
  <2> QED BY <2>1, <2>2
<1> QED BY <1>1 DEF Wired, Sound

LEMMA WireHandles ==
  ASSUME Wired, toRenderer # <<>>, toRenderer' = Tail(toRenderer),
         toMain' \in Seq(Directions), timer' \in [in : Times, id : Ids]
  PROVE  Wired'
BY HandlingShifts DEF Wired, Sound

LEMMA WireStays ==
  ASSUME Wired, toRenderer' = toRenderer,
         toMain' \in Seq(Directions), timer' \in [in : Times, id : Ids]
  PROVE  Wired'
BY DEF Wired

LEMMA EndingTimes ==
  /\ Endings \subseteq TerminalEvents /\ Endings \subseteq Events /\ Cancelled \in Events
  /\ ShortLinger \in Times \ {NoTime} /\ HideLinger(Cancelled) = ShortLinger
  /\ \A e \in TerminalEvents : HideLinger(e) \in Times \ {NoTime}
<1>1. \A e \in TerminalEvents :
        /\ HideLinger(e) \in Int /\ HideLinger(e) <= StickyTime + Margin
        /\ HideLinger(e) > NoticeFor(e).duration + ExitTime
        /\ NoticeFor(e).duration \in {0, AutoTime, ErrorTime}
  BY LingersLonger
<1>2. \A e \in TerminalEvents : HideLinger(e) \in Times \ {NoTime}
  BY <1>1, TimesInOrder DEF Times, NoTime
<1> QED BY <1>2, PanelAssumption, TimesAreInts, LingersLonger DEF Events

LEMMA WireStep ==
  ASSUME PanelTypeOK, Wired, HideHasSession, [Next]_panelVars
  PROVE  Wired'
<1>0. timer \in [in : Times, id : Ids] /\ toMain \in Seq(Directions) /\ notice \in Notices
      /\ session \in 0 .. MaxSessions
  BY DEF PanelTypeOK, Wired, Notices
<1>1. CASE UNCHANGED <<toRenderer, toMain, timer>>
  BY <1>0, <1>1, WireStays
<1>2. CASE HoverArrives
  BY <1>0, <1>2, WireStays DEF HoverArrives, noticeVars
<1>3. ASSUME Expedite \/ ResumeHide, toMain' \in Seq(Directions), UNCHANGED timer PROVE Wired'
  <2>1. CASE UNCHANGED toRenderer
    BY <1>0, <1>3, <2>1, WireStays
  <2>2. ASSUME hideIn' \in Times \ {NoTime}, Tell(<<Hides(hideIn')>>) PROVE Wired'
    <3>1. Hides(hideIn') \in Messages /\ Sound(Hides(hideIn'))
      BY <2>2, MessageTypes DEF Hides, Sound
    <3> QED BY <1>0, <1>3, <2>2, <3>1, WireTells
  <2> QED BY <1>3, <2>1, <2>2, HideSteps
<1>4. CASE LeaveArrives \/ DismissArrives \/ ChordDismisses
  <2>1. Expedite \/ ResumeHide
    BY <1>4 DEF LeaveArrives, DismissArrives, ChordDismisses
  <2>2. toMain' \in Seq(Directions) /\ UNCHANGED timer
    BY <1>0, <1>4 DEF LeaveArrives, DismissArrives, ChordDismisses, noticeVars
  <2> QED BY <1>3, <2>1, <2>2
<1>5. CASE StartSession
  <2>1. session' = session + 1 /\ session < MaxSessions /\ UNCHANGED <<toMain, timer>>
    BY <1>5 DEF StartSession, noticeVars
  <2>2. session' \in 1 .. MaxSessions
    BY <1>0, <2>1, PanelAssumption
  <2>3. /\ Shown(session') \in Messages /\ Sound(Shown(session'))
        /\ Emits(Started, session') \in Messages /\ Sound(Emits(Started, session'))
    BY <2>2, MessageTypes DEF Events, Shown, Emits, Sound
  <2>4. Tell(<<Shown(session'), Emits(Started, session')>>)
    BY <1>5 DEF StartSession
  <2> QED BY <1>0, <2>1, <2>3, <2>4, WireTells
<1>6. CASE SlowBeat
  <2>1. session > 0 /\ Tell(<<Emits(Slow, session)>>) /\ UNCHANGED <<toMain, timer>>
    BY <1>6 DEF SlowBeat, noticeVars, HideHasSession
  <2>2. Emits(Slow, session) \in Messages /\ Sound(Emits(Slow, session))
    BY <1>0, <2>1, MessageTypes DEF Events, Emits, Sound
  <2> QED BY <1>0, <2>1, <2>2, WireTells
<1>7. ASSUME NEW e \in Events, NEW t \in Times \ {NoTime}, EndSession(e, t)
      PROVE  Wired'
  <2>1. session > 0 /\ Tell(<<Emits(e, session), Hides(t)>>) /\ UNCHANGED <<toMain, timer>>
    BY <1>7 DEF EndSession, HideHasSession
  <2>2. /\ Emits(e, session) \in Messages /\ Sound(Emits(e, session))
        /\ Hides(t) \in Messages /\ Sound(Hides(t))
    BY <1>0, <2>1, MessageTypes DEF Emits, Hides, Sound
  <2> QED BY <1>0, <2>1, <2>2, WireTells
<1>8. CASE CancelRecording \/ \E e \in Endings : SessionEnds(e)
  BY <1>7, <1>8, EndingTimes DEF CancelRecording, SessionEnds
<1>9. CASE EventArrives \/ WillShowArrives
  BY <1>9, NoticeSteps, WireHandles DEF EventArrives, WillShowArrives
<1>10. CASE WillHideArrives
  BY <1>0, <1>10, WireHandles DEF WillHideArrives, noticeVars
<1>11. CASE DismissFires
  BY <1>11, NoticeSteps, WireStays DEF DismissFires
<1>12. CASE PointerEnters \/ PointerLeaves \/ PointerClicks
  <2>1. notice.id \in Ids /\ remaining \in Times
    BY <1>0, NoticeTypes DEF PanelTypeOK
  <2>2. NoTimer \in [in : Times, id : Ids]
    BY TimesAreInts, HiddenType, NoticeTypes DEF NoTimer, Ids
  <2>3. Resumed(remaining) \in Times
    BY <2>1, TimesAreInts DEF Resumed, Later
  <2>4. [in |-> ExitTime, id |-> notice.id] \in [in : Times, id : Ids]
        /\ [in |-> Resumed(remaining), id |-> notice.id] \in [in : Times, id : Ids]
    BY <2>1, <2>3, TimesAreInts
  <2>5. timer' \in [in : Times, id : Ids]
    BY <1>0, <1>12, <2>2, <2>4 DEF PointerEnters, PointerLeaves, PointerClicks, DismissPanel
  <2>6. toMain' \in Seq(Directions) /\ UNCHANGED toRenderer
    BY <1>0, <1>12 DEF PointerEnters, PointerLeaves, PointerClicks, DismissPanel, Directions
  <2> QED BY <2>5, <2>6, WireStays
<1>13. CASE Tick
  <2>1. UNCHANGED <<toRenderer, toMain>> /\ timer.in # 0
    BY <1>13 DEF Tick, Due
  <2>2. timer' \in [in : Times, id : Ids]
    <3>1. CASE timer.in = NoTime
      BY <1>0, <1>13, <3>1 DEF Tick
    <3>2. CASE timer.in # NoTime
      <4>1. timer' = [timer EXCEPT !.in = @ - 1]
        BY <1>13, <3>2 DEF Tick
      <4>2. timer.in - 1 \in Times
        BY <1>0, <2>1, <3>2, TimesInOrder DEF Times, NoTime
      <4> QED BY <1>0, <4>1, <4>2
    <3> QED BY <3>1, <3>2
  <2> QED BY <1>0, <2>1, <2>2, WireStays
<1> QED
  BY <1>1, <1>2, <1>4, <1>5, <1>6, <1>8, <1>9, <1>10, <1>11, <1>12, <1>13
  DEF Next, Main, Session, Renderer, User, RevealFires, HideFires, ExitStarts,
      panelVars, noticeVars

LEMMA TypeStep ==
  ASSUME PanelTypeOK, Wired, HideHasSession, [Next]_panelVars
  PROVE  PanelTypeOK'
<1> USE DEF PanelTypeOK
<1>0. /\ session \in 0 .. MaxSessions /\ notice \in Notices
      /\ live \in BOOLEAN /\ attention \in BOOLEAN /\ revealQueued \in BOOLEAN
      /\ windowShown \in BOOLEAN /\ clickThrough \in BOOLEAN /\ hovered \in BOOLEAN
      /\ exited \in BOOLEAN /\ inside \in BOOLEAN /\ touched \in BOOLEAN
      /\ hideIn \in Times /\ pausedIn \in Times /\ remaining \in Times /\ exitIn \in Times
      /\ bar \in {"idle", "listening", "error", "success"}
  BY DEF Notices
<1>1. timer.in \in Times /\ timer'.in \in Times
  BY WireStep DEF Wired
<1>2. ASSUME UNCHANGED sessionVars PROVE session' \in 0 .. MaxSessions /\ live' \in BOOLEAN /\ attention' \in BOOLEAN
  BY <1>0, <1>2 DEF sessionVars
<1>3. ASSUME UNCHANGED windowVars
      PROVE  /\ hideIn' \in Times /\ pausedIn' \in Times /\ revealQueued' \in BOOLEAN
             /\ windowShown' \in BOOLEAN /\ clickThrough' \in BOOLEAN
  BY <1>0, <1>3 DEF windowVars
<1>4. ASSUME UNCHANGED noticeVars
      PROVE  /\ notice' \in Notices /\ remaining' \in Times /\ hovered' \in BOOLEAN
             /\ touched' \in BOOLEAN /\ inside' \in BOOLEAN
  BY <1>0, <1>4 DEF noticeVars
<1>5. ASSUME UNCHANGED faceVars
      PROVE  exitIn' \in Times /\ exited' \in BOOLEAN /\ bar' \in {"idle", "listening", "error", "success"}
  BY <1>0, <1>5 DEF faceVars
<1>6. SUFFICES
        /\ session' \in 0 .. MaxSessions /\ live' \in BOOLEAN /\ attention' \in BOOLEAN
        /\ hideIn' \in Times /\ pausedIn' \in Times /\ revealQueued' \in BOOLEAN
        /\ windowShown' \in BOOLEAN /\ clickThrough' \in BOOLEAN
        /\ notice' \in Notices /\ remaining' \in Times /\ hovered' \in BOOLEAN
        /\ touched' \in BOOLEAN /\ inside' \in BOOLEAN
        /\ exitIn' \in Times /\ exited' \in BOOLEAN /\ bar' \in {"idle", "listening", "error", "success"}
  BY <1>1 DEF Notices
<1> HIDE DEF PanelTypeOK
<1>7. CASE UNCHANGED panelVars
  BY <1>2, <1>3, <1>4, <1>5, <1>7 DEF panelVars
<1>8. CASE RevealFires \/ HideFires \/ HoverArrives
  BY <1>0, <1>2, <1>4, <1>5, <1>8, TimesAreInts DEF RevealFires, HideFires, HoverArrives
<1>9. CASE LeaveArrives
  BY <1>0, <1>2, <1>4, <1>5, <1>9, HideSteps, TimesAreInts DEF LeaveArrives
<1>10. CASE DismissArrives \/ ChordDismisses
  BY <1>0, <1>5, <1>10, HideSteps, TimesAreInts DEF DismissArrives, ChordDismisses
<1>11. CASE StartSession
  <2>1. session + 1 \in 0 .. MaxSessions
    BY <1>0, <1>11, PanelAssumption DEF StartSession
  <2> QED BY <1>0, <1>4, <1>5, <1>11, <2>1, TimesAreInts DEF StartSession, Show
<1>12. CASE SlowBeat
  BY <1>2, <1>3, <1>4, <1>5, <1>12 DEF SlowBeat
<1>13. CASE CancelRecording \/ \E event \in Endings : SessionEnds(event)
  <2>1. PICK e \in Events, t \in Times \ {NoTime} : EndSession(e, t)
    BY <1>13, EndingTimes DEF CancelRecording, SessionEnds
  <2> DEFINE alert == attention \/ e.kind \in {"error", "failed"}
  <2>2. attention' = alert /\ alert \in BOOLEAN
    BY <2>1 DEF EndSession
  <2> HIDE DEF alert
  <2> QED BY <1>0, <1>5, <2>1, <2>2 DEF EndSession
<1>14. CASE EventArrives
  <2>1. bar' \in {"idle", "listening", "error", "success"}
    <3>1. toRenderer[1] \in Messages /\ Head(toRenderer) = toRenderer[1]
      BY <1>14 DEF EventArrives, Wired
    <3>2. toRenderer[1].event \in Events
      BY <3>1 DEF Messages
    <3> QED BY <1>0, <1>14, <3>1, <3>2, EventsTold DEF EventArrives
  <2> QED BY <1>0, <1>2, <1>3, <1>14, <2>1, NoticeSteps DEF EventArrives
<1>15. CASE WillShowArrives
  BY <1>0, <1>2, <1>3, <1>15, NoticeSteps, TimesAreInts DEF WillShowArrives
<1>16. CASE WillHideArrives
  <2>1. ASSUME NEW t \in Times \ {NoTime} PROVE ExitStart(t) \in Times
    <3>1. /\ StickyTime + Margin \in Int /\ ExitTime \in Int /\ 0 < ExitTime
          /\ t \in -1 .. (StickyTime + Margin) /\ t # -1 /\ Times = -1 .. (StickyTime + Margin)
      BY TimesInOrder DEF Times, NoTime
    <3>2. ExitStart(t) = IF t > ExitTime THEN t - ExitTime ELSE 0
      BY DEF ExitStart
    <3> QED BY <3>1, <3>2
  <2>2. Head(toRenderer).in \in Times \ {NoTime}
    <3>1. /\ Head(toRenderer) = toRenderer[1] /\ toRenderer[1] \in Messages
          /\ Sound(toRenderer[1]) /\ toRenderer[1].kind = "will-hide"
      BY <1>16 DEF WillHideArrives, Wired
    <3> QED BY <3>1 DEF Sound, Messages
  <2> QED BY <1>0, <1>2, <1>3, <1>4, <1>16, <2>1, <2>2 DEF WillHideArrives
<1>17. CASE ExitStarts
  BY <1>0, <1>2, <1>3, <1>4, <1>17, TimesAreInts DEF ExitStarts
<1>18. CASE DismissFires
  BY <1>0, <1>2, <1>3, <1>5, <1>18, NoticeSteps DEF DismissFires
<1>19. CASE PointerEnters \/ PointerLeaves \/ PointerClicks
  BY <1>0, <1>1, <1>2, <1>3, <1>5, <1>19, TimesAreInts
  DEF PointerEnters, PointerLeaves, PointerClicks, DismissPanel
<1>20. CASE Tick
  <2>1. ASSUME NEW t \in Times, t # 0 PROVE Less(t) \in Times
    BY <2>1, TimesInOrder DEF Less, Times, NoTime
  <2>2. hideIn # 0 /\ exitIn # 0
    BY <1>20 DEF Tick, Due
  <2> QED BY <1>0, <1>2, <1>20, <2>1, <2>2 DEF Tick
<1> QED
  BY <1>7, <1>8, <1>9, <1>10, <1>11, <1>12, <1>13, <1>14, <1>15, <1>16, <1>17, <1>18,
     <1>19, <1>20
  DEF Next, Main, Session, Renderer, User

(* A new notice that goes by itself is armed, for its time and the exit.    *)
LEMMA NoticeArmed ==
  ASSUME PanelTypeOK, Wired, EventArrives \/ WillShowArrives
  PROVE  /\ \/ ~IsAuto(notice') /\ (WillShowArrives => notice'.id = "none")
            \/ /\ EventArrives /\ Armed'
               /\ notice'.from = toRenderer[1].from
               /\ timer'.in = NoticeFor(toRenderer[1].event).duration + ExitTime
               /\ IsAuto(NoticeFor(toRenderer[1].event))
         /\ notice'.id # "none" =>
              /\ EventArrives /\ notice'.from = toRenderer[1].from
              /\ NoticeFor(toRenderer[1].event).id # "none"
<1>0. notice \in Notices
  BY DEF PanelTypeOK, Notices
<1>1. ASSUME NEW t, Clear(t) PROVE ~IsAuto(notice') /\ notice'.id = "none"
  BY <1>0, <1>1, HiddenType, NoticeTypes DEF Clear, ChangeNotice
<1>2. CASE WillShowArrives
  BY <1>1, <1>2 DEF WillShowArrives, ClearPanel
<1>3. CASE EventArrives
  <2>1. toRenderer[1] \in Messages /\ Head(toRenderer) = toRenderer[1]
    BY <1>3 DEF EventArrives, Wired
  <2> DEFINE told == NoticeFor(toRenderer[1].event)
             pushed == From(toRenderer[1].from, told)
  <2>2. pushed.id = told.id /\ pushed.duration = told.duration /\ pushed.from = toRenderer[1].from
    BY DEF From
  <2>3. IF pushed.id = "none" THEN Clear(DismissTimer(Hidden)) ELSE Push(pushed)
    BY <1>3, <2>1 DEF EventArrives
  <2>4. CASE pushed.id = "none"
    BY <1>1, <1>3, <2>3, <2>4
  <2>6. ~WillShowArrives
    BY <1>3 DEF EventArrives, WillShowArrives
  <2>5. CASE pushed.id # "none"
    <3>1. notice' = pushed /\ timer' = DismissTimer(pushed)
      BY <2>3, <2>5 DEF Push, ChangeNotice
    <3>2. IsAuto(pushed) <=> IsAuto(told)
      BY <2>2 DEF IsAuto
    <3>3. toRenderer[1].event \in Events
      BY <2>1 DEF Messages
    <3>4. told.duration + ExitTime # NoTime
      BY <3>3, EventsTold, TimesAreInts
    <3>5. IsAuto(pushed) => timer' = [in |-> told.duration + ExitTime, id |-> pushed.id]
      BY <2>2, <3>1 DEF DismissTimer
    <3>6. notice'.id = pushed.id /\ notice'.from = toRenderer[1].from
      BY <2>2, <3>1
    <3>7. IsAuto(pushed) => Armed' /\ timer'.in = told.duration + ExitTime
      BY <3>4, <3>5, <3>6 DEF Armed
    <3> QED BY <1>3, <2>2, <2>5, <2>6, <3>1, <3>2, <3>6, <3>7
  <2> QED BY <2>4, <2>5
<1> QED BY <1>2, <1>3

-----------------------------------------------------------------------------
(* The hide belongs to a session, one step per action that moves either.    *)
LEMMA HideStep ==
  ASSUME PanelTypeOK, Wired, HideHasSession, [Next]_panelVars
  PROVE  HideHasSession'
<1> USE DEF HideHasSession
<1>0. session \in Nat /\ hideIn \in Times /\ pausedIn \in Times /\ live \in BOOLEAN
  BY PanelAssumption DEF PanelTypeOK
<1>1. CASE UNCHANGED <<session, live, hideIn, pausedIn>>
  BY <1>1 DEF Lingering
<1>2. CASE HideFires \/ HoverArrives
  BY <1>2 DEF HideFires, HoverArrives, sessionVars, Lingering
<1>3. CASE LeaveArrives \/ DismissArrives \/ ChordDismisses
  <2>1. (Expedite \/ ResumeHide) /\ UNCHANGED <<session, live>>
    BY <1>3 DEF LeaveArrives, DismissArrives, ChordDismisses, sessionVars
  <2> QED BY <2>1, HideSteps
<1>4. CASE StartSession
  BY <1>0, <1>4 DEF StartSession, Show, Lingering
<1>5. CASE CancelRecording \/ \E event \in Endings : SessionEnds(event)
  <2>1. live /\ live' = FALSE /\ session' = session
    BY <1>5 DEF CancelRecording, SessionEnds, EndSession
  <2> QED BY <2>1
<1>6. CASE Tick
  BY <1>6 DEF Tick, Less, sessionVars, Lingering
<1> QED
  BY <1>1, <1>2, <1>3, <1>4, <1>5, <1>6
  DEF Next, Main, Session, Renderer, User, RevealFires, SlowBeat, EventArrives,
      WillShowArrives, WillHideArrives, ExitStarts, DismissFires, PointerEnters,
      PointerLeaves, PointerClicks, panelVars, sessionVars, windowVars

(* The pointer's messages arrive in order, so the last one decides.         *)
LEMMA PointerStep ==
  ASSUME PanelTypeOK, Wired, HideHasSession, PointerReturns, [Next]_panelVars
  PROVE  PointerReturns'
<1> USE DEF PointerReturns
<1>0. toMain \in Seq(Directions)
  BY DEF Wired
<1>1. CASE UNCHANGED <<inside, toMain>> /\ clickThrough' = TRUE /\ pausedIn' = NoTime
  BY <1>1
<1>2. CASE UNCHANGED <<inside, toMain, clickThrough, pausedIn>>
  BY <1>2
<1>3. ASSUME toMain # <<>>, toMain' = Tail(toMain), UNCHANGED inside,
             (clickThrough' /\ pausedIn' = NoTime) \/ Head(toMain) = "enter"
      PROVE  PointerReturns'
  <2>1. CASE Len(toMain) = 1
    BY <1>0, <1>3, <2>1
  <2>2. CASE Len(toMain) # 1
    <3>1. Len(toMain) \in Nat /\ Len(toMain) > 1
      <4>1. toMain # <<>> /\ Len(toMain) # 1
        BY <1>3, <2>2
      <4>2. Len(toMain) \in Nat \ {0}
        BY <1>0, <4>1, EmptySeq, Zenon
      <4> QED BY <4>1, <4>2
    <3>2. toMain' # <<>> /\ toMain'[Len(toMain')] = toMain[Len(toMain)]
      BY <1>0, <1>3, <3>1
    <3> QED BY <1>0, <1>3, <3>1, <3>2
  <2> QED BY <2>1, <2>2
<1>4. ASSUME NEW direction \in {"leave", "dismissed"}, toMain' = Append(toMain, direction)
      PROVE  PointerReturns'
  BY <1>0, <1>4
<1>5. CASE HideFires
  BY <1>5, <1>2 DEF HideFires, noticeVars
<1>6. CASE HoverArrives
  BY <1>3, <1>6 DEF HoverArrives, noticeVars
<1>7. CASE LeaveArrives \/ DismissArrives
  BY <1>3, <1>7, HideSteps DEF LeaveArrives, DismissArrives, noticeVars
<1>8. CASE ChordDismisses
  BY <1>8, HideSteps DEF ChordDismisses
<1>9. CASE StartSession
  BY <1>1, <1>9 DEF StartSession, Show, noticeVars
<1>10. CASE EventArrives \/ WillShowArrives \/ DismissFires
  BY <1>2, <1>4, <1>10, NoticeSteps DEF EventArrives, WillShowArrives, DismissFires, windowVars
<1>11. CASE PointerEnters
  BY <1>11 DEF PointerEnters
<1>12. CASE PointerLeaves \/ PointerClicks
  BY <1>4, <1>12 DEF PointerLeaves, PointerClicks, DismissPanel
<1>13. CASE CancelRecording \/ \E event \in Endings : SessionEnds(event)
  BY <1>2, <1>13 DEF CancelRecording, SessionEnds, EndSession
<1>14. CASE Tick \/ RevealFires \/ SlowBeat \/ WillHideArrives \/ ExitStarts \/ UNCHANGED panelVars
  BY <1>2, <1>14 DEF Tick, RevealFires, SlowBeat, WillHideArrives, ExitStarts, panelVars,
                     windowVars, noticeVars
<1> QED
  BY <1>5, <1>6, <1>7, <1>8, <1>9, <1>10, <1>11, <1>12, <1>13, <1>14
  DEF Next, Main, Session, Renderer, User

(* The clock of a notice that goes by itself.                               *)
LEMMA TimedStep ==
  ASSUME PanelTypeOK, Wired, NoticeTimed, [Next]_panelVars
  PROVE  NoticeTimed'
<1> USE DEF NoticeTimed
<1>0. /\ notice \in Notices /\ remaining \in Times /\ timer \in [in : Times, id : Ids]
      /\ inside \in BOOLEAN
  BY DEF PanelTypeOK, Wired, Notices
<1>1. CASE UNCHANGED <<notice, timer, inside, remaining>>
  BY <1>1 DEF Armed
<1>2. CASE EventArrives \/ WillShowArrives
  BY <1>2, NoticeArmed DEF NoticeTimed
<1>3. CASE DismissFires
  <2>1. CASE timer.id = notice.id
    BY <1>3, <2>1, HiddenType DEF DismissFires, ChangeNotice
  <2>2. CASE timer.id # notice.id
    BY <1>3, <2>2 DEF DismissFires, Armed
  <2> QED BY <2>1, <2>2
<1>4. CASE PointerEnters
  BY <1>4 DEF PointerEnters, Armed
<1>5. CASE PointerLeaves
  <2>1. CASE IsAuto(notice) /\ remaining # NoTime
    <3>1. Resumed(remaining) # NoTime
      BY <1>0, <2>1, TimesAreInts DEF Resumed, Later
    <3> QED BY <1>5, <2>1, <3>1 DEF PointerLeaves, Armed
  <2>2. CASE ~(IsAuto(notice) /\ remaining # NoTime)
    BY <1>5, <2>2 DEF PointerLeaves, Armed
  <2> QED BY <2>1, <2>2
<1>6. CASE PointerClicks
  BY <1>6, TimesAreInts DEF PointerClicks, DismissPanel, Armed
<1>7. CASE Tick
  <2>1. UNCHANGED <<notice, inside, remaining>> /\ timer.in # 0
    BY <1>7 DEF Tick, Due
  <2>2. Armed => Armed'
    <3>1. ASSUME Armed PROVE Armed'
      <4>1. timer' = [timer EXCEPT !.in = @ - 1]
        BY <1>7, <3>1 DEF Tick, Armed
      <4>2. timer.in - 1 # NoTime
        BY <1>0, <2>1, <3>1, TimesAreInts
      <4> QED BY <1>0, <2>1, <3>1, <4>1, <4>2 DEF Armed
    <3> QED BY <3>1
  <2> QED BY <2>1, <2>2
<1> QED
  BY <1>1, <1>2, <1>3, <1>4, <1>5, <1>6, <1>7
  DEF Next, Main, Session, Renderer, User, RevealFires, HideFires, HoverArrives, LeaveArrives,
      DismissArrives, ChordDismisses, StartSession, SlowBeat, CancelRecording, SessionEnds,
      EndSession, WillHideArrives, ExitStarts, panelVars, noticeVars

-----------------------------------------------------------------------------
(* The order of what reaches the renderer.  A step that tells it of a hide  *)
(* at most leaves every event, and every will-show, where it was.           *)
LEMMA QueueKept ==
  ASSUME Wired, UNCHANGED toRenderer \/ \E t \in Times : Tell(<<Hides(t)>>)
  PROVE  /\ Len(toRenderer) \in Nat /\ DOMAIN toRenderer = 1 .. Len(toRenderer)
         /\ \A i \in DOMAIN toRenderer' : IsEvent(i)' =>
              i \in DOMAIN toRenderer /\ toRenderer'[i] = toRenderer[i]
         /\ \A i \in Nat : ShowAfter(i)' <=> ShowAfter(i)
         /\ \A i \in Nat, k \in 1 .. (Len(toRenderer) + 1) : ShowBetween(i, k)' <=> ShowBetween(i, k)
         /\ Len(toRenderer') \in Nat /\ DOMAIN toRenderer' = 1 .. Len(toRenderer')
         /\ Len(toRenderer) <= Len(toRenderer')
<1>0. Len(toRenderer) \in Nat /\ DOMAIN toRenderer = 1 .. Len(toRenderer)
  BY DEF Wired
<1>1. CASE UNCHANGED toRenderer
  BY <1>0, <1>1 DEF IsEvent, ShowAfter, ShowBetween
<1>2. ASSUME NEW t \in Times, Tell(<<Hides(t)>>)
      PROVE  /\ \A i \in DOMAIN toRenderer' : IsEvent(i)' =>
                  i \in DOMAIN toRenderer /\ toRenderer'[i] = toRenderer[i]
             /\ \A i \in Nat : ShowAfter(i)' <=> ShowAfter(i)
             /\ \A i \in Nat, k \in 1 .. (Len(toRenderer) + 1) : ShowBetween(i, k)' <=> ShowBetween(i, k)
             /\ Len(toRenderer') \in Nat /\ DOMAIN toRenderer' = 1 .. Len(toRenderer')
             /\ Len(toRenderer) <= Len(toRenderer')
  <2>1. /\ Len(toRenderer') = Len(toRenderer) + 1
        /\ DOMAIN toRenderer' = 1 .. (Len(toRenderer) + 1)
        /\ \A i \in 1 .. Len(toRenderer) : toRenderer'[i] = toRenderer[i]
        /\ toRenderer'[Len(toRenderer) + 1] = Hides(t)
    BY <1>2 DEF Tell, Wired
  <2>2. Hides(t).kind = "will-hide"
    BY DEF Hides
  <2>3. ASSUME NEW i \in DOMAIN toRenderer', IsEvent(i)'
        PROVE  i \in DOMAIN toRenderer /\ toRenderer'[i] = toRenderer[i]
    BY <1>0, <2>1, <2>2, <2>3 DEF IsEvent
  <2>4. ASSUME NEW i \in Nat, NEW k \in 1 .. (Len(toRenderer) + 1)
        PROVE  ShowBetween(i, k)' <=> ShowBetween(i, k)
    BY <1>0, <2>1 DEF ShowBetween
  <2>5. ASSUME NEW i \in Nat PROVE ShowAfter(i)' <=> ShowAfter(i)
    BY <1>0, <2>1, <2>2 DEF ShowAfter, ShowBetween
  <2> QED BY <1>0, <2>1, <2>3, <2>4, <2>5
<1> QED BY <1>0, <1>1, <1>2

LEMMA OrderKept ==
  ASSUME Wired, InOrder, UNCHANGED <<session, live>>,
         UNCHANGED toRenderer \/ \E t \in Times : Tell(<<Hides(t)>>),
         notice' = notice \/ (notice'.id = "none" /\ ~IsAuto(notice')),
         ~touched' => ~touched /\ \A time \in Int : Outlived(time) => Outlived(time)'
  PROVE  InOrder'
<1> USE DEF InOrder
<1>1. notice'.id # "none" => notice'.from = session' \/ ShowAfter(0)'
  BY QueueKept
<1>2. live' /\ IsAuto(notice') => ShowAfter(0)'
  BY QueueKept
<1>3. ASSUME NEW i \in DOMAIN toRenderer', IsEvent(i)', ~ShowAfter(i)'
      PROVE  /\ toRenderer'[i].from = session'
             /\ live' => ~Ends(Telling(i))'
             /\ ~touched' /\ IsAuto(NoticeFor(Telling(i)')) =>
                  Outlived(NoticeFor(Telling(i)).duration + ExitTime)'
  <2>1. i \in DOMAIN toRenderer /\ toRenderer'[i] = toRenderer[i] /\ ~ShowAfter(i) /\ IsEvent(i)
    BY <1>3, QueueKept DEF IsEvent
  <2>2. toRenderer[i].event \in Events
    <3>1. toRenderer[i] \in Messages
      BY <2>1 DEF Wired
    <3> QED BY <3>1 DEF Messages
  <2>3. NoticeFor(toRenderer[i].event).duration + ExitTime \in Int
    BY <2>2, EventsTold, TimesAreInts
  <2> QED BY <2>1, <2>3 DEF Telling, Ends
<1> QED BY <1>1, <1>2, <1>3

LEMMA FaceKept ==
  ASSUME Wired, FaceInOrder, UNCHANGED <<live, bar>>,
         UNCHANGED toRenderer \/ \E t \in Times : Tell(<<Hides(t)>>),
         notice' = notice \/ notice'.id = "none"
  PROVE  FaceInOrder'
<1> USE DEF FaceInOrder
<1>0. Len(toRenderer) \in Nat /\ DOMAIN toRenderer = 1 .. Len(toRenderer)
  BY QueueKept
<1>1. ASSUME NEW k \in 1 .. (Len(toRenderer) + 1), BeatMeetsNoMark(k)
      PROVE  BeatMeetsNoMark(k)'
  <2>1. bar' = "success" => ShowBetween(0, k)'
    BY <1>1, QueueKept DEF BeatMeetsNoMark
  <2>2. ASSUME NEW i \in 1 .. (k - 1), IsEvent(i)', Ends(Telling(i))' PROVE ShowBetween(i, k)'
    <3>1. i \in DOMAIN toRenderer' /\ i \in DOMAIN toRenderer /\ i \in Nat
      BY <1>0, QueueKept
    <3>2. IsEvent(i) /\ Ends(Telling(i))
      BY <2>2, <3>1, QueueKept DEF IsEvent, Telling, Ends
    <3> QED BY <1>1, <3>1, <3>2, QueueKept DEF BeatMeetsNoMark
  <2> QED BY <2>1, <2>2 DEF BeatMeetsNoMark
<1>2. ASSUME live' PROVE BeatMeetsNoMark(Len(toRenderer) + 1)'
  <2>1. BeatMeetsNoMark(Len(toRenderer) + 1)
    BY <1>2
  <2>2. bar' = "success" => ShowAfter(0)'
    BY <2>1, QueueKept DEF BeatMeetsNoMark, ShowAfter
  <2>3. ASSUME NEW i \in DOMAIN toRenderer', IsEvent(i)', Ends(Telling(i))' PROVE ShowAfter(i)'
    <3>1. i \in 1 .. Len(toRenderer) /\ IsEvent(i) /\ Ends(Telling(i))
      BY <1>0, <2>3, QueueKept DEF IsEvent, Telling, Ends
    <3>2. ShowAfter(i)
      BY <1>0, <2>1, <3>1 DEF BeatMeetsNoMark, ShowAfter
    <3> QED BY <3>1, <3>2, QueueKept
  <2>4. 1 .. ((Len(toRenderer') + 1) - 1) = DOMAIN toRenderer'
    BY QueueKept
  <2> QED BY <2>2, <2>3, <2>4 DEF BeatMeetsNoMark, ShowAfter
<1>3. ASSUME NEW k \in DOMAIN toRenderer', IsEvent(k)', Telling(k)' = Slow
      PROVE  BeatMeetsNoMark(k)'
  <2>1. k \in DOMAIN toRenderer /\ IsEvent(k) /\ Telling(k) = Slow
    BY <1>3, QueueKept DEF IsEvent, Telling
  <2> QED BY <1>0, <1>1, <2>1
<1>4. notice'.id # "none" => bar' # "success"
  OBVIOUS
<1> QED BY <1>2, <1>3, <1>4

(* The steps that bring the renderer nothing new.                           *)
Untold ==
  \/ RevealFires \/ HideFires \/ HoverArrives \/ LeaveArrives \/ DismissArrives
  \/ ChordDismisses \/ ExitStarts \/ DismissFires \/ User \/ UNCHANGED panelVars

LEMMA UntoldSteps ==
  ASSUME PanelTypeOK, Wired, HideHasSession, Untold
  PROVE  /\ UNCHANGED <<session, live, bar>>
         /\ UNCHANGED toRenderer \/ \E t \in Times : Tell(<<Hides(t)>>)
         /\ notice' = notice \/ (notice'.id = "none" /\ ~IsAuto(notice'))
         /\ ~touched' => ~touched /\ \A time \in Int : Outlived(time) => Outlived(time)'
<1>0. hideIn \in Times /\ pausedIn \in Times /\ Times \subseteq Int
  BY TimesAreInts DEF PanelTypeOK
<1>1. ASSUME UNCHANGED <<hideIn, pausedIn>>, NEW time \in Int, Outlived(time) PROVE Outlived(time)'
  BY <1>1 DEF Outlived
<1>2. CASE RevealFires \/ ExitStarts \/ User \/ UNCHANGED panelVars
  BY <1>1, <1>2 DEF RevealFires, ExitStarts, User, PointerEnters, PointerLeaves, PointerClicks,
     panelVars, sessionVars, windowVars, noticeVars, faceVars
<1>3. CASE HideFires \/ HoverArrives
  BY <1>3 DEF HideFires, HoverArrives, Outlived, sessionVars, noticeVars, faceVars
<1>4. CASE DismissFires
  BY <1>1, <1>4, HiddenType DEF DismissFires, ChangeNotice, sessionVars, windowVars, faceVars
<1>5. CASE LeaveArrives
  <2>1. ResumeHide /\ UNCHANGED <<session, live, bar, notice, touched>>
    BY <1>5 DEF LeaveArrives, sessionVars, noticeVars, faceVars
  <2>2. ASSUME NEW time \in Int, Outlived(time) PROVE Outlived(time)'
    <3>1. CASE UNCHANGED <<hideIn, pausedIn>>
      BY <1>1, <2>2, <3>1
    <3>2. CASE hideIn' >= pausedIn /\ hideIn' > 0 /\ pausedIn # NoTime
      <4>1. hideIn' \in Int /\ pausedIn' = NoTime /\ pausedIn \in Int
        BY <1>0, <2>1, HideSteps
      <4>2. pausedIn > time
        BY <2>2, <3>2 DEF Outlived
      <4> QED BY <3>2, <4>1, <4>2 DEF Outlived
    <3> QED BY <2>1, <3>1, <3>2, HideSteps
  <2> QED BY <2>1, <2>2, HideSteps
<1>6. CASE DismissArrives \/ ChordDismisses
  <2>1. Expedite /\ UNCHANGED <<session, live, bar, notice>> /\ touched' = TRUE
    BY <1>6 DEF DismissArrives, ChordDismisses, faceVars
  <2> QED BY <2>1, HideSteps
<1> QED BY <1>2, <1>3, <1>4, <1>5, <1>6 DEF Untold

(* What a new session, a beat and an ending bring.                          *)
LEMMA EarlierShows ==
  ASSUME NEW n \in Nat, \A i \in 1 .. n : toRenderer'[i] = toRenderer[i],
         NEW i \in Nat, NEW k \in 1 .. (n + 1)
  PROVE  ShowBetween(i, k)' <=> ShowBetween(i, k)
<1>1. \A j \in (i + 1) .. (k - 1) : j \in 1 .. n
  OBVIOUS
<1>2. \A j \in (i + 1) .. (k - 1) : toRenderer'[j] = toRenderer[j]
  BY <1>1
<1> QED BY <1>2 DEF ShowBetween

LEMMA StartTold ==
  ASSUME Wired, StartSession
  PROVE  /\ Len(toRenderer) \in Nat /\ DOMAIN toRenderer = 1 .. Len(toRenderer)
         /\ Len(toRenderer') = Len(toRenderer) + 2
         /\ DOMAIN toRenderer' = 1 .. (Len(toRenderer) + 2)
         /\ \A i \in 1 .. Len(toRenderer) : toRenderer'[i] = toRenderer[i]
         /\ toRenderer'[Len(toRenderer) + 1].kind = "will-show"
         /\ toRenderer'[Len(toRenderer) + 2] = Emits(Started, session')
         /\ \A i \in 0 .. Len(toRenderer) : ShowAfter(i)'
         /\ \A i \in Nat, k \in 1 .. (Len(toRenderer) + 1) : ShowBetween(i, k)' <=> ShowBetween(i, k)
<1>1. /\ Len(toRenderer) \in Nat /\ DOMAIN toRenderer = 1 .. Len(toRenderer)
      /\ Len(toRenderer') = Len(toRenderer) + 2
      /\ DOMAIN toRenderer' = 1 .. (Len(toRenderer) + 2)
      /\ \A i \in 1 .. Len(toRenderer) : toRenderer'[i] = toRenderer[i]
      /\ toRenderer'[Len(toRenderer) + 1] = Shown(session')
      /\ toRenderer'[Len(toRenderer) + 2] = Emits(Started, session')
  BY DEF StartSession, Tell, Wired
<1>2. Shown(session').kind = "will-show"
  BY DEF Shown
<1>3. ASSUME NEW i \in 0 .. Len(toRenderer) PROVE ShowAfter(i)'
  BY <1>1, <1>2 DEF ShowAfter, ShowBetween
<1>4. ASSUME NEW i \in Nat, NEW k \in 1 .. (Len(toRenderer) + 1)
      PROVE  ShowBetween(i, k)' <=> ShowBetween(i, k)
  <2>1. Len(toRenderer) \in Nat /\ \A j \in 1 .. Len(toRenderer) : toRenderer'[j] = toRenderer[j]
    BY <1>1
  <2> QED BY <2>1, EarlierShows
<1> QED BY <1>1, <1>2, <1>3, <1>4

LEMMA EventTold ==
  ASSUME Wired, NEW e \in Events, NEW t \in Times,
         Tell(<<Emits(e, session)>>) \/ Tell(<<Emits(e, session), Hides(t)>>)
  PROVE  /\ Len(toRenderer) \in Nat /\ DOMAIN toRenderer = 1 .. Len(toRenderer)
         /\ \A i \in 1 .. Len(toRenderer) : toRenderer'[i] = toRenderer[i]
         /\ toRenderer'[Len(toRenderer) + 1] = Emits(e, session)
         /\ \A i \in DOMAIN toRenderer' : IsEvent(i)' => i \in 1 .. (Len(toRenderer) + 1)
         /\ \A i \in Nat : ShowAfter(i)' <=> ShowAfter(i)
         /\ \A i \in Nat, k \in 1 .. (Len(toRenderer) + 1) : ShowBetween(i, k)' <=> ShowBetween(i, k)
<1> DEFINE len == Len(toRenderer)
<1>1. Emits(e, session).kind = "event" /\ Hides(t).kind = "will-hide"
  BY DEF Emits, Hides
<1>2. len \in Nat /\ DOMAIN toRenderer = 1 .. len
  BY DEF Wired
<1>3. /\ \A i \in 1 .. len : toRenderer'[i] = toRenderer[i]
      /\ toRenderer'[len + 1] = Emits(e, session)
  <2>1. CASE Tell(<<Emits(e, session)>>)
    BY <2>1 DEF Tell, Wired
  <2>2. CASE Tell(<<Emits(e, session), Hides(t)>>)
    BY <2>2 DEF Tell, Wired
  <2> QED BY <2>1, <2>2
<1>4. PICK n \in Nat : /\ n = Len(toRenderer') /\ DOMAIN toRenderer' = 1 .. n
                       /\ n = len + 1 \/ (n = len + 2 /\ toRenderer'[len + 2] = Hides(t))
  <2>1. CASE Tell(<<Emits(e, session)>>)
    <3>1. Len(toRenderer') = len + 1 /\ DOMAIN toRenderer' = 1 .. (len + 1) /\ len + 1 \in Nat
      BY <2>1 DEF Tell, Wired
    <3> QED BY <3>1
  <2>2. CASE Tell(<<Emits(e, session), Hides(t)>>)
    <3>1. Len(toRenderer') = len + 2 /\ DOMAIN toRenderer' = 1 .. (len + 2) /\ len + 2 \in Nat
          /\ toRenderer'[len + 2] = Hides(t)
      BY <2>2 DEF Tell, Wired
    <3> QED BY <3>1
  <2> QED BY <2>1, <2>2
<1>5. \A i : ShowAfter(i) <=> ShowBetween(i, len + 1)
  BY DEF ShowAfter
<1>6. \A i : ShowAfter(i)' <=> ShowBetween(i, n + 1)'
  BY <1>4 DEF ShowAfter
<1>7. DOMAIN toRenderer' = 1 .. n /\ (n = len + 1 \/ n = len + 2)
  BY <1>4
<1> HIDE DEF len
<1>8. ASSUME NEW j \in 1 .. n, j \notin 1 .. len
      PROVE  toRenderer'[j].kind = IF j = len + 1 THEN "event" ELSE "will-hide"
  <2>1. CASE j = len + 1
    BY <1>1, <1>3, <2>1
  <2>2. CASE j # len + 1
    <3>1. j = len + 2 /\ n # len + 1
      BY <1>2, <1>7, <1>8, <2>2
    <3>2. toRenderer'[len + 2] = Hides(t)
      BY <1>4, <3>1
    <3> QED BY <1>1, <2>2, <3>1, <3>2
  <2> QED BY <2>1, <2>2
<1>9. ASSUME NEW i \in DOMAIN toRenderer', IsEvent(i)' PROVE i \in 1 .. (len + 1)
  <2>1. i \in 1 .. n /\ toRenderer'[i].kind = "event"
    BY <1>7, <1>9 DEF IsEvent
  <2>2. i \in 1 .. len \/ i = len + 1
    BY <1>8, <2>1
  <2> QED BY <1>2, <2>1, <2>2
<1>10. ASSUME NEW i \in Nat, NEW k \in 1 .. (len + 1)
       PROVE  ShowBetween(i, k)' <=> ShowBetween(i, k)
  BY <1>2, <1>3, EarlierShows
<1>11. ASSUME NEW i \in Nat PROVE ShowAfter(i)' <=> ShowAfter(i)
  <2>1. (len + 1) - 1 = len /\ (n + 1) - 1 = n
    BY <1>2
  <2>2. ASSUME NEW j \in (i + 1) .. n, toRenderer'[j].kind = "will-show"
        PROVE  j \in (i + 1) .. len /\ toRenderer[j].kind = "will-show"
    <3>1. j \in 1 .. n
      OBVIOUS
    <3>2. j \in 1 .. len
      BY <1>8, <2>2, <3>1
    <3> QED BY <1>2, <1>3, <2>2, <3>2
  <2>3. ASSUME NEW j \in (i + 1) .. len, toRenderer[j].kind = "will-show"
        PROVE  j \in (i + 1) .. n /\ toRenderer'[j].kind = "will-show"
    <3>1. j \in 1 .. len /\ j \in (i + 1) .. n
      BY <1>2, <1>7
    <3> QED BY <1>3, <2>3, <3>1
  <2>4. ShowBetween(i, len + 1) <=> \E j \in (i + 1) .. len : toRenderer[j].kind = "will-show"
    BY <2>1 DEF ShowBetween
  <2>5. ShowBetween(i, n + 1)' <=> \E j \in (i + 1) .. n : toRenderer'[j].kind = "will-show"
    BY <2>1 DEF ShowBetween
  <2> QED BY <1>5, <1>6, <2>2, <2>3, <2>4, <2>5
<1> QED BY <1>2, <1>3, <1>9, <1>10, <1>11 DEF len

LEMMA EndingStep ==
  ASSUME CancelRecording \/ \E event \in Endings : SessionEnds(event)
  PROVE  \E e \in Events, t \in Times \ {NoTime} :
           EndSession(e, t) /\ Ends(e) /\ t > NoticeFor(e).duration + ExitTime
<1>1. ASSUME NEW e \in Endings, SessionEnds(e)
      PROVE  \E t \in Times \ {NoTime} :
               EndSession(e, t) /\ Ends(e) /\ t > NoticeFor(e).duration + ExitTime
  <2>1. e \in TerminalEvents
    BY EndingTimes
  <2>2. e \notin {Started, Slow} /\ HideLinger(e) > NoticeFor(e).duration + ExitTime
    BY <2>1, EndingsTold, LingersLonger
  <2> QED BY <1>1, <2>1, <2>2, EndingTimes DEF SessionEnds, Ends
<1>2. ASSUME CancelRecording
      PROVE  EndSession(Cancelled, ShortLinger) /\ Ends(Cancelled)
             /\ ShortLinger > NoticeFor(Cancelled).duration + ExitTime
  <2>1. Cancelled \notin {Started, Slow}
    BY DEF Cancelled, Started, Slow, Ended
  <2>2. HideLinger(Cancelled) > NoticeFor(Cancelled).duration + ExitTime
    BY LingersLonger
  <2> QED BY <1>2, <2>1, <2>2, EndingTimes DEF CancelRecording, Ends
<1> QED BY <1>1, <1>2, EndingTimes

LEMMA OrderStep ==
  ASSUME PanelTypeOK, Wired, HideHasSession, InOrder, FaceInOrder, [Next]_panelVars
  PROVE  InOrder'
<1> USE DEF InOrder
<1>0. /\ notice \in Notices /\ session \in Nat /\ live \in BOOLEAN /\ touched \in BOOLEAN
      /\ \A i \in DOMAIN toRenderer : toRenderer[i] \in Messages /\ toRenderer[i].event \in Events
  <2>1. \A i \in DOMAIN toRenderer : toRenderer[i] \in Messages
    BY DEF Wired
  <2> QED BY <2>1, PanelAssumption DEF PanelTypeOK, Notices, Messages
<1>1. CASE Untold
  BY <1>1, UntoldSteps, OrderKept
<1>2. CASE StartSession
  <2>1. notice'.id # "none" => ShowAfter(0)'
    BY <1>2, StartTold
  <2>2. live' /\ IsAuto(notice') => ShowAfter(0)'
    BY <1>2, StartTold
  <2>3. ASSUME NEW i \in DOMAIN toRenderer', IsEvent(i)', ~ShowAfter(i)'
        PROVE  /\ toRenderer'[i].from = session'
               /\ live' => ~Ends(Telling(i))'
               /\ ~touched' /\ IsAuto(NoticeFor(Telling(i)')) =>
                    Outlived(NoticeFor(Telling(i)).duration + ExitTime)'
    <3>1. i = Len(toRenderer) + 2
      <4>1. i \notin 0 .. Len(toRenderer)
        BY <1>2, <2>3, StartTold
      <4>2. i # Len(toRenderer) + 1
        BY <1>2, <2>3, StartTold DEF IsEvent
      <4>3. i \in 1 .. (Len(toRenderer) + 2) /\ Len(toRenderer) \in Nat
        BY <1>2, StartTold
      <4> QED BY <4>1, <4>2, <4>3
    <3>2. toRenderer'[i] = Emits(Started, session')
      BY <1>2, <3>1, StartTold
    <3>3. toRenderer'[i].from = session' /\ toRenderer'[i].event = Started
      BY <3>2 DEF Emits
    <3>4. ~IsAuto(NoticeFor(Started))
      BY Told DEF NoNotice, Notice, IsAuto
    <3> QED BY <3>3, <3>4 DEF Telling, Ends
  <2> QED BY <2>1, <2>2, <2>3
<1>3. CASE SlowBeat
  <2>1. /\ live /\ Tell(<<Emits(Slow, session)>>)
        /\ UNCHANGED <<session, live, hideIn, pausedIn, notice, touched>>
    BY <1>3 DEF SlowBeat, sessionVars, windowVars, noticeVars
  <2>2. Slow \in Events /\ 0 \in Times
    BY TimesAreInts DEF Events
  <2>3. ASSUME NEW i \in DOMAIN toRenderer', IsEvent(i)', ~ShowAfter(i)'
        PROVE  /\ toRenderer'[i].from = session'
               /\ live' => ~Ends(Telling(i))'
               /\ ~touched' /\ IsAuto(NoticeFor(Telling(i)')) =>
                    Outlived(NoticeFor(Telling(i)).duration + ExitTime)'
    <3>1. CASE i \in 1 .. Len(toRenderer)
      <4>1. i \in DOMAIN toRenderer /\ IsEvent(i) /\ ~ShowAfter(i) /\ toRenderer'[i] = toRenderer[i]
        <5>0. /\ DOMAIN toRenderer = 1 .. Len(toRenderer)
              /\ \A j \in 1 .. Len(toRenderer) : toRenderer'[j] = toRenderer[j]
          BY <2>1, <2>2, EventTold
        <5>1. i \in DOMAIN toRenderer /\ i \in Nat /\ toRenderer'[i] = toRenderer[i]
          BY <3>1, <5>0
        <5>2. ~ShowAfter(i)
          BY <2>1, <2>2, <2>3, <5>1, EventTold
        <5>3. IsEvent(i)
          BY <2>3, <5>1 DEF IsEvent
        <5> QED BY <5>1, <5>2, <5>3
      <4> QED BY <2>1, <4>1 DEF Telling, Ends, Outlived
    <3>2. CASE i = Len(toRenderer) + 1
      <4>1. toRenderer'[i] = Emits(Slow, session)
        BY <2>1, <2>2, <3>2, EventTold
      <4>2. toRenderer'[i].from = session /\ toRenderer'[i].event = Slow
        BY <4>1 DEF Emits
      <4>3. ~IsAuto(NoticeFor(Slow))
        BY <2>2, EventsTold
      <4> QED BY <2>1, <4>2, <4>3 DEF Telling, Ends
    <3>3. i \in 1 .. (Len(toRenderer) + 1) /\ Len(toRenderer) \in Nat
      BY <2>1, <2>2, <2>3, EventTold
    <3> QED BY <3>1, <3>2, <3>3
  <2>4. ShowAfter(0)' <=> ShowAfter(0)
    BY <2>1, <2>2, EventTold
  <2> QED BY <2>1, <2>3, <2>4
<1>4. CASE CancelRecording \/ \E event \in Endings : SessionEnds(event)
  <2>1. PICK e \in Events, t \in Times \ {NoTime} :
          EndSession(e, t) /\ Ends(e) /\ t > NoticeFor(e).duration + ExitTime
    BY <1>4, EndingStep
  <2>2. /\ live /\ ~live' /\ hideIn' = t /\ pausedIn' = pausedIn
        /\ Tell(<<Emits(e, session), Hides(t)>>)
        /\ UNCHANGED <<session, notice>>
    BY <2>1 DEF EndSession
  <2>3. pausedIn' = NoTime
    BY <2>2 DEF HideHasSession, Lingering
  <2>4. ASSUME NEW i \in DOMAIN toRenderer', IsEvent(i)', ~ShowAfter(i)'
        PROVE  /\ toRenderer'[i].from = session'
               /\ live' => ~Ends(Telling(i))'
               /\ ~touched' /\ IsAuto(NoticeFor(Telling(i)')) =>
                    Outlived(NoticeFor(Telling(i)).duration + ExitTime)'
    <3>1. CASE i \in 1 .. Len(toRenderer)
      <4>1. i \in DOMAIN toRenderer /\ IsEvent(i) /\ ~ShowAfter(i) /\ toRenderer'[i] = toRenderer[i]
        <5>0. /\ DOMAIN toRenderer = 1 .. Len(toRenderer)
              /\ \A j \in 1 .. Len(toRenderer) : toRenderer'[j] = toRenderer[j]
          BY <2>2, EventTold
        <5>1. i \in DOMAIN toRenderer /\ i \in Nat /\ toRenderer'[i] = toRenderer[i]
          BY <3>1, <5>0
        <5>2. ~ShowAfter(i)
          BY <2>2, <2>4, <5>1, EventTold
        <5>3. IsEvent(i)
          BY <2>4, <5>1 DEF IsEvent
        <5> QED BY <5>1, <5>2, <5>3
      <4>2. ~IsAuto(NoticeFor(toRenderer[i].event))
        BY <1>0, <2>2, <4>1, EventsTold DEF Telling
      <4> QED BY <2>2, <4>1, <4>2 DEF Telling, Ends
    <3>2. CASE i = Len(toRenderer) + 1
      <4>1. toRenderer'[i] = Emits(e, session)
        BY <2>2, <3>2, EventTold
      <4>2. toRenderer'[i].from = session /\ toRenderer'[i].event = e
        BY <4>1 DEF Emits
      <4> QED BY <2>1, <2>2, <2>3, <4>2 DEF Telling, Outlived
    <3>3. i \in 1 .. (Len(toRenderer) + 1) /\ Len(toRenderer) \in Nat
      BY <2>2, <2>4, EventTold
    <3> QED BY <3>1, <3>2, <3>3
  <2>5. ShowAfter(0)' <=> ShowAfter(0)
    BY <2>2, EventTold
  <2> QED BY <2>2, <2>4, <2>5
<1>5. CASE EventArrives \/ WillShowArrives \/ WillHideArrives
  <2>1. toRenderer # <<>> /\ toRenderer' = Tail(toRenderer)
        /\ UNCHANGED <<session, live, hideIn, pausedIn, touched>>
    BY <1>5 DEF EventArrives, WillShowArrives, WillHideArrives, sessionVars, windowVars, noticeVars
  <2>2. /\ Len(toRenderer) \in Nat \ {0} /\ DOMAIN toRenderer = 1 .. Len(toRenderer)
        /\ DOMAIN toRenderer' = 1 .. (Len(toRenderer) - 1)
        /\ Len(toRenderer') = Len(toRenderer) - 1
        /\ \A i \in 1 .. (Len(toRenderer) - 1) : toRenderer'[i] = toRenderer[i + 1]
    BY <2>1, HandlingShifts
  <2>3. \A i \in Nat : ShowAfter(i)' <=> ShowAfter(i + 1)
    <3>1. Len(toRenderer) \in 1 .. Len(toRenderer) /\ Len(toRenderer') + 1 = Len(toRenderer)
      BY <2>2
    <3>2. \A i \in Nat, k \in 1 .. Len(toRenderer) : ShowBetween(i, k)' <=> ShowBetween(i + 1, k + 1)
      BY <2>1, HandlingShifts
    <3> QED BY <3>1, <3>2 DEF ShowAfter
  <2>4. ASSUME NEW i \in DOMAIN toRenderer', IsEvent(i)', ~ShowAfter(i)'
        PROVE  /\ toRenderer'[i].from = session'
               /\ live' => ~Ends(Telling(i))'
               /\ ~touched' /\ IsAuto(NoticeFor(Telling(i)')) =>
                    Outlived(NoticeFor(Telling(i)).duration + ExitTime)'
    <3>1. i + 1 \in DOMAIN toRenderer /\ IsEvent(i + 1) /\ ~ShowAfter(i + 1)
          /\ toRenderer'[i] = toRenderer[i + 1]
      <4>0. i \in 1 .. (Len(toRenderer) - 1) /\ Len(toRenderer) \in Nat
        BY <2>2
      <4>1. i \in Nat /\ i + 1 \in DOMAIN toRenderer /\ toRenderer'[i] = toRenderer[i + 1]
        BY <2>2, <4>0
      <4>2. ~ShowAfter(i + 1)
        BY <2>3, <2>4, <4>1
      <4>3. IsEvent(i + 1)
        BY <2>4, <4>1 DEF IsEvent
      <4> QED BY <4>1, <4>2, <4>3
    <3> QED BY <2>1, <3>1 DEF Telling, Ends, Outlived
  <2>5. CASE EventArrives \/ WillShowArrives
    <3>1. ASSUME notice'.id # "none" \/ IsAuto(notice'), ~ShowAfter(0)'
          PROVE  /\ notice'.from = session
                 /\ live => ~IsAuto(notice')
      <4>1. EventArrives
        BY <2>5, <3>1, NoticeArmed
      <4>2. IsEvent(1) /\ 1 \in DOMAIN toRenderer /\ ~ShowAfter(1)
        BY <2>2, <2>3, <3>1, <4>1 DEF EventArrives, IsEvent
      <4>3. toRenderer[1].from = session /\ (live => ~Ends(Telling(1)))
        BY <4>2
      <4>4. live => ~IsAuto(NoticeFor(toRenderer[1].event))
        BY <1>0, <4>2, <4>3, EventsTold DEF Telling
      <4> QED BY <2>5, <3>1, <4>3, <4>4, NoticeArmed
    <3> QED BY <2>1, <2>4, <3>1
  <2>6. CASE WillHideArrives
    <3>1. toRenderer[1].kind # "will-show" /\ UNCHANGED notice
      BY <2>2, <2>6 DEF WillHideArrives, noticeVars
    <3>2. ShowAfter(0)' <=> ShowAfter(0)
      <4>1. \A k \in 1 .. (Len(toRenderer) + 1) : ShowBetween(0, k) <=> ShowBetween(1, k)
        BY <2>1, <3>1, HandlingShifts
      <4>2. Len(toRenderer) + 1 \in 1 .. (Len(toRenderer) + 1) /\ 0 + 1 = 1
        BY <2>2
      <4>3. ShowAfter(0) <=> ShowAfter(1)
        BY <4>1, <4>2 DEF ShowAfter
      <4>4. ShowAfter(0)' <=> ShowAfter(0 + 1)
        BY <2>3
      <4> QED BY <4>2, <4>3, <4>4
    <3> QED BY <2>1, <2>4, <3>1, <3>2
  <2> QED BY <1>5, <2>5, <2>6
<1>6. CASE Tick
  <2>1. toRenderer = <<>> /\ UNCHANGED <<session, live, notice, toRenderer>>
    BY <1>6 DEF Tick, Quiet, sessionVars
  <2> QED BY <2>1 DEF ShowAfter, ShowBetween
<1> QED
  BY <1>1, <1>2, <1>3, <1>4, <1>5, <1>6 DEF Next, Main, Session, Renderer, Untold

LEMMA BeatKept ==
  ASSUME NEW k \in Nat, BeatMeetsNoMark(k), UNCHANGED bar,
         \A i \in 1 .. (k - 1) : toRenderer'[i] = toRenderer[i],
         \A i \in Nat : ShowBetween(i, k)' <=> ShowBetween(i, k)
  PROVE  BeatMeetsNoMark(k)'
<1>1. bar' = "success" => ShowBetween(0, k)'
  BY DEF BeatMeetsNoMark
<1>2. ASSUME NEW i \in 1 .. (k - 1), IsEvent(i)', Ends(Telling(i))' PROVE ShowBetween(i, k)'
  <2>1. IsEvent(i) /\ Ends(Telling(i)) /\ i \in Nat
    BY <1>2 DEF IsEvent, Telling, Ends
  <2> QED BY <2>1 DEF BeatMeetsNoMark
<1> QED BY <1>1, <1>2 DEF BeatMeetsNoMark

LEMMA FaceStep ==
  ASSUME PanelTypeOK, Wired, HideHasSession, FaceInOrder, [Next]_panelVars
  PROVE  FaceInOrder'
<1>0. /\ live \in BOOLEAN
      /\ \A i \in DOMAIN toRenderer : toRenderer[i] \in Messages /\ toRenderer[i].event \in Events
  <2>1. \A i \in DOMAIN toRenderer : toRenderer[i] \in Messages
    BY DEF Wired
  <2> QED BY <2>1 DEF PanelTypeOK, Messages
<1>1. CASE Untold
  BY <1>1, UntoldSteps, FaceKept
<1>2. CASE Tick
  <2>1. UNCHANGED <<live, bar, toRenderer, notice>>
    BY <1>2 DEF Tick, sessionVars
  <2> QED BY <2>1, FaceKept
<1>3. CASE StartSession
  <2>0. /\ Len(toRenderer) \in Nat /\ DOMAIN toRenderer = 1 .. Len(toRenderer)
        /\ Len(toRenderer') = Len(toRenderer) + 2
        /\ DOMAIN toRenderer' = 1 .. (Len(toRenderer) + 2)
        /\ \A i \in 1 .. Len(toRenderer) : toRenderer'[i] = toRenderer[i]
        /\ \A i \in 0 .. Len(toRenderer) : ShowAfter(i)'
        /\ \A i \in Nat, k \in 1 .. (Len(toRenderer) + 1) : ShowBetween(i, k)' <=> ShowBetween(i, k)
    BY <1>3, StartTold
  <2>1. UNCHANGED <<bar, notice>>
    BY <1>3 DEF StartSession, noticeVars, faceVars
  <2>2. toRenderer'[Len(toRenderer) + 2].event = Started /\ ~Ends(Started) /\ Started # Slow
    BY <1>3, StartTold, Told DEF Emits, Ends
  <2>3. ASSUME NEW i \in DOMAIN toRenderer', IsEvent(i)', Telling(i)' # Started
        PROVE  i \in 1 .. Len(toRenderer)
    <3>1. i # Len(toRenderer) + 1
      BY <1>3, <2>3, StartTold DEF IsEvent
    <3>2. i # Len(toRenderer) + 2
      BY <2>2, <2>3 DEF Telling
    <3> QED BY <2>0, <3>1, <3>2
  <2>4. BeatMeetsNoMark(Len(toRenderer) + 1)'
    <3>1. 0 \in 0 .. Len(toRenderer) /\ 1 .. ((Len(toRenderer') + 1) - 1) = DOMAIN toRenderer'
      BY <2>0
    <3>2. ASSUME NEW i \in DOMAIN toRenderer', IsEvent(i)', Ends(Telling(i))' PROVE ShowAfter(i)'
      <4>1. Telling(i)' # Started
        BY <3>2 DEF Ends
      <4>2. i \in 0 .. Len(toRenderer)
        BY <2>3, <3>2, <4>1
      <4> QED BY <2>0, <4>2
    <3> QED BY <2>0, <3>1, <3>2 DEF BeatMeetsNoMark, ShowAfter
  <2>5. ASSUME NEW k \in DOMAIN toRenderer', IsEvent(k)', Telling(k)' = Slow
        PROVE  BeatMeetsNoMark(k)'
    <3>1. k \in 1 .. Len(toRenderer)
      BY <2>2, <2>3, <2>5
    <3>2. BeatMeetsNoMark(k)
      BY <2>0, <2>5, <3>1 DEF IsEvent, Telling, FaceInOrder
    <3>3. k \in Nat /\ k \in 1 .. (Len(toRenderer) + 1)
          /\ \A i \in 1 .. (k - 1) : toRenderer'[i] = toRenderer[i]
      BY <2>0, <3>1
    <3> QED BY <2>0, <2>1, <3>2, <3>3, BeatKept
  <2> QED BY <2>1, <2>4, <2>5 DEF FaceInOrder
<1>4. ASSUME NEW e \in Events, NEW t \in Times, live, UNCHANGED <<bar, notice>>,
             \/ e = Slow /\ Tell(<<Emits(e, session)>>)
             \/ Ends(e) /\ ~live' /\ Tell(<<Emits(e, session), Hides(t)>>)
      PROVE  FaceInOrder'
  <2> DEFINE len == Len(toRenderer)
  <2>1. len \in Nat /\ DOMAIN toRenderer = 1 .. len
    BY <1>4, EventTold
  <2>2. \A i \in 1 .. len : toRenderer'[i] = toRenderer[i]
    BY <1>4, EventTold
  <2>3. toRenderer'[len + 1] = Emits(e, session)
    BY <1>4, EventTold
  <2>4. \A i \in DOMAIN toRenderer' : IsEvent(i)' => i \in 1 .. (len + 1)
    BY <1>4, EventTold
  <2>5. \A i \in Nat : ShowAfter(i)' <=> ShowAfter(i)
    BY <1>4, EventTold
  <2>6. \A i \in Nat, k \in 1 .. (len + 1) : ShowBetween(i, k)' <=> ShowBetween(i, k)
    BY <1>4, EventTold
  <2>7. BeatMeetsNoMark(len + 1)
    BY <1>4 DEF FaceInOrder
  <2>8. toRenderer'[len + 1].event = e
    <3>1. Emits(e, session).event = e
      BY DEF Emits
    <3> QED BY <2>3, <3>1, Zenon
  <2>9. \A i : ShowAfter(i) <=> ShowBetween(i, len + 1)
    BY DEF ShowAfter
  <2> HIDE DEF len
  <2>10. ASSUME NEW k \in DOMAIN toRenderer', IsEvent(k)', Telling(k)' = Slow
         PROVE  BeatMeetsNoMark(k)'
    <3>1. k \in 1 .. (len + 1)
      BY <2>4, <2>10
    <3>2. k \in Nat /\ (\A i \in 1 .. (k - 1) : i \in 1 .. len)
      BY <2>1, <3>1
    <3>3. \A i \in 1 .. (k - 1) : toRenderer'[i] = toRenderer[i]
      BY <2>2, <3>2
    <3>4. BeatMeetsNoMark(k)
      <4>1. CASE k \in 1 .. len
        <5>1. k \in DOMAIN toRenderer /\ toRenderer'[k] = toRenderer[k]
          BY <2>1, <2>2, <4>1
        <5>2. IsEvent(k) /\ Telling(k) = Slow
          BY <2>10, <5>1 DEF IsEvent, Telling
        <5> QED BY <5>1, <5>2 DEF FaceInOrder
      <4>2. CASE k = len + 1
        BY <2>7, <4>2
      <4> QED BY <2>1, <3>1, <4>1, <4>2
    <3>5. \A i \in Nat : ShowBetween(i, k)' <=> ShowBetween(i, k)
      BY <2>6, <3>1
    <3> QED BY <1>4, <3>2, <3>3, <3>4, <3>5, BeatKept
  <2>11. ASSUME live' PROVE BeatMeetsNoMark(Len(toRenderer) + 1)'
    <3>1. e = Slow
      BY <1>4, <2>11
    <3>2. bar' = "success" => ShowAfter(0)'
      <4>1. bar = "success" => ShowAfter(0)
        BY <2>7, <2>9 DEF BeatMeetsNoMark
      <4> QED BY <1>4, <2>5, <4>1
    <3>3. ASSUME NEW i \in DOMAIN toRenderer', IsEvent(i)', Ends(Telling(i))' PROVE ShowAfter(i)'
      <4>1. i \in 1 .. (len + 1)
        BY <2>4, <3>3
      <4>2. i # len + 1
        BY <2>8, <3>1, <3>3 DEF Telling, Ends
      <4>3. i \in 1 .. len /\ i \in Nat /\ i \in 1 .. ((len + 1) - 1)
        BY <2>1, <4>1, <4>2
      <4>4. IsEvent(i) /\ Ends(Telling(i))
        BY <2>2, <3>3, <4>3 DEF IsEvent, Telling, Ends
      <4>5. ShowAfter(i)
        BY <2>7, <2>9, <4>3, <4>4 DEF BeatMeetsNoMark
      <4> QED BY <2>5, <4>3, <4>5
    <3>4. 1 .. ((Len(toRenderer') + 1) - 1) = DOMAIN toRenderer'
      <4>1. toRenderer' \in Seq(Messages)
        BY WireStep DEF Wired
      <4>2. Len(toRenderer') \in Nat /\ DOMAIN toRenderer' = 1 .. Len(toRenderer')
        BY <4>1, LenProperties, Zenon
      <4> QED BY <4>2
    <3> QED BY <3>2, <3>3, <3>4 DEF BeatMeetsNoMark, ShowAfter
  <2>12. notice'.id # "none" => bar' # "success"
    BY <1>4 DEF FaceInOrder
  <2> QED BY <2>10, <2>11, <2>12 DEF FaceInOrder
<1>5. CASE SlowBeat
  <2>1. live /\ UNCHANGED <<bar, notice>> /\ Tell(<<Emits(Slow, session)>>)
    BY <1>5 DEF SlowBeat, noticeVars, faceVars
  <2>2. Slow \in Events /\ 0 \in Times
    BY TimesAreInts DEF Events
  <2> QED BY <1>4, <2>1, <2>2
<1>6. CASE CancelRecording \/ \E event \in Endings : SessionEnds(event)
  <2>1. PICK e \in Events, t \in Times \ {NoTime} :
          EndSession(e, t) /\ Ends(e) /\ t > NoticeFor(e).duration + ExitTime
    BY <1>6, EndingStep
  <2>2. live /\ ~live' /\ UNCHANGED <<bar, notice>> /\ Tell(<<Emits(e, session), Hides(t)>>)
    BY <2>1 DEF EndSession, faceVars
  <2> QED BY <1>4, <2>1, <2>2
<1>7. CASE EventArrives \/ WillShowArrives \/ WillHideArrives
  <2> DEFINE len == Len(toRenderer)
  <2>0. toRenderer # <<>> /\ toRenderer' = Tail(toRenderer) /\ UNCHANGED live
    BY <1>7 DEF EventArrives, WillShowArrives, WillHideArrives, sessionVars
  <2>1. /\ len \in Nat \ {0} /\ DOMAIN toRenderer = 1 .. len
        /\ DOMAIN toRenderer' = 1 .. (len - 1) /\ Len(toRenderer') = len - 1
        /\ Head(toRenderer) = toRenderer[1]
    BY <2>0, HandlingShifts
  <2>2. \A i \in 1 .. (len - 1) : toRenderer'[i] = toRenderer[i + 1]
    BY <2>0, HandlingShifts
  <2>3. \A i \in Nat, k \in 1 .. len : ShowBetween(i, k)' <=> ShowBetween(i + 1, k + 1)
    BY <2>0, HandlingShifts
  <2>4. toRenderer[1].kind # "will-show" =>
          \A k \in 1 .. (len + 1) : ShowBetween(0, k) <=> ShowBetween(1, k)
    BY <2>0, HandlingShifts
  <2>5. 1 \in DOMAIN toRenderer /\ toRenderer[1].event \in Events
    BY <1>0, <2>1
  <2>6. EventArrives =>
          /\ IsEvent(1)
          /\ bar' = IF Telling(1) = Slow THEN bar ELSE BarState(Telling(1))
    BY <2>1 DEF EventArrives, IsEvent, Telling
  <2>7. EventArrives /\ Telling(1) = Slow => bar # "success"
    <3>1. ASSUME EventArrives, Telling(1) = Slow PROVE BeatMeetsNoMark(1)
      BY <2>5, <2>6, <3>1 DEF FaceInOrder
    <3>2. ~ShowBetween(0, 1)
      BY DEF ShowBetween
    <3> QED BY <3>1, <3>2 DEF BeatMeetsNoMark
  <2>8. EventArrives /\ Telling(1) # Slow /\ bar' = "success" => Ends(Telling(1))
    BY <2>5, <2>6, EventsTold DEF Telling
  <2>9. WillShowArrives => bar' # "success"
    BY DEF WillShowArrives
  <2>10. WillHideArrives => bar' = bar /\ notice' = notice /\ toRenderer[1].kind # "will-show"
    BY <2>1 DEF WillHideArrives, noticeVars
  <2> HIDE DEF len
  <2>11. ASSUME NEW k \in 1 .. len, BeatMeetsNoMark(k + 1), bar' = "success"
         PROVE  ShowBetween(1, k + 1)
    <3>1. CASE EventArrives
      <4>1. Telling(1) # Slow /\ IsEvent(1) /\ Ends(Telling(1))
        BY <2>6, <2>7, <2>8, <2>11, <3>1
      <4>2. 1 \in 1 .. ((k + 1) - 1)
        BY <2>1
      <4> QED BY <2>11, <4>1, <4>2 DEF BeatMeetsNoMark
    <3>2. CASE WillHideArrives
      <4>1. toRenderer[1].kind # "will-show" /\ bar = "success"
        BY <2>10, <2>11, <3>2
      <4>2. k + 1 \in 1 .. (len + 1)
        BY <2>1
      <4>3. ShowBetween(0, k + 1)
        BY <2>11, <4>1 DEF BeatMeetsNoMark
      <4> QED BY <2>4, <4>1, <4>2, <4>3
    <3> QED BY <1>7, <2>9, <2>11, <3>1, <3>2
  <2>12. ASSUME NEW k \in 1 .. len, BeatMeetsNoMark(k + 1)
         PROVE  BeatMeetsNoMark(k)'
    <3>1. bar' = "success" => ShowBetween(0, k)'
      <4>1. ShowBetween(0, k)' <=> ShowBetween(0 + 1, k + 1)
        BY <2>3
      <4>2. 0 + 1 = 1
        OBVIOUS
      <4> QED BY <2>11, <2>12, <4>1, <4>2
    <3>2. ASSUME NEW i \in 1 .. (k - 1), IsEvent(i)', Ends(Telling(i))' PROVE ShowBetween(i, k)'
      <4>1. i \in Nat /\ i \in 1 .. (len - 1) /\ i + 1 \in 1 .. ((k + 1) - 1)
        BY <2>1
      <4>2. IsEvent(i + 1) /\ Ends(Telling(i + 1))
        BY <2>2, <3>2, <4>1 DEF IsEvent, Telling, Ends
      <4>3. ShowBetween(i + 1, k + 1)
        BY <2>12, <4>1, <4>2 DEF BeatMeetsNoMark
      <4> QED BY <2>3, <4>1, <4>3
    <3> QED BY <3>1, <3>2 DEF BeatMeetsNoMark
  <2>13. ASSUME live' PROVE BeatMeetsNoMark(Len(toRenderer) + 1)'
    <3>1. len \in 1 .. len /\ Len(toRenderer') + 1 = len
      BY <2>1
    <3>2. BeatMeetsNoMark(len + 1)
      BY <2>0, <2>13 DEF len, FaceInOrder
    <3> QED BY <2>12, <3>1, <3>2
  <2>14. ASSUME NEW k \in DOMAIN toRenderer', IsEvent(k)', Telling(k)' = Slow
         PROVE  BeatMeetsNoMark(k)'
    <3>1. k \in 1 .. (len - 1) /\ k \in 1 .. len /\ k + 1 \in DOMAIN toRenderer
      BY <2>1
    <3>2. IsEvent(k + 1) /\ Telling(k + 1) = Slow
      BY <2>2, <2>14, <3>1 DEF IsEvent, Telling
    <3>3. BeatMeetsNoMark(k + 1)
      BY <3>1, <3>2 DEF FaceInOrder
    <3> QED BY <2>12, <3>1, <3>3
  <2>15. ASSUME notice'.id # "none" PROVE bar' # "success"
    <3>1. CASE EventArrives \/ WillShowArrives
      <4>1. EventArrives /\ NoticeFor(Telling(1)).id # "none"
        BY <2>15, <3>1, NoticeArmed DEF Telling
      <4>2. CASE Telling(1) = Slow
        BY <2>6, <2>7, <4>1, <4>2
      <4>3. CASE Telling(1) # Slow
        BY <2>5, <2>6, <4>1, <4>3, EventsTold DEF Telling
      <4> QED BY <4>2, <4>3
    <3>2. CASE WillHideArrives
      BY <2>10, <2>15, <3>2 DEF FaceInOrder
    <3> QED BY <1>7, <3>1, <3>2
  <2> QED BY <2>13, <2>14, <2>15 DEF FaceInOrder
<1> QED
  BY <1>1, <1>2, <1>3, <1>5, <1>6, <1>7 DEF Next, Main, Session, Renderer, Untold

-----------------------------------------------------------------------------
(* The window outlives the notice.                                          *)
LEMMA OutlivesStep ==
  ASSUME PanelTypeOK, Wired, HideHasSession, InOrder, Outlives, [Next]_panelVars
  PROVE  Outlives'
<1>0. /\ timer \in [in : Times, id : Ids] /\ timer.in \in Times /\ Times \subseteq Int
      /\ hideIn \in Times /\ pausedIn \in Times /\ notice \in Notices
      /\ NoTime = -1
  BY TimesAreInts DEF PanelTypeOK, Wired, Notices
<1>1. ASSUME ShowAfter(0)' <=> ShowAfter(0), UNCHANGED <<notice, timer>>,
             ~touched' => ~touched /\ \A time \in Int : Outlived(time) => Outlived(time)',
             ~touched' => hideIn' # 0 \/ UNCHANGED hideIn
      PROVE  Outlives'
  <2>1. Armed' <=> Armed
    BY <1>1 DEF Armed
  <2>2. ASSUME ~touched', Outlived(timer.in) PROVE Outlived(timer.in)'
    <3>1. PICK time \in Int : time = timer.in
      BY <1>0
    <3>2. Outlived(time)
      BY <2>2, <3>1 DEF Outlived
    <3>3. Outlived(time)'
      BY <1>1, <2>2, <3>2
    <3>4. timer'.in = time
      BY <1>1, <3>1
    <3> QED BY <3>3, <3>4 DEF Outlived
  <2>3. ~touched' => ~touched /\ (hideIn' # 0 \/ UNCHANGED hideIn)
    BY <1>1
  <2> QED BY <1>1, <2>1, <2>2, <2>3 DEF Outlives
<1>2. CASE RevealFires \/ ExitStarts \/ HideFires \/ HoverArrives \/ UNCHANGED panelVars
  <2>1. UNCHANGED <<notice, timer, toRenderer>> /\ (hideIn' # 0 \/ UNCHANGED hideIn)
    BY <1>0, <1>2 DEF RevealFires, ExitStarts, HideFires, HoverArrives, panelVars, noticeVars,
                      windowVars
  <2>2. ShowAfter(0)' <=> ShowAfter(0)
    BY <2>1, QueueKept
  <2> QED BY <1>1, <1>2, <2>1, <2>2, UntoldSteps DEF Untold
<1>3. CASE LeaveArrives
  <2>1. UNCHANGED <<notice, timer>> /\ ResumeHide
    BY <1>3 DEF LeaveArrives, noticeVars
  <2>2. hideIn' > 0 \/ UNCHANGED hideIn
    BY <2>1, HideSteps
  <2>3. hideIn' # 0 \/ UNCHANGED hideIn
    BY <2>2
  <2>4. ShowAfter(0)' <=> ShowAfter(0)
    BY <1>3, UntoldSteps, QueueKept DEF Untold
  <2> QED BY <1>1, <1>3, <2>1, <2>3, <2>4, UntoldSteps DEF Untold
<1>4. CASE DismissArrives \/ User
  <2>1. touched' = TRUE
    BY <1>4 DEF DismissArrives, User, PointerEnters, PointerLeaves, PointerClicks
  <2> QED BY <2>1 DEF Outlives
<1>5. CASE ChordDismisses
  <2>1. touched' = TRUE
    BY <1>5 DEF ChordDismisses
  <2> QED BY <2>1 DEF Outlives
<1>6. CASE DismissFires
  <2>1. UNCHANGED <<toRenderer, hideIn, pausedIn, touched>>
    BY <1>6 DEF DismissFires, windowVars
  <2>2. ShowAfter(0)' <=> ShowAfter(0)
    BY <2>1, QueueKept
  <2>3. CASE timer.id = notice.id
    <3>1. ~IsAuto(notice')
      BY <1>6, <2>3, HiddenType DEF DismissFires, ChangeNotice
    <3> QED BY <2>1, <2>2, <3>1 DEF Outlives
  <2>4. CASE timer.id # notice.id
    <3>1. notice' = notice /\ ~Armed
      BY <1>6, <2>4 DEF DismissFires, Armed
    <3> QED BY <2>1, <2>2, <3>1 DEF Outlives
  <2> QED BY <2>3, <2>4
<1>7. CASE StartSession
  <2>1. hideIn' = NoTime
    BY <1>7 DEF StartSession, Show
  <2>2. Len(toRenderer) \in Nat /\ \A i \in 0 .. Len(toRenderer) : ShowAfter(i)'
    BY <1>7, StartTold
  <2>3. ShowAfter(0)'
    BY <2>2
  <2> QED BY <1>0, <2>1, <2>3 DEF Outlives
<1>8. CASE SlowBeat
  <2>1. UNCHANGED <<notice, timer, hideIn, pausedIn, touched>> /\ Tell(<<Emits(Slow, session)>>)
    BY <1>8 DEF SlowBeat, windowVars, noticeVars
  <2>2. Slow \in Events /\ 0 \in Times
    BY TimesAreInts DEF Events
  <2>3. ShowAfter(0)' <=> ShowAfter(0)
    BY <2>1, <2>2, EventTold
  <2>4. \A time \in Int : Outlived(time) => Outlived(time)'
    BY <2>1 DEF Outlived
  <2> QED BY <1>1, <2>1, <2>3, <2>4
<1>9. CASE CancelRecording \/ \E event \in Endings : SessionEnds(event)
  <2>1. PICK e \in Events, t \in Times \ {NoTime} :
          EndSession(e, t) /\ Ends(e) /\ t > NoticeFor(e).duration + ExitTime
    BY <1>9, EndingStep
  <2>2. live /\ hideIn' = t /\ UNCHANGED notice /\ Tell(<<Emits(e, session), Hides(t)>>)
    BY <2>1 DEF EndSession
  <2>3. ShowAfter(0)' <=> ShowAfter(0)
    BY <2>2, EventTold
  <2>4. IsAuto(notice') => ShowAfter(0)'
    BY <2>2, <2>3 DEF InOrder
  <2>5. NoticeFor(e).duration \in {0, AutoTime, ErrorTime}
    BY EventsTold
  <2>6. hideIn' # 0
    BY <1>0, <2>1, <2>2, <2>5, TimesInOrder
  <2> QED BY <2>4, <2>6 DEF Outlives
<1>10. CASE EventArrives \/ WillShowArrives \/ WillHideArrives
  <2>1. toRenderer # <<>> /\ toRenderer' = Tail(toRenderer)
        /\ UNCHANGED <<hideIn, pausedIn, touched>>
    BY <1>10 DEF EventArrives, WillShowArrives, WillHideArrives, windowVars, noticeVars
  <2>2. /\ Len(toRenderer) \in Nat \ {0} /\ Len(toRenderer') = Len(toRenderer) - 1
        /\ DOMAIN toRenderer = 1 .. Len(toRenderer) /\ Head(toRenderer) = toRenderer[1]
    BY <2>1, HandlingShifts
  <2>3. ShowAfter(0)' <=> ShowAfter(1)
    <3>1. \A i \in Nat, k \in 1 .. Len(toRenderer) : ShowBetween(i, k)' <=> ShowBetween(i + 1, k + 1)
      BY <2>1, HandlingShifts
    <3>2. Len(toRenderer) \in 1 .. Len(toRenderer) /\ Len(toRenderer') + 1 = Len(toRenderer) /\ 0 + 1 = 1
      BY <2>2
    <3> QED BY <3>1, <3>2 DEF ShowAfter
  <2>4. ShowAfter(1) => ShowAfter(0)
    BY <2>2 DEF ShowAfter, ShowBetween
  <2>5. CASE EventArrives \/ WillShowArrives
    <3>1. ASSUME IsAuto(notice'), ~ShowAfter(0)', ~touched PROVE Armed' /\ Outlived(timer.in)'
      <4>1. /\ EventArrives /\ Armed' /\ IsAuto(NoticeFor(Telling(1)))
            /\ timer'.in = NoticeFor(Telling(1)).duration + ExitTime
        BY <2>5, <3>1, NoticeArmed DEF Telling
      <4>2. IsEvent(1) /\ 1 \in DOMAIN toRenderer /\ ~ShowAfter(1)
        BY <2>2, <2>3, <3>1, <4>1 DEF EventArrives, IsEvent
      <4>3. Outlived(NoticeFor(Telling(1)).duration + ExitTime)
        BY <3>1, <4>1, <4>2 DEF InOrder
      <4> QED BY <2>1, <4>1, <4>3 DEF Outlived
    <3> QED BY <2>1, <2>3, <2>4, <3>1 DEF Outlives
  <2>6. CASE WillHideArrives
    <3>1. toRenderer[1].kind # "will-show" /\ UNCHANGED <<notice, timer>>
      BY <2>2, <2>6 DEF WillHideArrives, noticeVars
    <3>2. \A k \in 1 .. (Len(toRenderer) + 1) : ShowBetween(0, k) <=> ShowBetween(1, k)
      BY <2>1, <3>1, HandlingShifts
    <3>3. Len(toRenderer) + 1 \in 1 .. (Len(toRenderer) + 1)
      BY <2>2
    <3>4. ShowAfter(0)' <=> ShowAfter(0)
      BY <2>3, <3>2, <3>3 DEF ShowAfter
    <3>5. \A time \in Int : Outlived(time) => Outlived(time)'
      BY <2>1 DEF Outlived
    <3> QED BY <1>1, <2>1, <3>1, <3>4, <3>5
  <2> QED BY <1>10, <2>5, <2>6
<1>11. CASE Tick
  <2>1. /\ toRenderer = <<>> /\ UNCHANGED <<toRenderer, notice, touched, pausedIn>>
        /\ hideIn' = Less(hideIn) /\ timer.in # 0
    BY <1>11 DEF Tick, Quiet, Due
  <2>2. ~ShowAfter(0) /\ ~ShowAfter(0)'
    BY <2>1 DEF ShowAfter, ShowBetween
  <2>3. ASSUME Armed, Outlived(timer.in) PROVE Armed' /\ Outlived(timer.in)'
    <3>1. timer' = [timer EXCEPT !.in = @ - 1]
      BY <1>11, <2>3 DEF Tick, Armed
    <3>2. timer'.in = timer.in - 1 /\ timer'.id = timer.id
      BY <1>0, <3>1
    <3>3. timer'.in # NoTime
      BY <1>0, <2>1, <2>3, <3>2, TimesAreInts DEF Armed
    <3>4. Armed'
      BY <2>1, <2>3, <3>2, <3>3 DEF Armed
    <3>5. Outlived(timer.in)'
      <4>1. hideIn \in Int /\ pausedIn \in Int /\ timer.in \in Int /\ NoTime = -1
        BY <1>0
      <4>2. hideIn' # NoTime => hideIn # NoTime /\ hideIn' = hideIn - 1
        BY <2>1 DEF Less
      <4>3. hideIn' # NoTime => hideIn' > timer'.in
        BY <2>3, <3>2, <4>1, <4>2 DEF Outlived
      <4>4. pausedIn' # NoTime => pausedIn' > timer'.in
        BY <2>1, <2>3, <3>2, <4>1 DEF Outlived
      <4> QED BY <4>3, <4>4 DEF Outlived
    <3> QED BY <3>4, <3>5
  <2> QED BY <2>1, <2>2, <2>3 DEF Outlives
<1> QED
  BY <1>2, <1>3, <1>4, <1>5, <1>6, <1>7, <1>8, <1>9, <1>10, <1>11
  DEF Next, Main, Session, Renderer

-----------------------------------------------------------------------------
LEMMA InvStep == IInv /\ [Next]_panelVars => IInv'
BY TypeStep, WireStep, HideStep, PointerStep, TimedStep, OrderStep, FaceStep, OutlivesStep
DEF IInv

LEMMA InvSuffices == IInv => PanelInv
<1> SUFFICES ASSUME IInv PROVE PanelInv
  OBVIOUS
<1> USE DEF IInv
<1>1. ClickThroughRests /\ FrozenUnderPointer
  BY DEF ClickThroughRests, FrozenUnderPointer, PointerReturns, Quiet
<1>2. ShowsThisSession
  <2>1. DOMAIN toRenderer = 1 .. Len(toRenderer) /\ Len(toRenderer) \in Nat
    BY DEF Wired
  <2>2. ShowAfter(0) => \E i \in DOMAIN toRenderer : toRenderer[i].kind = "will-show"
    BY <2>1 DEF ShowAfter, ShowBetween
  <2> QED BY <2>2 DEF ShowsThisSession, InOrder, FaceInOrder
<1>3. AutoNoticeIsTimed
  BY DEF AutoNoticeIsTimed, NoticeTimed, Armed
<1> QED BY <1>1, <1>2, <1>3, EndingsAlwaysAgree DEF PanelInv

(* The mouse reaches the window, and a hide is frozen, only under the       *)
(* pointer; a window shows the notice of its own session only, never beside *)
(* a check mark; and a notice that goes by itself has a timer to go by.     *)
THEOREM PanelSafe == Spec => []PanelInv
BY InvInit, InvStep, InvSuffices, PTL DEF Spec

(* A window goes only when its hide timer fires, and by then a notice that  *)
(* goes by itself has gone, unless the user has reached for it.             *)
LEMMA OnlyAfterTheNotice ==
  IInv /\ [Next]_panelVars => (windowShown /\ ~windowShown' /\ IsAuto(notice) => touched)
<1> SUFFICES ASSUME IInv, [Next]_panelVars, windowShown, ~windowShown', IsAuto(notice), ~touched
             PROVE  FALSE
  OBVIOUS
<1>1. HideFires
  BY DEF Next, Main, Session, Renderer, User, RevealFires, HoverArrives, LeaveArrives,
         DismissArrives, ChordDismisses, StartSession, Show, SlowBeat, CancelRecording,
         SessionEnds, EndSession, EventArrives, WillShowArrives, WillHideArrives, ExitStarts,
         DismissFires, PointerEnters, PointerLeaves, PointerClicks, Tick, panelVars, windowVars
<1>2. hideIn = 0
  BY <1>1 DEF HideFires
<1>3. Armed /\ Outlived(timer.in)
  BY <1>2 DEF IInv, Outlives
<1>4. timer.in \in Times /\ timer.in # NoTime
  BY <1>3 DEF IInv, Wired, Armed
<1>5. timer.in >= 0 /\ timer.in \in Int
  BY <1>4, TimesAreInts
<1>6. hideIn > timer.in
  BY <1>2, <1>3, TimesAreInts DEF Outlived
<1> QED BY <1>2, <1>5, <1>6

(* A notice that goes by itself stays for as long as it is meant to: the     *)
(* window is not taken from under it (panelNotices.ts's dwell and            *)
(* capsuleWindow.ts's hide), unless the user has touched it.                 *)
THEOREM NoticeOutlived == Spec => NoBeheading
<1>1. IInv /\ [Next]_panelVars =>
        [windowShown /\ ~windowShown' /\ IsAuto(notice) => touched]_panelVars
  BY OnlyAfterTheNotice
<1> QED BY InvInit, InvStep, <1>1, PTL DEF Spec, NoBeheading

-----------------------------------------------------------------------------
(* The overlay.                                                             *)
LEMMA OverlayStarts == PanelInit => Overlay!OverlayInit
BY DEF PanelInit, Overlay!OverlayInit, NoTime

(* What is left alone.                                                     *)
LEMMA OverlayStutters ==
  ASSUME UNCHANGED <<session, hideIn, pausedIn, revealQueued, windowShown>>
  PROVE  UNCHANGED Overlay!overlayVars
BY DEF Overlay!overlayVars

(* One step per method and timer of the overlay.                           *)
LEMMA OverlayMoves ==
  IInv /\ [Next]_panelVars => [Overlay!OverlayNext]_(Overlay!overlayVars)
<1> SUFFICES ASSUME IInv, [Next]_panelVars
             PROVE  Overlay!OverlayNext \/ UNCHANGED Overlay!overlayVars
  OBVIOUS
<1>0. /\ Floor \in Nat /\ HideDelay \in Nat /\ session \in Nat /\ NoTime = -1
      /\ hideIn \in {NoTime} \cup Nat /\ pausedIn \in {NoTime} \cup Nat
      /\ Lingering => session > 0
      /\ live => session > 0
  BY PanelAssumption DEF IInv, PanelTypeOK, HideHasSession, Times, NoTime
<1> USE DEF Lingering, NoTime, Overlay!HasPendingHide
<1>1. CASE UNCHANGED <<session, hideIn, pausedIn, revealQueued, windowShown>>
  BY <1>1, OverlayStutters
<1>2. CASE RevealFires
  <2>1. Overlay!RevealFires
    BY <1>2 DEF RevealFires, Overlay!RevealFires, sessionVars
  <2> QED BY <2>1 DEF Overlay!OverlayNext
<1>3. CASE HideFires
  <2>1. hideIn # NoTime /\ hideIn' = NoTime /\ session # 0 /\ ~windowShown'
    BY <1>0, <1>3 DEF HideFires
  <2>2. windowShown' = (windowShown /\ session # session)
    BY <1>3, Zenon DEF HideFires
  <2>3. Overlay!HideFires
    BY <1>3, <2>1, <2>2 DEF HideFires, Overlay!HideFires, sessionVars
  <2> QED BY <2>3 DEF Overlay!OverlayNext
<1>4. CASE HoverArrives
  <2>1. CASE hideIn = NoTime
    BY <2>1, <1>4, OverlayStutters DEF HoverArrives, sessionVars
  <2>2. CASE hideIn # NoTime
    <3>1. Overlay!PauseHide
      BY <1>0, <1>4, <2>2 DEF HoverArrives, Overlay!PauseHide, sessionVars
    <3> QED BY <3>1 DEF Overlay!OverlayNext
  <2> QED BY <2>1, <2>2
<1>5. CASE LeaveArrives
  <2>1. CASE pausedIn = NoTime
    BY <2>1, <1>5, OverlayStutters DEF LeaveArrives, ResumeHide, sessionVars
  <2>2. CASE pausedIn # NoTime
    <3>1. Overlay!ResumeHide
      BY <2>2, <1>5, <1>0 DEF LeaveArrives, ResumeHide, Later, Overlay!ResumeHide, sessionVars
    <3> QED BY <3>1 DEF Overlay!OverlayNext
  <2> QED BY <2>1, <2>2
<1>6. CASE DismissArrives \/ ChordDismisses
  <2>1. Expedite /\ UNCHANGED <<session, revealQueued, windowShown>>
    BY <1>6 DEF DismissArrives, ChordDismisses
  <2>2. Overlay!ExpediteHide
    BY <2>1, <1>0 DEF Expedite, Earlier, Overlay!ExpediteHide
  <2> QED BY <2>2 DEF Overlay!OverlayNext
<1>7. CASE StartSession
  <2>1. Overlay!ShowCapsule
    BY <1>0, <1>7 DEF StartSession, Show, Overlay!ShowCapsule
  <2> QED BY <2>1 DEF Overlay!OverlayNext
<1>8. ASSUME NEW event, NEW linger \in Nat, EndSession(event, linger)
      PROVE  Overlay!OverlayNext
  <2>1. Overlay!ScheduleHide
    BY <1>0, <1>8 DEF EndSession, Overlay!ScheduleHide
  <2> QED BY <2>1 DEF Overlay!OverlayNext
<1>9. CASE CancelRecording \/ \E event \in Endings : SessionEnds(event)
  <2>1. PICK e \in Events, t \in Times \ {NoTime} : EndSession(e, t)
    BY <1>9, EndingStep
  <2>2. t \in Nat
    BY TimesAreInts
  <2> QED BY <1>8, <2>1, <2>2
<1>10. CASE Tick
  <2>1. (hideIn' = NoTime) <=> (hideIn = NoTime)
    BY <1>0, <1>10 DEF Tick, Due, Less
  <2> QED BY <2>1, <1>10 DEF Tick, sessionVars, Overlay!overlayVars
<1> QED
  BY <1>1, <1>2, <1>3, <1>4, <1>5, <1>6, <1>7, <1>9, <1>10
  DEF Next, Main, Session, Renderer, User, SlowBeat, EventArrives,
      WillShowArrives, WillHideArrives, ExitStarts, DismissFires, PointerEnters,
      PointerLeaves, PointerClicks, panelVars, sessionVars, windowVars

(* The overlay with its times behaves as the overlay without them, which is *)
(* what lets the voice modules go without a clock.                          *)
THEOREM OverlayImplemented == Spec => ImplementsOverlay
<1>1. IInv /\ [Next]_panelVars => [Overlay!OverlayNext]_(Overlay!overlayVars)
  BY OverlayMoves
<1> QED
  BY InvInit, InvStep, OverlayStarts, <1>1, PTL DEF Spec, ImplementsOverlay, Overlay!OverlaySpec

-----------------------------------------------------------------------------
(* AppLife, for any profiles, displays, saved frames and any number of      *)
(* operations.  First what the seed makes of a profile, then where the      *)
(* capsule and the main window are put, then the life of the process.       *)

LEMMA RowsShape ==
  ASSUME NEW d \in Databases
  PROVE  /\ d.modes \in [ModeIds -> Rows \cup {None}]
         /\ d.dictionary \in [Terms -> Sources \cup {None}]
         /\ d.done \subseteq Flags
         /\ d.hide_app_icon \in BOOLEAN /\ d.launch_at_login \in BOOLEAN
         /\ d.damage \in {"none", "file", "settings", "modes", "rows"}
BY DEF Databases

LEMMA SameDatabase ==
  ASSUME NEW d \in Databases, NEW e \in Databases, e.modes = d.modes,
         e.dictionary = d.dictionary, e.done = d.done, e.damage = d.damage,
         e.hide_app_icon = d.hide_app_icon, e.launch_at_login = d.launch_at_login
  PROVE  e = d
BY DEF Databases

(* A write to one mode's row leaves a table of modes.                       *)
LEMMA RowWritten ==
  ASSUME NEW modes \in [ModeIds -> Rows \cup {None}], NEW row \in Rows, NEW m \in ModeIds
  PROVE  /\ [modes EXCEPT ![m] = row] \in [ModeIds -> Rows \cup {None}]
         /\ \A o \in ModeIds : [modes EXCEPT ![m] = row][o] = IF o = m THEN row ELSE modes[o]
OBVIOUS

LEMMA StockIsRow ==
  ASSUME NEW m
  PROVE  Stock(m) \in Rows
BY ChordsAssumption DEF Stock, Rows, Prompts

(* One step of the seed keeps what is not the modes'.                       *)
Keeps(d, e) ==
  /\ e.hide_app_icon = d.hide_app_icon /\ e.launch_at_login = d.launch_at_login
  /\ e.damage = d.damage

(* Every built-in mode is there.                                            *)
Seeds(d) == d \in Databases /\ \A m \in BuiltIns : d.modes[m] \in Rows

LEMMA SeedModesDoes ==
  ASSUME NEW d \in Databases
  PROVE  /\ Seeds(SeedModes(d)) /\ Keeps(d, SeedModes(d))
         /\ SeedModes(d).done = d.done \cup {"seed"}
         /\ SeedModes(d).dictionary = d.dictionary
         /\ \A m \in ModeIds :
              SeedModes(d).modes[m] = IF m \in BuiltIns /\ d.modes[m] = None THEN Stock(m)
                                      ELSE d.modes[m]
<1> DEFINE e == SeedModes(d)
<1>1. /\ e.modes = [m \in ModeIds |-> IF m \in BuiltIns /\ d.modes[m] = None THEN Stock(m)
                                      ELSE d.modes[m]]
      /\ e.done = d.done \cup {"seed"} /\ e.dictionary = d.dictionary
      /\ Keeps(d, e)
  BY DEF SeedModes, Databases, Keeps
<1>2. e.modes \in [ModeIds -> Rows \cup {None}]
  BY <1>1, StockIsRow, RowsShape
<1>3. e \in Databases
  BY <1>2, <1>1 DEF SeedModes, Databases, Flags
<1>4. \A m \in BuiltIns : e.modes[m] \in Rows
  BY <1>1, StockIsRow, RowsShape DEF ModeIds
<1> QED BY <1>1, <1>3, <1>4 DEF Seeds

LEMMA SeedDictionaryDoes ==
  ASSUME NEW d \in Databases, Seeds(d)
  PROVE  /\ Seeds(SeedDictionary(d)) /\ Keeps(d, SeedDictionary(d))
         /\ SeedDictionary(d).modes = d.modes
         /\ SeedDictionary(d).done = d.done \cup {"dictionary"}
         /\ "dictionary" \in d.done => SeedDictionary(d) = d
BY DEF SeedDictionary, Databases, Keeps, Seeds, Flags, Sources

LEMMA RepairChordDoes ==
  ASSUME NEW d \in Databases, Seeds(d)
  PROVE  /\ Seeds(RepairChord(d)) /\ Keeps(d, RepairChord(d))
         /\ \A m \in ModeIds \ {"default"} : RepairChord(d).modes[m] = d.modes[m]
         /\ RepairChord(d).modes["default"] # d.modes["default"] =>
              d.modes["default"].stockName /\ d.modes["default"].prompt = "empty"
         /\ RepairChord(d).modes["default"].stockName = d.modes["default"].stockName
         /\ RepairChord(d).modes["default"].prompt = d.modes["default"].prompt
         /\ RepairChord(d).done = d.done \cup {"chord"}
         /\ "chord" \in d.done => RepairChord(d) = d
<1>1. CASE "chord" \in d.done
  BY <1>1 DEF RepairChord, Keeps
<1>2. CASE "chord" \notin d.done
  <2> DEFINE e == RepairChord(d)
             row == d.modes["default"]
             new == IF row.stockName /\ row.prompt = "empty" /\ row.hotkey = {"LeftMeta"}
                      THEN [row EXCEPT !.hotkey = {"RightMeta"}] ELSE row
  <2>1. row \in Rows /\ "default" \in ModeIds
    BY DEF Seeds, BuiltIns, ModeIds
  <2>2. /\ e.modes = [d.modes EXCEPT !["default"] = new]
        /\ e.done = d.done \cup {"chord"} /\ Keeps(d, e) /\ e.dictionary = d.dictionary
    BY <1>2 DEF RepairChord, Databases, Keeps
  <2>3. new \in Rows /\ new.stockName = row.stockName /\ new.prompt = row.prompt
    BY <2>1, ChordsAssumption DEF Rows
  <2>9. new # row => row.stockName /\ row.prompt = "empty"
    OBVIOUS
  <2> HIDE DEF new
  <2>a. d.modes \in [ModeIds -> Rows \cup {None}]
    BY RowsShape
  <2>4. e.modes \in [ModeIds -> Rows \cup {None}]
    BY <2>1, <2>2, <2>3, <2>a, RowWritten
  <2>5. e \in Databases
    BY <1>2, <2>2, <2>4 DEF RepairChord, Databases, Flags
  <2>6. \A m \in ModeIds : e.modes[m] = IF m = "default" THEN new ELSE d.modes[m]
    BY <2>1, <2>2, <2>3, <2>a, RowWritten
  <2>7. Seeds(e)
    BY <2>5, <2>6, <2>3 DEF Seeds, ModeIds
  <2> QED BY <2>1, <2>2, <2>3, <2>6, <2>7, <2>9, <1>2
<1> QED BY <1>1, <1>2

LEMMA RepairWindowsChordDoes ==
  ASSUME NEW d \in Databases, Seeds(d), NEW os
  PROVE  LET e == RepairWindowsChord(d, os) IN
         /\ Seeds(e) /\ Keeps(d, e)
         /\ \A m \in ModeIds \ {"default"} : e.modes[m] = d.modes[m]
         /\ e.modes["default"] # d.modes["default"] =>
              d.modes["default"].stockName /\ d.modes["default"].prompt # "own"
         /\ e.modes["default"].prompt = d.modes["default"].prompt
         /\ d.done \subseteq e.done
         /\ e.done \subseteq d.done \cup {"windows_chord"}
         /\ os # "win32" \/ "windows_chord" \in d.done => e = d
<1> DEFINE e == RepairWindowsChord(d, os)
<1>1. CASE os # "win32" \/ "windows_chord" \in d.done
  BY <1>1 DEF RepairWindowsChord, Keeps
<1>2. CASE ~(os # "win32" \/ "windows_chord" \in d.done)
  <2> DEFINE row == d.modes["default"]
             taken == \E m \in ModeIds \ {"default"} :
                        d.modes[m] # None /\ d.modes[m].hotkey = {"RightCtrl"}
             new == IF row.stockName /\ row.prompt # "own" /\ row.hotkey \in WindowsDefaults
                      THEN [row EXCEPT !.hotkey = IF taken THEN {} ELSE {"RightCtrl"}]
                      ELSE row
  <2>1. row \in Rows /\ "default" \in ModeIds
    BY DEF Seeds, BuiltIns, ModeIds
  <2>2. /\ e.modes = [d.modes EXCEPT !["default"] = new]
        /\ e.done = d.done \cup {"windows_chord"} /\ Keeps(d, e) /\ e.dictionary = d.dictionary
    BY <1>2 DEF RepairWindowsChord, Databases, Keeps
  <2>3. new \in Rows /\ new.prompt = row.prompt
    <3> HIDE DEF taken
    <3> QED BY <2>1, ChordsAssumption DEF Rows
  <2>9. new # row => row.stockName /\ row.prompt # "own"
    OBVIOUS
  <2> HIDE DEF new
  <2>a. d.modes \in [ModeIds -> Rows \cup {None}]
    BY RowsShape
  <2>4. e.modes \in [ModeIds -> Rows \cup {None}]
    BY <2>1, <2>2, <2>3, <2>a, RowWritten
  <2>5. e \in Databases
    BY <1>2, <2>2, <2>4 DEF RepairWindowsChord, Databases, Flags
  <2>6. \A m \in ModeIds : e.modes[m] = IF m = "default" THEN new ELSE d.modes[m]
    BY <2>1, <2>2, <2>3, <2>a, RowWritten
  <2>7. Seeds(e)
    BY <2>5, <2>6, <2>3 DEF Seeds, ModeIds
  <2> QED BY <2>1, <2>2, <2>3, <2>6, <2>7, <2>9, <1>2
<1> QED BY <1>1, <1>2

LEMMA RepairPromptsDoes ==
  ASSUME NEW d \in Databases, Seeds(d)
  PROVE  /\ Seeds(RepairPrompts(d)) /\ Keeps(d, RepairPrompts(d))
         /\ RepairPrompts(d).modes["mine"] = d.modes["mine"]
         /\ \A m \in BuiltIns : RepairPrompts(d).modes[m] # d.modes[m] =>
              d.modes[m].prompt = "empty"
         /\ RepairPrompts(d).done = d.done \cup {"prompts"}
         /\ "prompts" \in d.done => RepairPrompts(d) = d
<1>1. CASE "prompts" \in d.done
  BY <1>1 DEF RepairPrompts, Keeps
<1>2. CASE "prompts" \notin d.done
  <2> DEFINE e == RepairPrompts(d)
             new(m) == IF m \in BuiltIns /\ d.modes[m].prompt = "empty"
                         THEN [d.modes[m] EXCEPT !.prompt = "stock"] ELSE d.modes[m]
  <2>1. /\ e.modes = [m \in ModeIds |-> new(m)]
        /\ e.done = d.done \cup {"prompts"} /\ Keeps(d, e) /\ e.dictionary = d.dictionary
    BY <1>2 DEF RepairPrompts, Databases, Keeps
  <2>2. \A m \in BuiltIns : new(m) \in Rows
    BY DEF Seeds, Rows, Prompts
  <2>3. \A m \in ModeIds : new(m) \in Rows \cup {None}
    BY <2>2, RowsShape
  <2>4. e.modes \in [ModeIds -> Rows \cup {None}] /\ \A m \in BuiltIns : e.modes[m] \in Rows
    BY <2>1, <2>2, <2>3 DEF ModeIds
  <2>5. e \in Databases
    BY <1>2, <2>1, <2>4 DEF RepairPrompts, Databases, Flags
  <2>6. e.modes["mine"] = d.modes["mine"]
    BY <2>1 DEF ModeIds, BuiltIns
  <2>7. \A m \in BuiltIns : e.modes[m] # d.modes[m] => d.modes[m].prompt = "empty"
    BY <2>1 DEF ModeIds
  <2> QED BY <2>1, <2>4, <2>5, <2>6, <2>7, <1>2 DEF Seeds
<1> QED BY <1>1, <1>2

(* What a boot does to a profile.                                           *)
LEMMA SeededKeeps ==
  ASSUME NEW d \in Databases, HasBuiltIns(d), NEW os \in {"darwin", "win32"}
  PROVE  /\ Seeded(d, os) \in Databases /\ HasBuiltIns(Seeded(d, os))
         /\ Keeps(d, Seeded(d, os))
         /\ KeepsUserData(d, Seeded(d, os), os)
<1> DEFINE e1 == SeedModes(d)
           e2 == SeedDictionary(e1)
           e3 == RepairChord(e2)
           e4 == RepairWindowsChord(e3, os)
           e5 == RepairPrompts(e4)
<1>0. Seeded(d, os) = e5
  BY DEF Seeded
<1>1. /\ Seeds(e1) /\ Keeps(d, e1) /\ e1.done = d.done \cup {"seed"}
      /\ e1.dictionary = d.dictionary
      /\ \A m \in ModeIds : e1.modes[m] = IF m \in BuiltIns /\ d.modes[m] = None THEN Stock(m)
                                          ELSE d.modes[m]
  BY SeedModesDoes
<1>x. e1 \in Databases
  BY <1>1 DEF Seeds
<1> HIDE DEF e1
<1>2. /\ Seeds(e2) /\ Keeps(e1, e2) /\ e2.modes = e1.modes
      /\ e2.done = e1.done \cup {"dictionary"}
      /\ "dictionary" \in e1.done => e2 = e1
  BY <1>1, <1>x, SeedDictionaryDoes
<1>y. e2 \in Databases
  BY <1>2 DEF Seeds
<1> HIDE DEF e2
<1>3. /\ Seeds(e3) /\ Keeps(e2, e3)
      /\ \A m \in ModeIds \ {"default"} : e3.modes[m] = e2.modes[m]
      /\ e3.modes["default"] # e2.modes["default"] =>
           e2.modes["default"].stockName /\ e2.modes["default"].prompt = "empty"
      /\ e3.modes["default"].stockName = e2.modes["default"].stockName
      /\ e3.modes["default"].prompt = e2.modes["default"].prompt
      /\ e3.done = e2.done \cup {"chord"}
      /\ "chord" \in e2.done => e3 = e2
  BY <1>2, <1>y, RepairChordDoes
<1>z. e3 \in Databases
  BY <1>3 DEF Seeds
<1> HIDE DEF e3
<1>4. /\ Seeds(e4) /\ Keeps(e3, e4)
      /\ \A m \in ModeIds \ {"default"} : e4.modes[m] = e3.modes[m]
      /\ e4.modes["default"] # e3.modes["default"] =>
           e3.modes["default"].stockName /\ e3.modes["default"].prompt # "own"
      /\ e4.modes["default"].prompt = e3.modes["default"].prompt
      /\ e3.done \subseteq e4.done /\ e4.done \subseteq e3.done \cup {"windows_chord"}
      /\ os # "win32" \/ "windows_chord" \in e3.done => e4 = e3
  BY <1>3, <1>z, RepairWindowsChordDoes
<1>w. e4 \in Databases
  BY <1>4 DEF Seeds
<1> HIDE DEF e4
<1>5. /\ Seeds(e5) /\ Keeps(e4, e5) /\ e5.modes["mine"] = e4.modes["mine"]
      /\ \A m \in BuiltIns : e5.modes[m] # e4.modes[m] => e4.modes[m].prompt = "empty"
      /\ e5.done = e4.done \cup {"prompts"}
      /\ "prompts" \in e4.done => e5 = e4
  BY <1>4, <1>w, RepairPromptsDoes
<1> HIDE DEF e5
<1>6. e5 \in Databases /\ Keeps(d, e5)
  BY <1>1, <1>2, <1>3, <1>4, <1>5 DEF Seeds, Keeps
<1>7. HasBuiltIns(e5)
  BY <1>5, NoneAssumption DEF Seeds, HasBuiltIns
<1>8. e5.modes["mine"] = d.modes["mine"]
  BY <1>1, <1>2, <1>3, <1>4, <1>5 DEF ModeIds, BuiltIns
<1>9. ASSUME NEW m \in BuiltIns, d.modes[m] # None
      PROVE  /\ d.modes[m].prompt = "own" => e5.modes[m] = d.modes[m]
             /\ e5.modes[m] # d.modes[m] =>
                  (d.modes[m].stockName /\ d.modes[m].prompt # "own") \/ d.modes[m].prompt = "empty"
  <2>1. e2.modes[m] = d.modes[m] /\ m \in ModeIds
    BY <1>1, <1>2, <1>9 DEF ModeIds
  <2>2. CASE m = "default"
    <3>1. e3.modes[m].prompt = d.modes[m].prompt /\ e3.modes[m].stockName = d.modes[m].stockName
          /\ e4.modes[m].prompt = d.modes[m].prompt
      BY <1>3, <1>4, <2>1, <2>2
    <3> QED BY <1>3, <1>4, <1>5, <2>1, <2>2, <3>1
  <2>3. CASE m # "default"
    <3>1. e4.modes[m] = d.modes[m]
      BY <1>3, <1>4, <2>1, <2>3
    <3> QED BY <3>1, <1>5
  <2> QED BY <2>2, <2>3
<1>10. FlagsOf(os) \subseteq d.done => e5 = d
  <2> SUFFICES ASSUME FlagsOf(os) \subseteq d.done PROVE e5 = d
    OBVIOUS
  <2>1. {"seed", "dictionary", "chord", "prompts"} \subseteq d.done
        /\ (os = "win32" => "windows_chord" \in d.done)
    BY DEF FlagsOf, Flags
  <2>2. \A m \in BuiltIns : d.modes[m] # None
    BY <2>1 DEF HasBuiltIns, Flags
  <2>3. e1 = d
    <3>1. e1.modes = d.modes
      BY <1>1, <2>2, <1>x DEF Databases, ModeIds
    <3>2. e1.done = d.done
      BY <1>1, <2>1
    <3> QED BY <3>1, <3>2, <1>1, <1>x, SameDatabase DEF Keeps
  <2>4. e2 = d /\ e3 = d
    BY <2>1, <2>3, <1>2, <1>3
  <2> QED BY <2>1, <2>4, <1>4, <1>5
<1>11. KeepsUserData(d, e5, os)
  <2>1. \A m \in BuiltIns :
          d.modes[m] # None /\ d.modes[m].prompt = "own" => e5.modes[m] = d.modes[m]
    BY <1>9
  <2>2. \A m \in BuiltIns :
          e5.modes[m] # d.modes[m] => Untouched(m, d.modes[m]) \/ d.modes[m].prompt = "empty"
    BY <1>9 DEF Untouched
  <2> QED BY <2>1, <2>2, <1>6, <1>8, <1>10 DEF KeepsUserData, Keeps
<1> QED BY <1>0, <1>6, <1>7, <1>11


(* A set of natural numbers has a least one.                                *)
LEMMA LeastExists ==
  ASSUME NEW T, T \subseteq Nat, T # {}
  PROVE  \E x \in T : \A y \in T : x <= y
<1>1. PICK x \in T : \A y \in T : <<y, x>> \notin OpToRel(<, Nat)
  BY NatLessThanWellFounded, WFMin
<1>2. \A y \in T : ~(y < x)
  BY <1>1 DEF OpToRel
<1> QED BY <1>2

LEMMA MinIsLeast ==
  ASSUME NEW T, T \subseteq Nat, T # {}
  PROVE  Min(T) \in T /\ \A y \in T : Min(T) <= y
BY LeastExists DEF Min

LEMMA MaxOfTwo ==
  ASSUME NEW a \in Int, NEW b \in Int
  PROVE  Max({a, b}) = IF a >= b THEN a ELSE b
<1> DEFINE m == IF a >= b THEN a ELSE b
<1>1. m \in {a, b} /\ \A y \in {a, b} : m >= y
  OBVIOUS
<1>2. \A x \in {a, b} : (\A y \in {a, b} : x >= y) => x = m
  OBVIOUS
<1> QED BY <1>1, <1>2 DEF Max

LEMMA MaxOfThree ==
  ASSUME NEW a \in Int, NEW b \in Int, NEW c \in Int
  PROVE  /\ Max({a, b, c}) \in {a, b, c}
         /\ Max({a, b, c}) >= a /\ Max({a, b, c}) >= b /\ Max({a, b, c}) >= c
<1>1. \E x \in {a, b, c} : \A y \in {a, b, c} : x >= y
  OBVIOUS
<1> QED BY <1>1 DEF Max

TwoAxes == {"x", "y"}

LEMMA RectangleShape ==
  ASSUME NEW r \in Rectangles, NEW axis \in TwoAxes
  PROVE  /\ r[axis].at \in Int /\ r[axis].size \in Nat /\ End(r, axis) \in Int
         /\ End(r, axis) = r[axis].at + r[axis].size
         /\ r.x = r["x"] /\ r.y = r["y"]
BY DEF Rectangles, End, TwoAxes

LEMMA DistanceShape ==
  ASSUME NEW r \in Rectangles, NEW point \in [TwoAxes -> Int]
  PROVE  /\ DistanceSquared(point, r) \in Nat
         /\ Contains(r, point) => DistanceSquared(point, r) = 0
<1> DEFINE beyond(axis) == Max({0, r[axis].at - point[axis], point[axis] - End(r, axis)})
<1>1. ASSUME NEW axis \in TwoAxes
      PROVE  beyond(axis) \in Nat /\ (Contains(r, point) => beyond(axis) = 0)
  <2>1. /\ r[axis].at - point[axis] \in Int /\ point[axis] - End(r, axis) \in Int
        /\ r[axis].at \in Int /\ point[axis] \in Int /\ End(r, axis) \in Int
    BY RectangleShape
  <2>2. /\ beyond(axis) \in {0, r[axis].at - point[axis], point[axis] - End(r, axis)}
        /\ beyond(axis) >= 0
    <3> DEFINE a == r[axis].at - point[axis]
               b == point[axis] - End(r, axis)
    <3>1. 0 \in Int /\ a \in Int /\ b \in Int
      BY <2>1
    <3> HIDE DEF a, b
    <3>2. Max({0, a, b}) \in {0, a, b} /\ Max({0, a, b}) >= 0
      BY <3>1, MaxOfThree
    <3> QED BY <3>2 DEF a, b
  <2>3. Contains(r, point) => r[axis].at <= point[axis] /\ point[axis] < End(r, axis)
    BY DEF Contains, TwoAxes
  <2> HIDE DEF beyond
  <2> QED BY <2>1, <2>2, <2>3
<1>2. beyond("x") \in Nat /\ beyond("y") \in Nat
  BY <1>1 DEF TwoAxes
<1>3. DistanceSquared(point, r) = beyond("x") * beyond("x") + beyond("y") * beyond("y")
  BY DEF DistanceSquared
<1>4. Contains(r, point) => beyond("x") = 0 /\ beyond("y") = 0
  BY <1>1 DEF TwoAxes
<1> HIDE DEF beyond
<1>5. \A a, b \in Nat : a * a + b * b \in Nat
  OBVIOUS
<1> QED BY <1>2, <1>3, <1>4, <1>5

Screens == [bounds : Rectangles, work : Rectangles]

LEMMA ArrangementShape ==
  ASSUME NEW arrangement \in Arrangements
  PROVE  /\ Len(arrangement) \in Nat \ {0} /\ DOMAIN arrangement = 1 .. Len(arrangement)
         /\ \A i \in DOMAIN arrangement :
              /\ arrangement[i].bounds \in Rectangles /\ arrangement[i].work \in Rectangles
              /\ End(arrangement[i].work, "y") <= End(arrangement[i].bounds, "y")
<1>1. arrangement \in Seq(Screens) /\ arrangement # << >>
  BY PlaceAssumption DEF Screens
<1>2. \A i \in DOMAIN arrangement : arrangement[i] \in Screens
  BY <1>1
<1>3. \A i \in DOMAIN arrangement :
        /\ arrangement[i].bounds \in Rectangles /\ arrangement[i].work \in Rectangles
  BY <1>2 DEF Screens
<1>4. ASSUME NEW i \in DOMAIN arrangement
      PROVE  End(arrangement[i].work, "y") <= End(arrangement[i].bounds, "y")
  <2>1. arrangement[i].work.y.at + arrangement[i].work.y.size <=
          arrangement[i].bounds.y.at + arrangement[i].bounds.y.size
    BY PlaceAssumption
  <2> QED BY <2>1, <1>3, RectangleShape DEF End, TwoAxes
<1> QED BY <1>1, <1>3, <1>4

(* The display chosen for the cursor is one of the nearest.                 *)
LEMMA NearestIsChosen ==
  ASSUME NEW arrangement \in Arrangements, NEW point \in Cursors
  PROVE  \E i \in DOMAIN arrangement :
           /\ DisplayForCursor(arrangement, point) = arrangement[i]
           /\ \A j \in DOMAIN arrangement :
                DistanceSquared(point, arrangement[i].bounds) <=
                  DistanceSquared(point, arrangement[j].bounds)
<1> DEFINE distance(i) == DistanceSquared(point, arrangement[i].bounds)
           D == DOMAIN arrangement
           holding == {i \in D : Contains(arrangement[i].bounds, point)}
           distances == {distance(i) : i \in D}
           nearest == {i \in D : distance(i) = Min(distances)}
<1>1. point \in [TwoAxes -> Int]
  BY PlaceAssumption DEF TwoAxes
<1>2. D \subseteq Nat /\ 1 \in D
  BY ArrangementShape
<1>3. \A i \in D : /\ distance(i) \in Nat
                   /\ Contains(arrangement[i].bounds, point) => distance(i) = 0
  BY <1>1, ArrangementShape, DistanceShape
<1>4. DisplayForCursor(arrangement, point) =
        IF holding # {} THEN arrangement[Min(holding)] ELSE arrangement[Min(nearest)]
  BY DEF DisplayForCursor, NearestDisplay
<1>5. CASE holding # {}
  <2>1. Min(holding) \in holding
    <3>1. holding \subseteq Nat
      BY <1>2
    <3> HIDE DEF holding
    <3> QED BY <3>1, <1>5, MinIsLeast
  <2>2. Min(holding) \in D /\ distance(Min(holding)) = 0
    BY <2>1, <1>3
  <2>3. \A j \in D : distance(Min(holding)) <= distance(j)
    <3> HIDE DEF distance, holding
    <3> QED BY <2>2, <1>3
  <2> QED BY <2>2, <2>3, <1>4, <1>5
<1>6. CASE holding = {}
  <2>1. distances \subseteq Nat /\ distances # {}
    BY <1>2, <1>3
  <2>2. Min(distances) \in distances /\ \A y \in distances : Min(distances) <= y
    <3> HIDE DEF distances
    <3> QED BY <2>1, MinIsLeast
  <2>3. nearest \subseteq Nat /\ nearest # {}
    BY <2>2, <1>2
  <2>4. Min(nearest) \in nearest
    <3> HIDE DEF nearest
    <3> QED BY <2>3, MinIsLeast
  <2>5. Min(nearest) \in D /\ \A j \in D : distance(Min(nearest)) <= distance(j)
    BY <2>2, <2>4
  <2> QED BY <2>5, <1>4, <1>6
<1> QED BY <1>5, <1>6

(* The pill's gap over a work area.                                         *)
LEMMA GapShape ==
  ASSUME NEW display \in Screens, End(display.work, "y") <= End(display.bounds, "y")
  PROVE  LET gap == OverlayGap(display)
             inset == End(display.bounds, "y") - End(display.work, "y")
         IN /\ inset \in Nat /\ gap \in Nat /\ gap <= PillGap
            /\ gap + StackPadding = IF PillGap - inset >= Clearance THEN PillGap - inset
                                    ELSE Clearance
<1> DEFINE inset == End(display.bounds, "y") - End(display.work, "y")
<1>1. /\ display.work \in Rectangles /\ display.bounds \in Rectangles
      /\ End(display.bounds, "y") \in Int /\ End(display.work, "y") \in Int
  BY RectangleShape DEF Screens, TwoAxes
<1>2. inset \in Nat
  BY <1>1
<1>3. BottomInset(display) = inset
  BY <1>1, MaxOfTwo DEF BottomInset
<1>4. OverlayGap(display) = Max({0, Max({Clearance, PillGap - inset}) - StackPadding})
  BY <1>3 DEF OverlayGap
<1> HIDE DEF inset
<1>5. Max({Clearance, PillGap - inset}) = IF PillGap - inset >= Clearance THEN PillGap - inset
                                          ELSE Clearance
  <2>1. Clearance \in Int /\ PillGap - inset \in Int
    BY <1>2 DEF Clearance, PillGap
  <2> QED BY <2>1, MaxOfTwo DEF Clearance, PillGap
<1> DEFINE m == Max({Clearance, PillGap - inset})
<1>6. m \in Nat /\ m >= 8 /\ m <= 72
  BY <1>2, <1>5 DEF Clearance, PillGap
<1> HIDE DEF m
<1>7. Max({0, m - StackPadding}) = m - StackPadding
  <2>1. m - StackPadding \in Int /\ m - StackPadding >= 0
    BY <1>6 DEF StackPadding
  <2>2. Max({0, m - StackPadding}) = IF 0 >= m - StackPadding THEN 0 ELSE m - StackPadding
    BY <2>1, MaxOfTwo
  <2> QED BY <2>1, <2>2
<1>8. OverlayGap(display) = m - StackPadding
  BY <1>4, <1>7 DEF m
<1>9. /\ OverlayGap(display) \in Nat /\ OverlayGap(display) <= PillGap
      /\ OverlayGap(display) + StackPadding = m
  BY <1>6, <1>8 DEF StackPadding, PillGap
<1> QED BY <1>2, <1>5, <1>9 DEF m, inset

(* CapsuleIsPlaced of CapsulePlace, for every arrangement of displays,      *)
(* cursor and size of the capsule: computeCapsuleBounds puts the capsule on *)
(* a display no other is nearer to the cursor than, inside its work area    *)
(* where it fits, with the pill clear of the Dock and of the edge of the    *)
(* screen.                                                                  *)
THEOREM CapsulePlaced == CapsuleIsPlaced
<1> SUFFICES ASSUME NEW arrangement \in Arrangements, NEW point \in Cursors
    PROVE LET at == CapsuleBounds(arrangement, point)
              pillBottom == End(at, "y") - StackPadding
          IN \E i \in DOMAIN arrangement :
               LET bounds == arrangement[i].bounds
                   work == arrangement[i].work
                   fits == CapsuleSize.x <= work.x.size /\ CapsuleSize.y + PillGap <= work.y.size
               IN /\ \A j \in DOMAIN arrangement :
                       DistanceSquared(point, bounds) <= DistanceSquared(point, arrangement[j].bounds)
                  /\ fits => \A axis \in {"x", "y"} :
                       work[axis].at <= at[axis].at /\ End(at, axis) <= End(work, axis)
                  /\ pillBottom <= End(work, "y") - Clearance
                  /\ pillBottom <= End(bounds, "y") - PillGap
                  /\ pillBottom \in {End(work, "y") - Clearance, End(bounds, "y") - PillGap}
  BY DEF CapsuleIsPlaced
<1>1. PICK i \in DOMAIN arrangement :
        /\ DisplayForCursor(arrangement, point) = arrangement[i]
        /\ \A j \in DOMAIN arrangement :
             DistanceSquared(point, arrangement[i].bounds) <=
               DistanceSquared(point, arrangement[j].bounds)
  BY NearestIsChosen
<1> DEFINE display == arrangement[i]
           work == display.work
           bounds == display.bounds
           at == CapsuleBounds(arrangement, point)
           gap == OverlayGap(display)
           pillBottom == End(at, "y") - StackPadding
<1>2. /\ display \in Screens /\ work \in Rectangles /\ bounds \in Rectangles
      /\ End(work, "y") <= End(bounds, "y")
  <2>0. arrangement \in Seq(Screens)
    BY PlaceAssumption DEF Screens
  <2>1. \A k \in DOMAIN arrangement : arrangement[k] \in Screens
    BY <2>0
  <2> QED BY <2>1, ArrangementShape
<1>3. at = [x |-> [at |-> work.x.at + (work.x.size - CapsuleSize.x + 1) \div 2,
                   size |-> CapsuleSize.x],
            y |-> [at |-> End(work, "y") - CapsuleSize.y - gap, size |-> CapsuleSize.y]]
  BY <1>1 DEF CapsuleBounds
<1> DEFINE inset == End(bounds, "y") - End(work, "y")
<1>4. /\ inset \in Nat /\ gap \in Nat /\ gap <= PillGap
      /\ gap + StackPadding = IF PillGap - inset >= Clearance THEN PillGap - inset ELSE Clearance
  BY <1>2, GapShape
<1>5. /\ CapsuleSize.x \in Nat /\ CapsuleSize.y \in Nat
  BY PlaceAssumption
<1>6. /\ work["x"].at \in Int /\ work["x"].size \in Nat /\ work["y"].at \in Int
      /\ work["y"].size \in Nat /\ End(work, "x") = work["x"].at + work["x"].size
      /\ End(work, "y") = work["y"].at + work["y"].size
      /\ End(work, "y") \in Int /\ End(bounds, "y") \in Int
      /\ work.x = work["x"] /\ work.y = work["y"]
  BY <1>2, RectangleShape DEF TwoAxes
<1>7. /\ at["x"].at = work["x"].at + (work["x"].size - CapsuleSize.x + 1) \div 2
      /\ at["x"].size = CapsuleSize.x
      /\ at["y"].at = End(work, "y") - CapsuleSize.y - gap
      /\ at["y"].size = CapsuleSize.y
  BY <1>3, <1>6
<1> HIDE DEF at, gap, display, work, bounds, inset
<1>8. End(at, "y") = End(work, "y") - gap
  BY <1>4, <1>5, <1>6, <1>7 DEF End
<1>9. inset = End(bounds, "y") - End(work, "y")
  BY DEF inset
<1>10. /\ pillBottom <= End(work, "y") - Clearance
       /\ pillBottom <= End(bounds, "y") - PillGap
       /\ pillBottom \in {End(work, "y") - Clearance, End(bounds, "y") - PillGap}
  BY <1>4, <1>6, <1>8, <1>9 DEF Clearance, PillGap, StackPadding
<1>11. ASSUME CapsuleSize.x <= work.x.size, CapsuleSize.y + PillGap <= work.y.size,
              NEW axis \in {"x", "y"}
       PROVE  work[axis].at <= at[axis].at /\ End(at, axis) <= End(work, axis)
  <2>1. CASE axis = "x"
    <3>1. ASSUME NEW s \in Nat, NEW c \in Nat, c <= s
          PROVE  (s - c + 1) \div 2 >= 0 /\ (s - c + 1) \div 2 <= s - c
      BY <3>1
    <3>2. /\ (work["x"].size - CapsuleSize.x + 1) \div 2 >= 0
          /\ (work["x"].size - CapsuleSize.x + 1) \div 2 <= work["x"].size - CapsuleSize.x
          /\ (work["x"].size - CapsuleSize.x + 1) \div 2 \in Int
      BY <3>1, <1>5, <1>6, <1>11
    <3> QED BY <2>1, <3>2, <1>5, <1>6, <1>7 DEF End
  <2>2. CASE axis = "y"
    BY <2>2, <1>4, <1>5, <1>6, <1>7, <1>8, <1>11 DEF PillGap
  <2> QED BY <2>1, <2>2
<1> QED BY <1>1, <1>10, <1>11 DEF at, work, bounds, display

LEMMA RectShape ==
  ASSUME NEW r \in Rects, NEW axis \in Axes
  PROVE  r[axis].at \in Int /\ r[axis].size \in Nat /\ r[axis].size > 0
BY DEF Rects

(* The host is the first work area the frame meets.                         *)
LEMMA HostIsFirst ==
  ASSUME NEW f \in Rects, NEW n \in Nat, NEW areas \in [1 .. n -> Rects],
         NEW k \in 1 .. n, Intersects(f, areas[k])
  PROVE  /\ HostOf(f, areas) \in 1 .. n
         /\ Intersects(f, areas[HostOf(f, areas)])
<1> DEFINE met == {i \in 1 .. n : Intersects(f, areas[i])}
<1>0. met \subseteq Nat /\ k \in met
  OBVIOUS
<1>1. PICK i \in met : \A j \in met : i <= j
  <2> HIDE DEF met
  <2> QED BY <1>0, LeastExists
<1>2. i \in DOMAIN areas /\ Intersects(f, areas[i]) /\ \A j \in 1 .. i - 1 : ~Intersects(f, areas[j])
  BY <1>1
<1>3. HostOf(f, areas) = CHOOSE h \in DOMAIN areas :
         /\ Intersects(f, areas[h])
         /\ \A j \in 1 .. h - 1 : ~Intersects(f, areas[j])
  BY <1>2 DEF HostOf
<1> QED BY <1>2, <1>3

LEMMA HostMeets ==
  ASSUME NEW f \in Rects, NEW n \in Nat, NEW areas \in [1 .. n -> Rects], HostOf(f, areas) # 0
  PROVE  HostOf(f, areas) \in 1 .. n /\ Intersects(f, areas[HostOf(f, areas)])
<1>1. PICK k \in DOMAIN areas : Intersects(f, areas[k])
  BY DEF HostOf
<1> QED BY <1>1, HostIsFirst

LEMMA FittedShape ==
  ASSUME NEW f \in Rects, NEW w \in Rects
  PROVE  /\ ClampedTo(f, w) \in Rects
         /\ CentredOn(f, w) \in Rects
         /\ Intersects(CentredOn(f, w), w)
         /\ Intersects(f, w) /\ NoLarger(f, w) => Intersects(ClampedTo(f, w), w)
         /\ Inside(f, w) => ClampedTo(f, w) = f /\ Intersects(f, w)
<1>1. ASSUME NEW axis \in Axes
      PROVE  /\ f[axis].at \in Int /\ f[axis].size \in Nat /\ f[axis].size > 0
             /\ w[axis].at \in Int /\ w[axis].size \in Nat /\ w[axis].size > 0
             /\ Lesser(f[axis].size, w[axis].size) \in Nat \ {0}
             /\ Lesser(f[axis].size, w[axis].size) <= w[axis].size
             /\ f[axis].size <= w[axis].size => Lesser(f[axis].size, w[axis].size) = f[axis].size
  BY RectShape DEF Lesser
<1>2. ClampedTo(f, w) \in Rects
  BY <1>1 DEF ClampedTo, Rects
<1>3. ASSUME NEW a \in Int, NEW b \in Nat, NEW c \in Nat \ {0}, c <= b
      PROVE  /\ a + (b - c) \div 2 \in Int
             /\ a + (b - c) \div 2 < a + b /\ a + (b - c) \div 2 + c > a
  BY <1>3
<1>4. CentredOn(f, w) \in Rects
  BY <1>1, <1>3 DEF CentredOn, Rects
<1>5. Intersects(CentredOn(f, w), w)
  <2> SUFFICES ASSUME NEW axis \in Axes PROVE Overlaps(CentredOn(f, w)[axis], w[axis])
    BY DEF Intersects
  <2> QED BY <1>1, <1>3 DEF CentredOn, Overlaps
<1>6. ASSUME Intersects(f, w), NoLarger(f, w) PROVE Intersects(ClampedTo(f, w), w)
  <2> SUFFICES ASSUME NEW axis \in Axes PROVE Overlaps(ClampedTo(f, w)[axis], w[axis])
    BY DEF Intersects
  <2>1. f[axis].size <= w[axis].size /\ Overlaps(f[axis], w[axis])
    BY <1>6 DEF Intersects, NoLarger
  <2> QED BY <1>1, <2>1 DEF ClampedTo, Overlaps
<1>7. ASSUME Inside(f, w) PROVE ClampedTo(f, w) = f /\ Intersects(f, w)
  <2>1. ASSUME NEW axis \in Axes
        PROVE  f[axis].size <= w[axis].size /\ Overlaps(f[axis], w[axis])
    BY <1>1, <1>7 DEF Inside, Overlaps
  <2>2. \A axis \in Axes : [at |-> f[axis].at, size |-> f[axis].size] = f[axis]
    BY DEF Rects
  <2>3. ClampedTo(f, w) = f
    BY <1>1, <2>1, <2>2 DEF ClampedTo, Rects
  <2> QED BY <2>1, <2>3 DEF Intersects
<1> QED BY <1>2, <1>4, <1>5, <1>6, <1>7

LEMMA LayoutShape ==
  ASSUME NEW layout \in Layouts
  PROVE  /\ Len(layout) \in Nat \ {0} /\ DOMAIN layout = 1 .. Len(layout)
         /\ WorkAreas(layout) \in [1 .. Len(layout) -> Rects]
         /\ WorkAreas(layout) # << >>
         /\ \A i \in 1 .. Len(layout) : WorkAreas(layout)[i] = layout[i].work
<1>1. layout \in Seq(Displays) /\ layout # << >>
  BY LayoutsAssumption
<1>2. \A i \in DOMAIN layout : layout[i].work \in Rects
  <2>1. \A i \in DOMAIN layout : layout[i] \in Displays
    BY <1>1
  <2> QED BY <2>1 DEF Displays
<1>3. WorkAreas(layout) \in [1 .. Len(layout) -> Rects]
  BY <1>1, <1>2 DEF WorkAreas
<1>4. 1 \in DOMAIN WorkAreas(layout)
  BY <1>1, <1>3
<1> QED BY <1>1, <1>3, <1>4 DEF WorkAreas

(* Where a saved frame opens.                                               *)
LEMMA FrameOpens ==
  ASSUME NEW layout \in Layouts, NEW f \in SavedFrames
  PROVE  LET areas == WorkAreas(layout)
             opened == StartupFrame(f, areas)
         IN /\ opened \in Rects
            /\ f # NoFrame /\ (\E i \in DOMAIN layout : Inside(f, layout[i].work)) => opened = f
            /\ f # NoFrame /\ (\A i \in DOMAIN layout : NoLarger(f, layout[i].work)) =>
                 OnScreen(opened, areas)
<1> DEFINE areas == WorkAreas(layout)
           n == Len(layout)
           opened == StartupFrame(f, areas)
<1>1. /\ n \in Nat \ {0} /\ DOMAIN layout = 1 .. n /\ areas \in [1 .. n -> Rects]
      /\ areas # << >> /\ \A i \in 1 .. n : areas[i] = layout[i].work
  BY LayoutShape
<1> HIDE DEF areas, n
<1>2. CASE f = NoFrame
  BY <1>2, FramesAssumption DEF StartupFrame
<1>3. CASE f # NoFrame
  <2>1. f \in Rects /\ 1 \in 1 .. n
    BY <1>1, <1>3 DEF SavedFrames
  <2> DEFINE host == HostOf(f, areas)
  <2>2. opened = IF host # 0 THEN ClampedTo(f, areas[host]) ELSE CentredOn(f, areas[1])
    BY <1>1, <1>3 DEF StartupFrame
  <2>3. host # 0 => host \in 1 .. n /\ Intersects(f, areas[host])
    BY <1>1, <2>1, HostMeets
  <2>h. (\E k \in 1 .. n : Intersects(f, areas[k])) => host # 0
    BY <1>1, <2>1, HostIsFirst
  <2> HIDE DEF host, opened
  <2>4. opened \in Rects
    BY <1>1, <2>1, <2>2, <2>3, FittedShape
  <2>5. ASSUME NEW i \in DOMAIN layout, Inside(f, layout[i].work) PROVE opened = f
    <3>1. i \in 1 .. n /\ areas[i] = layout[i].work /\ areas[i] \in Rects
      BY <1>1
    <3>2. ClampedTo(f, areas[i]) = f /\ Intersects(f, areas[i])
      BY <2>1, <2>5, <3>1, FittedShape
    <3>3. host \in 1 .. n /\ Intersects(f, areas[host])
      BY <2>3, <2>h, <3>1, <3>2
    <3>4. CASE host = i
      BY <2>2, <2>3, <3>1, <3>2, <3>4
    <3>5. CASE host # i
      <4>1. ASSUME NEW axis \in Axes PROVE Overlaps(areas[host][axis], areas[i][axis])
        <5>1. /\ f[axis].at \in Int /\ f[axis].size \in Nat
              /\ areas[i][axis].at \in Int /\ areas[i][axis].size \in Nat
              /\ areas[host][axis].at \in Int /\ areas[host][axis].size \in Nat
          BY <1>1, <2>1, <3>1, <3>3, RectShape
        <5>2. /\ areas[i][axis].at <= f[axis].at
              /\ f[axis].at + f[axis].size <= areas[i][axis].at + areas[i][axis].size
          BY <2>5, <3>1 DEF Inside
        <5>3. Overlaps(f[axis], areas[host][axis])
          BY <3>3 DEF Intersects
        <5> QED BY <5>1, <5>2, <5>3 DEF Overlaps
      <4>2. Intersects(areas[host], areas[i])
        BY <4>1 DEF Intersects
      <4>3. areas[host] = layout[host].work /\ host \in DOMAIN layout
        BY <1>1, <3>3
      <4> QED BY <3>1, <3>5, <4>2, <4>3, LayoutsAssumption
    <3> QED BY <3>4, <3>5
  <2>6. ASSUME \A i \in DOMAIN layout : NoLarger(f, layout[i].work) PROVE OnScreen(opened, areas)
    <3>1. \A i \in 1 .. n : NoLarger(f, areas[i])
      BY <1>1, <2>6
    <3>2. CASE host # 0
      <4>1. host \in 1 .. n /\ areas[host] \in Rects /\ Intersects(opened, areas[host])
        BY <1>1, <2>1, <2>2, <2>3, <3>1, <3>2, FittedShape
      <4> QED BY <1>1, <4>1 DEF OnScreen
    <3>3. CASE host = 0
      <4>1. areas[1] \in Rects /\ Intersects(opened, areas[1])
        BY <1>1, <2>1, <2>2, <3>3, FittedShape
      <4> QED BY <1>1, <2>1, <4>1 DEF OnScreen
    <3> QED BY <3>2, <3>3
  <2> QED BY <2>4, <2>5, <2>6 DEF opened, areas, n
<1> QED BY <1>2, <1>3

-----------------------------------------------------------------------------
(* The life of the process.                                                 *)

(* Once the boot showed the app, the dock shows what it was last told of    *)
(* the window.                                                              *)
DockFits == HandlersRegistered => dock = Presence(dock.hides, dock.capsule, main)

ProfileShown ==
  HandlersRegistered /\ storeOpen =>
    dock.hides = db.hide_app_icon /\ loginItem = db.launch_at_login

(* Without hotkeys no session, and no capsule over a full-screen space.     *)
NoCapsuleHalf == proc = "half" => dock.capsule = FALSE

RelaunchPending == relaunch => proc = "off" /\ db = EmptyDatabase

LifeInd ==
  /\ AppTypeOK /\ frame \in Rects /\ HasBuiltIns(db)
  /\ DockFits /\ ProfileShown /\ RelaunchPending /\ NoCapsuleHalf

Docks == [hides : BOOLEAN, capsule : BOOLEAN, policy : {"regular", "accessory"},
          tray : BOOLEAN, taskbar : BOOLEAN]

LEMMA PresenceShape ==
  ASSUME NEW hides \in BOOLEAN, NEW capsule \in BOOLEAN, NEW window
  PROVE  LET p == Presence(hides, capsule, window) IN
         /\ p \in Docks /\ p.hides = hides /\ p.capsule = capsule
         /\ p = Presence(p.hides, p.capsule, window)
BY DEF Presence, Docks

(* The presence of a window that is there does not depend on how.           *)
LEMMA PresenceOfWindow ==
  ASSUME NEW hides, NEW capsule, NEW v, NEW w, v # "none" <=> w # "none"
  PROVE  Presence(hides, capsule, v) = Presence(hides, capsule, w)
BY DEF Presence

LEMMA PresenceFields ==
  ASSUME NEW hides \in BOOLEAN, NEW capsule \in BOOLEAN, NEW window
  PROVE  LET p == Presence(hides, capsule, window) IN
         /\ platform = "darwin" /\ (hides \/ capsule) => p.policy = "accessory"
         /\ ~(platform = "darwin" /\ (hides \/ capsule)) => p.policy = "regular"
         /\ platform = "darwin" => p.tray = hides
         /\ platform # "darwin" => p.tray = TRUE
         /\ window # "none" /\ ~(platform = "win32" /\ hides) => p.taskbar = TRUE
         /\ ~(window # "none" /\ ~(platform = "win32" /\ hides)) => p.taskbar = FALSE
BY DEF Presence

LEMMA SameDocks ==
  ASSUME NEW d \in Docks, NEW e \in Docks, d.hides = e.hides, d.capsule = e.capsule,
         d.policy = e.policy, d.tray = e.tray, d.taskbar = e.taskbar
  PROVE  d = e
BY DEF Docks

LEMMA SameDock ==
  ASSUME DockFits, platform' = platform, dock' = dock, proc' = proc,
         main' # "none" <=> main # "none"
  PROVE  DockFits'
<1>1. Presence(dock.hides, dock.capsule, main)' = Presence(dock.hides, dock.capsule, main)
  BY DEF Presence
<1> QED BY <1>1 DEF DockFits, HandlersRegistered

(* The window is gone, and its button with it.                              *)
LEMMA ButtonGone ==
  ASSUME DockFits, dock \in Docks, platform' = platform, proc' = proc, main' = "none",
         dock' = [dock EXCEPT !.taskbar = FALSE]
  PROVE  DockFits'
<1> SUFFICES ASSUME HandlersRegistered PROVE DockFits'
  BY DEF DockFits, HandlersRegistered
<1> DEFINE p == Presence(dock.hides, dock.capsule, main)
           q == Presence(dock.hides, dock.capsule, "none")
<1>1. dock = p
  BY DEF DockFits
<1>2. /\ dock.hides \in BOOLEAN /\ dock.capsule \in BOOLEAN /\ dock' \in Docks
      /\ dock'.hides = dock.hides /\ dock'.capsule = dock.capsule
      /\ dock'.policy = dock.policy /\ dock'.tray = dock.tray /\ dock'.taskbar = FALSE
  BY DEF Docks
<1>3. Presence(dock.hides, dock.capsule, main)' = q
  BY <1>2 DEF Presence
<1>4. q \in Docks /\ q.hides = dock.hides /\ q.capsule = dock.capsule
  BY <1>2, PresenceShape
<1>5. q.policy = p.policy /\ q.tray = p.tray /\ q.taskbar = FALSE
  <2>1. ASSUME NEW w
        PROVE  LET s == Presence(dock.hides, dock.capsule, w) IN
               /\ platform = "darwin" /\ (dock.hides \/ dock.capsule) => s.policy = "accessory"
               /\ ~(platform = "darwin" /\ (dock.hides \/ dock.capsule)) => s.policy = "regular"
               /\ platform = "darwin" => s.tray = dock.hides
               /\ platform # "darwin" => s.tray = TRUE
               /\ ~(w # "none" /\ ~(platform = "win32" /\ dock.hides)) => s.taskbar = FALSE
    <3>1. dock.hides \in BOOLEAN /\ dock.capsule \in BOOLEAN
      BY <1>2
    <3> QED BY <3>1 DEF Presence
  <2> HIDE DEF p, q
  <2> QED BY <2>1 DEF p, q
<1> HIDE DEF p, q
<1>6. q.policy = dock.policy /\ q.tray = dock.tray
  BY <1>1, <1>5
<1>7. dock' = q
  BY <1>2, <1>4, <1>5, <1>6, SameDocks
<1> QED BY <1>3, <1>7 DEF DockFits

LEMMA NoDockShape == NoDock \in Docks
BY DEF NoDock, Docks

LEMMA EmptyShape ==
  EmptyDatabase \in Databases /\ HasBuiltIns(EmptyDatabase)
BY DEF EmptyDatabase, Databases, HasBuiltIns, Flags

(* The user's writes keep the shape of a profile.                           *)
Fits(d, e) == e \in Databases /\ HasBuiltIns(e) /\ Keeps(d, e)

LEMMA ModeSavedFits ==
  ASSUME NEW d \in Databases, HasBuiltIns(d), NEW m \in ModeIds, NEW row \in Rows
  PROVE  Fits(d, ModeSaved(d, m, row))
<1> DEFINE e == ModeSaved(d, m, row)
           new(o) == IF o = m THEN row
                     ELSE IF d.modes[o] # None /\ Overlap(d.modes[o].hotkey, row.hotkey)
                            THEN [d.modes[o] EXCEPT !.hotkey = {}]
                            ELSE d.modes[o]
<1>1. ASSUME NEW o \in ModeIds
      PROVE  new(o) \in Rows \cup {None} /\ (d.modes[o] # None => new(o) # None)
  <2>1. d.modes[o] \in Rows \cup {None}
    BY RowsShape
  <2>2. d.modes[o] \in Rows => [d.modes[o] EXCEPT !.hotkey = {}] \in Rows
    BY ChordsAssumption DEF Rows
  <2> QED BY <2>1, <2>2, NoneAssumption
<1>2. /\ e.modes = [o \in ModeIds |-> new(o)] /\ e.done = d.done /\ Keeps(d, e)
      /\ e.dictionary = d.dictionary
  BY DEF ModeSaved, Databases, Keeps
<1>3. e.modes \in [ModeIds -> Rows \cup {None}]
  BY <1>1, <1>2
<1>4. e \in Databases
  BY <1>2, <1>3 DEF ModeSaved, Databases
<1>5. HasBuiltIns(e)
  BY <1>1, <1>2 DEF HasBuiltIns, ModeIds
<1> QED BY <1>2, <1>4, <1>5 DEF Fits

LEMMA ModeCreatedFits ==
  ASSUME NEW d \in Databases, HasBuiltIns(d)
  PROVE  Fits(d, ModeCreated(d))
<1> DEFINE e == ModeCreated(d)
           row == [stockName |-> FALSE, prompt |-> "empty", hotkey |-> {}]
<1>1. row \in Rows /\ "mine" \in ModeIds /\ d.modes \in [ModeIds -> Rows \cup {None}]
  BY ChordsAssumption, RowsShape DEF Rows, Prompts, ModeIds
<1>2. /\ e.modes = [d.modes EXCEPT !["mine"] = row] /\ e.done = d.done /\ Keeps(d, e)
      /\ e.dictionary = d.dictionary
  BY DEF ModeCreated, Databases, Keeps
<1> HIDE DEF row
<1>3. /\ e.modes \in [ModeIds -> Rows \cup {None}]
      /\ \A o \in ModeIds : e.modes[o] = IF o = "mine" THEN row ELSE d.modes[o]
  BY <1>1, <1>2, RowWritten
<1>4. e \in Databases
  BY <1>2, <1>3 DEF ModeCreated, Databases
<1>5. HasBuiltIns(e)
  BY <1>2, <1>3 DEF HasBuiltIns, ModeIds, BuiltIns
<1> QED BY <1>2, <1>4, <1>5 DEF Fits

LEMMA TermsFit ==
  ASSUME NEW d \in Databases, HasBuiltIns(d), NEW t \in Terms
  PROVE  Fits(d, TermAdded(d, t)) /\ Fits(d, TermDeleted(d, t))
<1>1. ASSUME NEW source \in Sources \cup {None}
      PROVE  Fits(d, [d EXCEPT !.dictionary[t] = source])
  BY <1>1 DEF Fits, Databases, HasBuiltIns, Keeps
<1>2. Fits(d, d)
  BY DEF Fits, Keeps
<1> QED BY <1>1, <1>2 DEF TermAdded, TermDeleted, Sources

LEMMA SettingsFit ==
  ASSUME NEW d \in Databases, HasBuiltIns(d), NEW hide \in BOOLEAN, NEW login \in BOOLEAN
  PROVE  /\ SettingsSaved(d, hide, login) \in Databases
         /\ HasBuiltIns(SettingsSaved(d, hide, login))
         /\ SettingsSaved(d, hide, login).hide_app_icon = hide
         /\ SettingsSaved(d, hide, login).launch_at_login = login
BY DEF SettingsSaved, Databases, HasBuiltIns

LEMMA InitLifeInd == Init => LifeInd
<1> SUFFICES ASSUME Init PROVE LifeInd
  OBVIOUS
<1>1. AppTypeOK /\ frame \in Rects
  <2>1. db \in Databases /\ saved \in SavedFrames /\ frame \in Rects /\ ops \in 0 .. MaxOps
    BY MaxOpsAssumption, ProfilesAssumption, FramesAssumption DEF Init, SavedFrames
  <2>2. dock \in Docks
    BY NoDockShape DEF Init
  <2> QED BY <2>1, <2>2 DEF Init, AppTypeOK, Docks
<1>2. HasBuiltIns(db)
  BY ProfilesAssumption DEF Init
<1> QED BY <1>1, <1>2
        DEF Init, LifeInd, DockFits, ProfileShown, RelaunchPending, NoCapsuleHalf,
            HandlersRegistered

-----------------------------------------------------------------------------
(* One lemma per action, or per pair of alike ones.                         *)

LEMMA CreateMainShape ==
  ASSUME LifeInd, CreateMain
  PROVE  /\ main' = "shown" /\ frame' \in Rects /\ saveArmed' = FALSE /\ saved' = saved
  BY FrameOpens DEF LifeInd, AppTypeOK, CreateMain

LEMMA LaunchKeeps ==
  ASSUME LifeInd, Launch
  PROVE  LifeInd'
<1>0. /\ proc = "off" /\ relaunch' = FALSE /\ platform' = platform /\ displays' = displays
      /\ ops' = ops
  BY DEF Launch
<1>1. CASE BootFails
  <2>1. /\ proc' = "modal"
        /\ UNCHANGED <<db, storeOpen, main, page, dock, loginItem, saved, frame, saveArmed>>
    BY <1>1 DEF BootFails, frameVars
  <2>2. DockFits' /\ ProfileShown' /\ RelaunchPending' /\ NoCapsuleHalf'
    BY <1>0, <2>1
    DEF DockFits, ProfileShown, RelaunchPending, NoCapsuleHalf, HandlersRegistered
  <2>3. AppTypeOK'
    BY <1>0, <2>1 DEF LifeInd, AppTypeOK
  <2>4. frame' \in Rects /\ HasBuiltIns(db)'
    BY <2>1 DEF LifeInd, HasBuiltIns
  <2> QED BY <2>2, <2>3, <2>4 DEF LifeInd
<1>b. ASSUME BuildRuntime
      PROVE  /\ db' \in Databases /\ HasBuiltIns(db') /\ Keeps(db, db') /\ storeOpen' = TRUE
  BY <1>b, SeededKeeps DEF BuildRuntime, LifeInd, AppTypeOK
<1>2. CASE BootDies
  <2>1. /\ db' \in Databases /\ HasBuiltIns(db)' /\ storeOpen' = TRUE /\ proc' = "dead"
        /\ UNCHANGED <<main, page, dock, loginItem, saved, frame, saveArmed>>
    BY <1>2, <1>b DEF BootDies, frameVars, HasBuiltIns
  <2> QED BY <1>0, <2>1
          DEF LifeInd, AppTypeOK, DockFits, ProfileShown, RelaunchPending, NoCapsuleHalf,
              HandlersRegistered
<1>3. CASE BootStops \/ BootSucceeds
  <2>1. /\ db' \in Databases /\ HasBuiltIns(db)' /\ storeOpen' = TRUE
        /\ proc' \in {"half", "running"} /\ Keeps(db, db')
        /\ loginItem' = db.launch_at_login /\ page' = "loading"
        /\ dock' = Presence(db.hide_app_icon, FALSE, "shown")
    BY <1>3, <1>b
    DEF BootStops, BootSucceeds, BootShows, HasBuiltIns, SyncLoginItem, SpawnMain, Apply
  <2>2. /\ main' = "shown" /\ frame' \in Rects /\ saveArmed' = FALSE /\ saved' = saved
    BY <1>3, CreateMainShape DEF BootStops, BootSucceeds, BootShows, SpawnMain
  <2>3. db.hide_app_icon \in BOOLEAN /\ db.launch_at_login \in BOOLEAN
    BY RowsShape DEF LifeInd, AppTypeOK
  <2>4. /\ dock' \in Docks /\ dock'.hides = db.hide_app_icon /\ dock'.capsule = FALSE
    BY <2>1, <2>3, PresenceShape
  <2>5. DockFits'
    BY <1>0, <2>1, <2>2, <2>4 DEF DockFits, Presence, HandlersRegistered
  <2>6. ProfileShown' /\ NoCapsuleHalf'
    BY <2>1, <2>4 DEF ProfileShown, NoCapsuleHalf, Keeps, HandlersRegistered
  <2> QED BY <1>0, <2>1, <2>2, <2>3, <2>4, <2>5, <2>6
          DEF LifeInd, AppTypeOK, RelaunchPending, Docks
<1> QED BY <1>1, <1>2, <1>3 DEF Launch

LEMMA SecondLaunchKeeps ==
  ASSUME LifeInd, SecondLaunch
  PROVE  LifeInd'
<1>0. /\ proc # "off" /\ Op /\ SurfaceMain
      /\ UNCHANGED <<platform, proc, db, storeOpen, relaunch, loginItem, displays>>
  BY DEF SecondLaunch
<1>1. ops' \in 0 .. MaxOps
  BY <1>0, MaxOpsAssumption DEF Op, LifeInd, AppTypeOK
<1>2. dock \in Docks
  BY DEF LifeInd, AppTypeOK, Docks
<1>3. CASE main = "none"
  <2>1. /\ main' = "shown" /\ frame' \in Rects /\ saveArmed' = FALSE /\ saved' = saved
        /\ page' = "loading"
    BY <1>0, <1>3, CreateMainShape DEF SurfaceMain, SpawnMain
  <2>2. \/ dock' = Presence(dock.hides, dock.capsule, "shown")
        \/ ~HandlersRegistered /\ dock' = [dock EXCEPT !.taskbar = TRUE]
    BY <1>0, <1>3 DEF SurfaceMain, Apply, HasDock
  <2>3. dock.hides \in BOOLEAN /\ dock.capsule \in BOOLEAN
    BY <1>2 DEF Docks
  <2>4. dock' \in Docks /\ dock'.hides = dock.hides /\ dock'.capsule = dock.capsule
    <3>1. CASE dock' = Presence(dock.hides, dock.capsule, "shown")
      BY <2>3, <3>1, PresenceShape
    <3>2. CASE dock' = [dock EXCEPT !.taskbar = TRUE]
      BY <1>2, <3>2 DEF Docks
    <3> QED BY <2>2, <3>1, <3>2
  <2>5. DockFits'
    <3>1. CASE HandlersRegistered
      <4>1. /\ dock' = Presence(dock.hides, dock.capsule, "shown")
            /\ dock' = Presence(dock'.hides, dock'.capsule, "shown")
        BY <2>2, <2>3, <3>1, PresenceShape
      <4> QED BY <1>0, <2>1, <4>1 DEF DockFits, Presence, HandlersRegistered
    <3> QED BY <1>0, <3>1 DEF DockFits, HandlersRegistered
  <2> QED BY <1>0, <1>1, <2>1, <2>4, <2>5
          DEF LifeInd, AppTypeOK, ProfileShown, RelaunchPending, NoCapsuleHalf, HasBuiltIns,
              Docks, HandlersRegistered
<1>4. CASE main # "none"
  <2>1. /\ main' = "shown" /\ UNCHANGED <<page, saved, frame, saveArmed, dock>>
    BY <1>0, <1>4 DEF SurfaceMain, frameVars
  <2>2. DockFits'
    BY <1>0, <1>4, <2>1, SameDock DEF LifeInd
  <2> QED BY <1>0, <1>1, <2>1, <2>2
          DEF LifeInd, AppTypeOK, ProfileShown, RelaunchPending, NoCapsuleHalf, HasBuiltIns,
              HandlersRegistered
<1> QED BY <1>3, <1>4

LEMMA LoadModelKeeps ==
  ASSUME LifeInd, LoadModel
  PROVE  LifeInd'
<1>1. /\ page' \in {"ready", "error"}
      /\ UNCHANGED <<platform, proc, db, storeOpen, relaunch, main, dock, loginItem, displays,
                     saved, frame, saveArmed, ops>>
  BY DEF LoadModel, frameVars
<1>2. DockFits'
  BY <1>1, SameDock DEF LifeInd
<1> QED BY <1>1, <1>2
        DEF LifeInd, AppTypeOK, ProfileShown, RelaunchPending, NoCapsuleHalf, HasBuiltIns,
            HandlersRegistered

(* The main window's own steps keep the profile and the process.            *)
LEMMA WindowStepsKeep ==
  ASSUME LifeInd, CloseMain \/ MinimizeMain \/ MoveMain \/ SaveFrame \/ ChangeDisplays
  PROVE  LifeInd'
<1>1. /\ UNCHANGED <<platform, proc, db, storeOpen, relaunch, loginItem>>
      /\ ops' = ops \/ Op
  BY DEF CloseMain, MinimizeMain, MoveMain, SaveFrame, ChangeDisplays
<1>2. ops' \in 0 .. MaxOps
  BY <1>1, MaxOpsAssumption DEF Op, LifeInd, AppTypeOK
<1>3. frame' \in Rects /\ saved' \in SavedFrames /\ saveArmed' \in BOOLEAN /\ displays' \in Layouts
  BY FramesAssumption
  DEF CloseMain, MinimizeMain, MoveMain, SaveFrame, ChangeDisplays, CaptureFrame, frameVars,
      LifeInd, AppTypeOK, SavedFrames
<1>4. \/ dock' = dock /\ page' = page /\ main' = main
      \/ dock' = dock /\ page' = page /\ main # "none" /\ main' \in {"hidden", "minimized"}
      \/ dock' = [dock EXCEPT !.taskbar = FALSE] /\ page' = "loading" /\ main' = "none"
  BY DEF CloseMain, MinimizeMain, MoveMain, SaveFrame, ChangeDisplays, GoneWindow
<1>5. /\ dock' \in Docks /\ dock'.hides = dock.hides /\ dock'.capsule = dock.capsule
      /\ dock \in Docks
  BY <1>4 DEF LifeInd, AppTypeOK, Docks
<1>6. DockFits'
  BY <1>1, <1>4, <1>5, SameDock, ButtonGone DEF LifeInd
<1>7. AppTypeOK'
  BY <1>1, <1>2, <1>3, <1>4, <1>5 DEF LifeInd, AppTypeOK, Docks
<1> QED BY <1>1, <1>3, <1>5, <1>6, <1>7
        DEF LifeInd, ProfileShown, RelaunchPending, NoCapsuleHalf, HasBuiltIns,
            HandlersRegistered

LEMMA GoneShape ==
  ASSUME Gone, LifeInd
  PROVE  /\ proc' = "off" /\ storeOpen' = FALSE /\ main' = "none" /\ page' = "loading"
         /\ dock' \in Docks /\ saveArmed' = FALSE /\ saved' = saved /\ frame' = frame
BY NoDockShape DEF Gone

LEMMA RepairKeeps ==
  ASSUME LifeInd, NEW onFailure \in {"dead", "running", "half"}, RepairData(onFailure),
         ~relaunch, onFailure = "dead" \/ onFailure = proc,
         UNCHANGED <<platform, loginItem, displays, ops>>
  PROVE  LifeInd'
<1>1. CASE Wiped(TRUE) /\ relaunch' = TRUE /\ Gone
  <2>1. db' = EmptyDatabase
    BY <1>1 DEF Wiped
  <2>2. db' \in Databases /\ HasBuiltIns(db)'
    BY <2>1, EmptyShape DEF HasBuiltIns
  <2> QED BY <1>1, <2>1, <2>2, GoneShape
          DEF LifeInd, AppTypeOK, DockFits, ProfileShown, RelaunchPending, NoCapsuleHalf,
              Docks, HandlersRegistered
<1>2. CASE /\ Wiped(FALSE)
           /\ proc' = onFailure
           /\ storeOpen' = FALSE
           /\ UNCHANGED <<relaunch, main, page, dock, frameVars>>
  <2>1. db' \in Databases /\ HasBuiltIns(db)'
    BY <1>2, EmptyShape DEF Wiped, HasBuiltIns, LifeInd, AppTypeOK
  <2>2. DockFits'
    <3>1. proc' = proc \/ proc' = "dead"
      BY <1>2
    <3> QED BY <1>2, <3>1, SameDock DEF LifeInd, DockFits, HandlersRegistered
  <2>3. UNCHANGED <<relaunch, main, page, dock, saved, frame, saveArmed>> /\ proc' = onFailure
        /\ storeOpen' = FALSE
    BY <1>2 DEF frameVars
  <2>4. AppTypeOK'
    <3>1. AppTypeOK /\ proc' \in {"off", "modal", "running", "dead", "half"}
      BY <2>3 DEF LifeInd
    <3>2. UNCHANGED <<platform, loginItem, displays, ops>>
      OBVIOUS
    <3> QED BY <2>1, <2>3, <3>1, <3>2, Zenon DEF AppTypeOK
  <2>5. frame' \in Rects /\ ProfileShown' /\ RelaunchPending'
    BY <2>3 DEF LifeInd, ProfileShown, RelaunchPending
  <2>6. NoCapsuleHalf'
    <3>1. proc' = "half" => proc = "half"
      BY <2>3
    <3> QED BY <2>3, <3>1 DEF LifeInd, NoCapsuleHalf
  <2> QED BY <2>1, <2>2, <2>4, <2>5, <2>6 DEF LifeInd
<1> QED BY <1>1, <1>2 DEF RepairData

LEMMA RepairsKeep ==
  ASSUME LifeInd, RepairFromModal \/ RepairFromPage
  PROVE  LifeInd'
<1>1. CASE RepairFromModal
  <2>1. /\ RepairData("dead") /\ ~relaunch /\ UNCHANGED <<platform, loginItem, displays, ops>>
    BY <1>1 DEF RepairFromModal, LifeInd, RelaunchPending
  <2> QED BY <2>1, RepairKeeps
<1>2. CASE RepairFromPage
  <2>1. /\ RepairData(proc) /\ ~relaunch /\ proc \in {"running", "half"}
        /\ UNCHANGED <<platform, loginItem, displays, ops>>
    BY <1>2 DEF RepairFromPage, HandlersRegistered, LifeInd, RelaunchPending
  <2> QED BY <2>1, RepairKeeps
<1> QED BY <1>1, <1>2

LEMMA GoneKeeps ==
  ASSUME LifeInd, QuitFromModal \/ Kill
  PROVE  LifeInd'
<1>1. /\ Gone /\ UNCHANGED <<platform, db, relaunch, loginItem, displays>>
      /\ proc # "off" /\ (ops' = ops \/ Op)
  BY DEF QuitFromModal, Kill
<1>2. ops' \in 0 .. MaxOps
  BY <1>1, MaxOpsAssumption DEF Op, LifeInd, AppTypeOK
<1> QED BY <1>1, <1>2, GoneShape
        DEF LifeInd, AppTypeOK, DockFits, ProfileShown, RelaunchPending, NoCapsuleHalf,
            HasBuiltIns, Docks, HandlersRegistered

LEMMA SaveSettingsKeeps ==
  ASSUME LifeInd, SaveSettings
  PROVE  LifeInd'
<1>1. PICK hide, login \in BOOLEAN :
        /\ db' = SettingsSaved(db, hide, login)
        /\ dock' = Presence(hide, dock.capsule, main)
        /\ loginItem' = login
  BY DEF SaveSettings, Apply, SyncLoginItem
<1>2. /\ Op /\ proc = "running"
      /\ UNCHANGED <<platform, proc, storeOpen, relaunch, main, page, displays, saved, frame,
                     saveArmed>>
  BY DEF SaveSettings, Usable, frameVars
<1>3. ops' \in 0 .. MaxOps
  BY <1>2, MaxOpsAssumption DEF Op, LifeInd, AppTypeOK
<1>4. db \in Databases /\ HasBuiltIns(db) /\ dock.capsule \in BOOLEAN
  BY DEF LifeInd, AppTypeOK
<1>5. /\ db' \in Databases /\ HasBuiltIns(db') /\ db'.hide_app_icon = hide
      /\ db'.launch_at_login = login
  BY <1>1, <1>4, SettingsFit
<1>6. /\ dock' \in Docks /\ dock'.hides = hide
      /\ dock' = Presence(dock'.hides, dock'.capsule, main)
  BY <1>1, <1>4, PresenceShape
<1>7. DockFits'
  BY <1>2, <1>6 DEF DockFits, Presence, HandlersRegistered
<1>8. HasBuiltIns(db)'
  BY <1>5 DEF HasBuiltIns
<1> QED BY <1>1, <1>2, <1>3, <1>5, <1>6, <1>7, <1>8
        DEF LifeInd, AppTypeOK, ProfileShown, RelaunchPending, NoCapsuleHalf, Docks,
            HandlersRegistered

LEMMA EditsKeep ==
  ASSUME LifeInd, EditProfile \/ EditDictionary
  PROVE  LifeInd'
<1>1. /\ Op /\ proc = "running"
      /\ UNCHANGED <<platform, proc, storeOpen, relaunch, main, page, dock, loginItem, displays,
                     saved, frame, saveArmed>>
  BY DEF EditProfile, EditDictionary, Usable, frameVars
<1>2. ops' \in 0 .. MaxOps
  BY <1>1, MaxOpsAssumption DEF Op, LifeInd, AppTypeOK
<1>3. db \in Databases /\ HasBuiltIns(db)
  BY DEF LifeInd, AppTypeOK
<1>4. Fits(db, db')
  <2>1. ASSUME NEW m \in ModeIds, NEW prompt \in {"empty", "own"}, NEW chord \in Chords,
               db.modes[m] # None,
               db' = ModeSaved(db, m, [db.modes[m] EXCEPT !.prompt = prompt, !.hotkey = chord])
        PROVE  Fits(db, db')
    <3>1. db.modes[m] \in Rows
      BY <1>3, <2>1, RowsShape
    <3>2. [db.modes[m] EXCEPT !.prompt = prompt, !.hotkey = chord] \in Rows
      BY <3>1 DEF Rows, Prompts
    <3> QED BY <1>3, <2>1, <3>2, ModeSavedFits
  <2>2. ASSUME NEW t \in Terms, db' \in {TermAdded(db, t), TermDeleted(db, t)}
        PROVE  Fits(db, db')
    BY <1>3, <2>2, TermsFit
  <2>3. CASE db' = ModeCreated(db)
    BY <1>3, <2>3, ModeCreatedFits
  <2>4. CASE EditProfile
    BY <2>4, <2>1, <2>3 DEF EditProfile
  <2>5. CASE EditDictionary
    BY <2>5, <2>2 DEF EditDictionary
  <2> QED BY <2>4, <2>5
<1>5. /\ db' \in Databases /\ HasBuiltIns(db)' /\ db'.hide_app_icon = db.hide_app_icon
      /\ db'.launch_at_login = db.launch_at_login
  BY <1>4 DEF Fits, Keeps, HasBuiltIns
<1>6. DockFits'
  BY <1>1 DEF LifeInd, DockFits, Presence, HandlersRegistered
<1> QED BY <1>1, <1>2, <1>5, <1>6
        DEF LifeInd, AppTypeOK, ProfileShown, RelaunchPending, NoCapsuleHalf,
            HandlersRegistered

LEMMA CapsuleStepsKeep ==
  ASSUME LifeInd, CapsulePresence \/ CapsuleLeaves
  PROVE  LifeInd'
<1>1. /\ proc = "running"
      /\ UNCHANGED <<platform, proc, db, storeOpen, relaunch, main, page, loginItem, displays,
                     saved, frame, saveArmed, ops>>
  BY DEF CapsulePresence, CapsuleLeaves, frameVars
<1>2. \E capsule \in BOOLEAN : dock' = Presence(dock.hides, capsule, main)
  <2>1. ASSUME NEW front \in Fronts
        PROVE  (platform = "darwin" /\ FillsDisplay(front, displays)) \in BOOLEAN
    OBVIOUS
  <2> QED BY <2>1 DEF CapsulePresence, CapsuleLeaves, Apply
<1>3. PICK capsule \in BOOLEAN : dock' = Presence(dock.hides, capsule, main)
  BY <1>2
<1>4. dock.hides \in BOOLEAN
  BY DEF LifeInd, AppTypeOK
<1>5. /\ dock' \in Docks /\ dock'.hides = dock.hides
      /\ dock' = Presence(dock'.hides, dock'.capsule, main)
  BY <1>3, <1>4, PresenceShape
<1>6. DockFits'
  BY <1>1, <1>5 DEF DockFits, Presence, HandlersRegistered
<1> QED BY <1>1, <1>5, <1>6
        DEF LifeInd, AppTypeOK, ProfileShown, RelaunchPending, NoCapsuleHalf, HasBuiltIns,
            Docks, HandlersRegistered

LEMMA QuitKeeps ==
  ASSUME LifeInd, Quit
  PROVE  LifeInd'
<1>1. /\ Op /\ UNCHANGED <<platform, db, relaunch, loginItem, displays>> /\ proc # "off"
  BY DEF Quit
<1>2. ops' \in 0 .. MaxOps
  BY <1>1, MaxOpsAssumption DEF Op, LifeInd, AppTypeOK
<1>3. /\ frame' = frame /\ saved' \in SavedFrames /\ saveArmed' \in BOOLEAN
  BY DEF Quit, CaptureFrame, frameVars, LifeInd, AppTypeOK, SavedFrames
<1>4. CASE main # "none" /\ main' = "hidden" /\ UNCHANGED <<proc, storeOpen, page, dock>>
  <2>1. main' = "hidden" /\ UNCHANGED <<proc, storeOpen, page, dock>>
    BY <1>4
  <2>2. DockFits'
    BY <1>1, <1>4, <2>1, SameDock DEF LifeInd
  <2> QED BY <1>1, <1>2, <1>3, <2>1, <2>2
          DEF LifeInd, AppTypeOK, ProfileShown, RelaunchPending, NoCapsuleHalf, HasBuiltIns,
              HandlersRegistered
<1>5. CASE /\ proc' = "off" /\ storeOpen' = FALSE /\ main' = "none" /\ page' = "loading"
           /\ dock' = NoDock
  <2>1. /\ proc' = "off" /\ storeOpen' = FALSE /\ main' = "none" /\ page' = "loading"
        /\ dock' \in Docks
    BY <1>5, NoDockShape
  <2> QED BY <1>1, <1>2, <1>3, <2>1
          DEF LifeInd, AppTypeOK, DockFits, ProfileShown, RelaunchPending, NoCapsuleHalf,
              HasBuiltIns, Docks, HandlersRegistered
<1> QED BY <1>4, <1>5 DEF Quit

LEMMA DamageFileKeeps ==
  ASSUME LifeInd, DamageFile
  PROVE  LifeInd'
<1>1. /\ Op /\ proc = "off" /\ ~relaunch
      /\ UNCHANGED <<platform, proc, storeOpen, relaunch, main, page, dock, loginItem, displays,
                     saved, frame, saveArmed>>
  BY DEF DamageFile, frameVars
<1>2. ops' \in 0 .. MaxOps
  BY <1>1, MaxOpsAssumption DEF Op, LifeInd, AppTypeOK
<1>3. db' \in Databases /\ HasBuiltIns(db)'
  BY DEF DamageFile, LifeInd, AppTypeOK, Databases, HasBuiltIns
<1> QED BY <1>1, <1>2, <1>3
        DEF LifeInd, AppTypeOK, DockFits, ProfileShown, RelaunchPending, NoCapsuleHalf,
            HandlersRegistered

LEMMA LifeStep == LifeInd /\ [AppNext]_vars => LifeInd'
<1>1. ASSUME LifeInd, UNCHANGED vars PROVE LifeInd'
  <2>1. DockFits'
    BY <1>1, SameDock DEF vars, LifeInd
  <2> QED BY <1>1, <2>1
          DEF vars, LifeInd, AppTypeOK, ProfileShown, RelaunchPending, NoCapsuleHalf,
              HasBuiltIns, HandlersRegistered
<1> QED BY <1>1, LaunchKeeps, SecondLaunchKeeps, LoadModelKeeps, WindowStepsKeep, RepairsKeep,
           GoneKeeps, SaveSettingsKeeps, EditsKeep, CapsuleStepsKeep, QuitKeeps, DamageFileKeeps
        DEF AppNext

(* LifeInd holds of every behaviour, also where the boot stopped half-way:  *)
(* the dock, taskbar and tray are as the controller last applied what it    *)
(* was told of the settings and the window, these settings are the stored   *)
(* ones while the store is open, and a relaunch waits only for a profile    *)
(* that was wiped.                                                          *)
THEOREM LifeInductive == AppSpec => []LifeInd
BY InitLifeInd, LifeStep, PTL DEF AppSpec

LEMMA LifeSafe == LifeInd => AppInv
<1> SUFFICES ASSUME LifeInd PROVE AppInv
  OBVIOUS
<1>1. AppTypeOK
  BY DEF LifeInd
<1>2. UserCanReachApp
  <2> SUFFICES ASSUME HandlersRegistered PROVE UserCanReachApp
    BY DEF UserCanReachApp, HandlersRegistered
  <2>1. /\ platform \in {"darwin", "win32"} /\ dock \in Docks
        /\ dock = Presence(dock.hides, dock.capsule, main)
    BY DEF LifeInd, AppTypeOK, DockFits, Docks
  <2>2. /\ platform = "darwin" /\ ~dock.hides /\ ~dock.capsule => dock.policy = "regular"
        /\ platform = "darwin" => dock.tray = dock.hides
        /\ platform # "darwin" => dock.tray = TRUE
        /\ main # "none" /\ ~dock.hides => dock.taskbar = TRUE
    <3> DEFINE p == Presence(dock.hides, dock.capsule, main)
    <3>0. dock.hides \in BOOLEAN /\ dock.capsule \in BOOLEAN
      BY <2>1 DEF Docks
    <3>1. /\ ~(platform = "darwin" /\ (dock.hides \/ dock.capsule)) => p.policy = "regular"
          /\ platform = "darwin" => p.tray = dock.hides
          /\ platform # "darwin" => p.tray = TRUE
          /\ main # "none" /\ ~(platform = "win32" /\ dock.hides) => p.taskbar = TRUE
      BY <3>0, PresenceFields
    <3>2. dock = p
      BY <2>1
    <3> HIDE DEF p
    <3>3. p.policy = dock.policy /\ p.tray = dock.tray /\ p.taskbar = dock.taskbar
      BY <3>2
    <3> QED BY <3>0, <3>1, <3>3
  <2>3. /\ storeOpen => dock.hides = db.hide_app_icon /\ loginItem = db.launch_at_login
        /\ proc = "half" => dock.capsule = FALSE
    BY DEF LifeInd, ProfileShown, NoCapsuleHalf
  <2>4. dock.hides \in BOOLEAN /\ dock.capsule \in BOOLEAN
    BY <2>1 DEF Docks
  <2> QED BY <2>1, <2>2, <2>3, <2>4 DEF UserCanReachApp, DockIconHeard, MenuStands
<1>3. RelaunchIsClean
  BY DEF LifeInd, RelaunchPending, RelaunchIsClean
<1> QED BY <1>1, <1>2, <1>3, CapsulePlaced DEF AppInv

(* AppInv of AppLife: the user can reach the app he started, by its window, *)
(* Dock icon, taskbar or tray, whatever he hid and however often the window *)
(* was closed, the settings changed or the process was killed; where a mode *)
(* that does not parse stopped the boot before the Dock icon had its        *)
(* handler, by the application menu in its place; a relaunch begins with an *)
(* empty profile; and the capsule is placed.                                *)
THEOREM AppIsReachable == AppSpec => []AppInv
BY LifeInductive, LifeSafe, PTL

(* BootKeepsUserData of AppLife: no start of the process, on the profile of *)
(* whatever version and after whatever crash, loses a prompt the user       *)
(* wrote, a mode of his own or a setting: seedIfNeeded overwrites only rows *)
(* the user never touched, and nothing at all once its flags are set.       *)
THEOREM BootKeeps == AppSpec => BootKeepsUserData
<1>1. ASSUME LifeInd, AppNext, proc = "off", proc' # "off"
      PROVE  KeepsUserData(db, db', platform)
  <2>1. Launch
    BY <1>1 DEF AppNext, SecondLaunch, LoadModel, CloseMain, MinimizeMain, MoveMain, SaveFrame,
       ChangeDisplays, RepairFromModal, QuitFromModal, RepairFromPage, HandlersRegistered,
       SaveSettings, EditProfile, EditDictionary, Usable, CapsulePresence, CapsuleLeaves, Quit,
       Kill, DamageFile
  <2>2. db' = db \/ db' = Seeded(db, platform)
    BY <2>1 DEF Launch, BootFails, BootDies, BootStops, BootSucceeds, BootShows, BuildRuntime
  <2>3. db \in Databases /\ HasBuiltIns(db) /\ platform \in {"darwin", "win32"}
    BY <1>1 DEF LifeInd, AppTypeOK
  <2>4. KeepsUserData(db, Seeded(db, platform), platform)
    BY <2>3, SeededKeeps
  <2>5. KeepsUserData(db, db, platform)
    BY DEF KeepsUserData
  <2> QED BY <2>2, <2>4, <2>5
<1>2. LifeInd /\ [AppNext]_vars => [proc = "off" /\ proc' # "off" => KeepsUserData(db, db', platform)]_vars
  BY <1>1 DEF vars
<1> QED BY LifeInductive, <1>2, PTL DEF AppSpec, BootKeepsUserData

(* FrameComesBack of AppLife: a window that is made again stands where it   *)
(* was saved if that lies on a display, and is on a display wherever a      *)
(* frame no larger than every work area was saved, whichever displays were  *)
(* connected or taken away in between (pickStartupBounds).                  *)
THEOREM FrameReturns == AppSpec => FrameComesBack
<1> DEFINE Returns ==
      main = "none" /\ main' # "none" /\ saved # NoFrame =>
       /\ (\E i \in DOMAIN displays : Inside(saved, displays[i].work)) => frame' = saved
       /\ (\A i \in DOMAIN displays : NoLarger(saved, displays[i].work)) =>
            OnScreen(frame', WorkAreas(displays))
<1>1. ASSUME LifeInd, AppNext, main = "none", main' # "none" PROVE CreateMain
  <2>1. CASE Launch
    BY <1>1, <2>1 DEF Launch, BootFails, BootDies, BootStops, BootSucceeds, BootShows, SpawnMain
  <2>2. CASE SecondLaunch
    BY <1>1, <2>2 DEF SecondLaunch, SurfaceMain, SpawnMain
  <2>3. CASE RepairFromModal \/ RepairFromPage \/ QuitFromModal \/ Kill
    BY <1>1, <2>3 DEF RepairFromModal, RepairFromPage, RepairData, Gone, QuitFromModal, Kill
  <2>4. CASE ~(Launch \/ SecondLaunch \/ RepairFromModal \/ RepairFromPage \/ QuitFromModal \/ Kill)
    BY <1>1, <2>4 DEF AppNext, LoadModel, CloseMain, MinimizeMain, MoveMain, SaveFrame,
       ChangeDisplays, SaveSettings, EditProfile, EditDictionary, CapsulePresence,
       CapsuleLeaves, Quit, DamageFile
  <2> QED BY <2>1, <2>2, <2>3, <2>4
<1>2. ASSUME LifeInd, AppNext PROVE Returns
  <2> SUFFICES ASSUME main = "none", main' # "none", saved # NoFrame
      PROVE  /\ (\E i \in DOMAIN displays : Inside(saved, displays[i].work)) => frame' = saved
             /\ (\A i \in DOMAIN displays : NoLarger(saved, displays[i].work)) =>
                  OnScreen(frame', WorkAreas(displays))
    OBVIOUS
  <2>1. frame' = StartupFrame(saved, WorkAreas(displays))
    BY <1>1, <1>2 DEF CreateMain
  <2>2. displays \in Layouts /\ saved \in SavedFrames
    BY <1>2 DEF LifeInd, AppTypeOK
  <2> QED BY <2>1, <2>2, FrameOpens
<1>3. LifeInd /\ [AppNext]_vars => [Returns]_vars
  BY <1>2
<1> QED BY LifeInductive, <1>3, PTL DEF AppSpec, FrameComesBack

==============================================================================
