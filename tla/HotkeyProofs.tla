---------------------------- MODULE HotkeyProofs ----------------------------
(***************************************************************************)
(* What HotkeyService promises, for every set of keys and modes, however    *)
(* long the queue and however often a dialog asks for a capture: the hook   *)
(* and the chords, what an open dialog may rely on, and that an end which   *)
(* comes late is ignored.                                                   *)
(* The hook part needs no assumption on the keys.  That a release is told   *)
(* from a press needs one: every key has a flag of its own.  Where the two  *)
(* keys of a family share a flag the properties about keys are false.       *)
(***************************************************************************)
EXTENDS HotkeyService, TLAPS

OwnFlags == \A j, k \in Keys : Family[j] = Family[k] => j = k

Messages ==
  {Reply(d, s) : d \in 1 .. MaxBegins, s \in Nat} \cup {KeyEvent(edge) : edge \in Edges}
  \cup {Ended}

(* Without the hook there is nothing to read keys from.                     *)
HookIsThere ==
  /\ installed => gate = "done"
  /\ ~installed => /\ queue = <<>> /\ held = {} /\ ~capturing
                   /\ captureSession = 0
  /\ capturing => captureSession > 0

Down(k) == <<k, TRUE>>
Up(k) == <<k, FALSE>>

(* A press in the queue is of a key that is down, or its release follows;   *)
(* and so is a key the matcher holds.                                       *)
ReleaseQueued(k, i) == \E j \in DOMAIN queue : j > i /\ queue[j] = Up(k)

QueueFollowsKeys ==
  \A i \in DOMAIN queue, k \in Keys :
    queue[i] = Down(k) => k \in keysDown \/ ReleaseQueued(k, i)

HeldFollowsKeys ==
  /\ \A k \in held : k \in keysDown \/ ReleaseQueued(k, 0)
  /\ pressedChords \subseteq Matched(bindings, held)

(* Captures are answered in the order the dialogs asked, each once.          *)
InOrder(asked, open, session, main, told) ==
  /\ open \in {0, asked}
  /\ session # NoSession =>
       /\ open # 0
       /\ \A i \in DOMAIN main : main[i][1] # "begin"
       /\ \A i \in DOMAIN told : told[i][1] # "reply"
  /\ \A i \in DOMAIN main : main[i][1] = "begin" =>
       /\ main[i][2] \in Nat /\ main[i][2] <= asked
       /\ \A j \in DOMAIN main : i < j /\ main[j][1] = "begin" => main[i][2] < main[j][2]
       /\ \A j \in DOMAIN told : told[j][1] = "reply" => told[j][2] < main[i][2]
       /\ open # 0 => \E j \in DOMAIN main : main[j] = <<"begin", open>>
  /\ \A i \in DOMAIN told : told[i][1] = "reply" =>
       /\ told[i][2] \in Nat /\ told[i][2] <= asked
       /\ \A j \in DOMAIN told :
            i < j /\ told[j][1] = "reply" => told[i][2] < told[j][2]

DialogsInOrder == InOrder(begins, dialog, dialogSession, toMain, toDialog)

(* A capture session is known to one party at a time: it is in a reply, or  *)
(* a dialog's, or in a request to end it.                                   *)
Tokens(current, session, main, told) ==
  /\ session \in NoSession .. current
  /\ \A i \in DOMAIN told : told[i][1] = "reply" =>
       /\ told[i][3] \in 0 .. current
       /\ told[i][3] # 0 =>
            /\ session # told[i][3]
            /\ \A j \in DOMAIN told :
                 i # j /\ told[j][1] = "reply" => told[j][3] # told[i][3]
  /\ \A i \in DOMAIN main : main[i][1] = "end" =>
       /\ main[i][2] \in 0 .. current
       /\ main[i][2] # 0 =>
            /\ session # main[i][2]
            /\ \A j \in DOMAIN told : told[j][1] = "reply" => told[j][3] # main[i][2]

SessionsAreTokens == Tokens(captureSession, dialogSession, toMain, toDialog)

(* A session is live for the open dialog once its reply is on its way: it    *)
(* holds the hook, or the last message tells the dialog that it ended.       *)
Live(s) ==
  \/ dialogSession = s
  \/ dialog # 0 /\ \E i \in DOMAIN toDialog : toDialog[i] = Reply(dialog, s)

LiveSessionOwns ==
  \A s \in 1 .. captureSession : Live(s) =>
    IF capturing THEN captureSession = s
                 ELSE toDialog # <<>> /\ toDialog[Len(toDialog)] = Ended

(* After the i-th message, the dialog will learn that a key is up.          *)
Follows(k, i) ==
  \/ k \in keysDown
  \/ capturing /\ ReleaseQueued(k, 0)
  \/ \E j \in DOMAIN toDialog : j > i /\ toDialog[j] \in {KeyEvent(Up(k)), Ended}

(* The dialog will listen to the i-th message.                              *)
Heeded(i) ==
  \/ dialogSession > 0
  \/ /\ dialog # 0
     /\ \E j \in DOMAIN toDialog, s \in 1 .. captureSession :
          j < i /\ toDialog[j] = Reply(dialog, s)

(* Of each key the dialog heard go down, or will, it will learn the release.  *)
FollowsHeeded ==
  \A i \in DOMAIN toDialog, k \in Keys :
    Heeded(i) /\ toDialog[i] = KeyEvent(Down(k)) => Follows(k, i)

(* That is, of each it takes for held, but those it held when it asked anew. *)
Fresh == heard \ missed

FollowsHeard == dialogSession > 0 => \A k \in Fresh : Follows(k, 0)

(* A dialog that waits for its reply has heard nothing new; one without the  *)
(* hook, only of keys that are down.                                        *)
Heard ==
  /\ dialogSession = NoSession => Fresh = {}
  /\ dialogSession = 0 => Fresh \subseteq keysDown

HookTypeOK == HotkeyTypeOK /\ toDialog \in Seq(Messages)

HookInd == HookTypeOK /\ HookIsThere /\ BindingsFollowStore /\ CaptureOwnsHook
DialogInd == DialogsInOrder /\ SessionsAreTokens /\ LiveSessionOwns
KeysInd ==
  /\ QueueFollowsKeys /\ HeldFollowsKeys
  /\ FollowsHeeded /\ FollowsHeard /\ Heard
  /\ released => heard = {}

-----------------------------------------------------------------------------
(* Queues.                                                                  *)
Pushed(s, t, m) ==
  /\ Len(s) \in Nat /\ Len(t) = Len(s) + 1
  /\ DOMAIN s = 1 .. Len(s) /\ DOMAIN t = 1 .. Len(t)
  /\ t[Len(t)] = m /\ \A i \in 1 .. Len(s) : t[i] = s[i]

Popped(s, t) ==
  /\ Len(s) \in Nat \ {0} /\ Len(t) = Len(s) - 1
  /\ DOMAIN s = 1 .. Len(s) /\ DOMAIN t = 1 .. Len(t)
  /\ \A i \in 1 .. Len(t) : t[i] = s[i + 1]

LEMMA Pushing ==
  ASSUME NEW S, NEW s \in Seq(S), NEW m \in S
  PROVE  Append(s, m) \in Seq(S) /\ Pushed(s, Append(s, m), m)
BY DEF Pushed

LEMMA Popping ==
  ASSUME NEW S, NEW s \in Seq(S), s # <<>>
  PROVE  Tail(s) \in Seq(S) /\ Popped(s, Tail(s)) /\ Head(s) = s[1] /\ s[1] \in S
BY DEF Popped

LEMMA PoppedAt ==
  ASSUME NEW s, NEW t, Popped(s, t)
  PROVE  /\ \A i \in DOMAIN t : i + 1 \in DOMAIN s /\ t[i] = s[i + 1] /\ i \in Nat /\ i >= 1
         /\ \A i \in DOMAIN s : i # 1 => i - 1 \in DOMAIN t /\ t[i - 1] = s[i]
         /\ 1 \in DOMAIN s /\ \A i \in DOMAIN s : i \in Nat /\ i >= 1
<1> USE DEF Popped
<1>1. ASSUME NEW i \in DOMAIN t
      PROVE  i + 1 \in DOMAIN s /\ t[i] = s[i + 1] /\ i \in Nat /\ i >= 1
  OBVIOUS
<1>2. ASSUME NEW i \in DOMAIN s, i # 1 PROVE i - 1 \in DOMAIN t /\ t[i - 1] = s[i]
  <2>1. i - 1 \in DOMAIN t /\ (i - 1) + 1 = i
    BY <1>2
  <2> QED BY <1>1, <2>1
<1> QED BY <1>1, <1>2

LEMMA PushedAt ==
  ASSUME NEW s, NEW t, NEW m, Pushed(s, t, m)
  PROVE  /\ \A i \in DOMAIN t :
              i \in Nat /\ ((i \in DOMAIN s /\ t[i] = s[i]) \/ (i = Len(t) /\ t[i] = m))
         /\ \A i \in DOMAIN s : i \in DOMAIN t /\ t[i] = s[i] /\ i < Len(t)
         /\ Len(t) \in DOMAIN t /\ t[Len(t)] = m
<1> USE DEF Pushed
<1>1. ASSUME NEW i \in DOMAIN t
      PROVE  i \in Nat /\ ((i \in DOMAIN s /\ t[i] = s[i]) \/ (i = Len(t) /\ t[i] = m))
  <2>1. CASE i = Len(t)
    BY <2>1
  <2>2. CASE i # Len(t)
    <3>1. i \in 1 .. Len(s)
      BY <2>2
    <3>2. i \in Nat
      BY <3>1
    <3>3. i \in DOMAIN s /\ t[i] = s[i]
      BY <3>1
    <3> HIDE DEF Pushed
    <3> QED BY <3>2, <3>3
  <2> QED BY <2>1, <2>2
<1>2. ASSUME NEW i \in DOMAIN s PROVE i \in DOMAIN t /\ t[i] = s[i] /\ i < Len(t)
  OBVIOUS
<1>3. Len(t) \in DOMAIN t /\ t[Len(t)] = m
  OBVIOUS
<1> QED BY <1>1, <1>2, <1>3

-----------------------------------------------------------------------------
(* Types.                                                                   *)
LEMMA TypeInit ==
  ASSUME ServiceInit
  PROVE  HookTypeOK
<1> USE DEF ServiceInit
<1>1. RuntimeTypeOK
  BY DEF RuntimeInit, RuntimeTypeOK, CoordinatorInit, CoordinatorTypeOK, NoChords, Chords
<1>2. MachineTypeOK
  BY DEF MachineInit, MachineTypeOK
<1>3. begins \in 0 .. MaxBegins /\ dialog \in 0 .. begins /\ missed \subseteq Keys
  BY BeginsAssumption
<1>4. queue \in Seq(Edges) /\ toMain \in Seq(Requests) /\ toDialog \in Seq(Messages)
  OBVIOUS
<1> QED BY <1>1, <1>2, <1>3, <1>4 DEF HookTypeOK, HotkeyTypeOK

LEMMA RuntimeTyped ==
  ASSUME HookTypeOK, [ServiceNext]_serviceVars
  PROVE  RuntimeTypeOK'
<1> USE DEF RuntimeTypeOK, CoordinatorTypeOK, HookTypeOK, HotkeyTypeOK
<1>1. CASE UNCHANGED runtimeVars
  BY <1>1 DEF runtimeVars, matcherVars
<1>2. ASSUME ClearHeld, ResetCoordinator, UNCHANGED bindings PROVE RuntimeTypeOK'
  BY <1>2 DEF ClearHeld, ResetCoordinator
<1>3. CASE DrainEdge
  <2>1. Head(queue)[1] \in Keys /\ Head(queue)[2] \in BOOLEAN
    <3>1. Head(queue) \in Edges
      BY <1>3 DEF DrainEdge
    <3> QED BY <3>1 DEF Edges
  <2>2. ASSUME Feed(Head(queue)[1], Head(queue)[2]) PROVE RuntimeTypeOK'
    <3>1. /\ held' \subseteq Keys /\ bindings' = bindings
          /\ pressedChords' \subseteq Modes
      BY <2>1, <2>2 DEF Feed, MatchEdge, Matched
    <3>2. chordMode' \in Modes \cup {NoMode}
      <4>1. ASSUME NEW mode \in Modes PROVE Toggle(mode).next \in Modes \cup {NoMode}
        BY DEF Toggle
      <4> QED BY <2>2, <3>1, <4>1 DEF Feed, DriveCoordinator, ResetCoordinator
    <3> QED BY <3>1, <3>2
  <2> QED BY <1>1, <1>3, <2>2 DEF DrainEdge
<1>4. CASE GateStarts \/ GateTick
  BY <1>1, <1>4 DEF GateStarts, GateTick, TryInstall
<1>5. ASSUME NEW mode \in Modes, NEW chord \in SUBSET Keys, NEW policy, SaveMode(mode, chord,
             policy)
      PROVE  RuntimeTypeOK'
  <2>1. saved' \in Chords
    BY <1>5 DEF SaveMode, Store, Chords
  <2> QED BY <1>5, <2>1 DEF SaveMode, Rebind, ApplyBindings, SetBindings, ClearHeld, matcherVars
<1>6. CASE MainServes
  BY <1>1, <1>2, <1>6 DEF MainServes, BeginCapture, EndCapture, TakeHook, TeardownCapture
<1>7. CASE WatchdogFires \/ RendererGone
  BY <1>1, <1>2, <1>7 DEF WatchdogFires, RendererGone, ForceEndCapture, TeardownCapture
<1>8. CASE KeyStep \/ GrantTrust \/ DialogHears \/ EffectRunsAnew
           \/ Rerecord \/ CloseDialog \/ \E mode \in Modes : OpenDialog(mode)
  BY <1>1, <1>8 DEF KeyStep, KeyDown, KeyUp, KeyMoves, GrantTrust, DialogHears, EffectRunsAnew,
                    Rerecord, CloseDialog, OpenDialog
<1>9. CASE UNCHANGED serviceVars
  BY <1>1, <1>9 DEF serviceVars
<1> QED BY <1>3, <1>4, <1>5, <1>6, <1>7, <1>8, <1>9 DEF ServiceNext, SaveStep

LEMMA EdgeTyped ==
  ASSUME NEW key \in Keys, NEW down
  PROVE  Edge(key, down) \in Edges
<1>1. (\E k \in down : Family[k] = Family[key]) \in BOOLEAN
  OBVIOUS
<1> QED BY <1>1 DEF Edge, Edges

LEMMA HookTyped ==
  ASSUME HookTypeOK, [ServiceNext]_serviceVars
  PROVE  /\ keysDown' \subseteq Keys /\ queue' \in Seq(Edges) /\ trusted' \in BOOLEAN
         /\ gate' \in {"idle", "polling", "done"} /\ installed' \in BOOLEAN
         /\ saved' \in Chords
<1> USE DEF HookTypeOK, HotkeyTypeOK
<1>1. CASE UNCHANGED <<hookVars, saved>>
  BY <1>1 DEF hookVars
<1>2. ASSUME NEW key \in Keys, KeyDown(key) \/ KeyUp(key)
      PROVE  /\ keysDown' \subseteq Keys /\ queue' \in Seq(Edges)
             /\ UNCHANGED <<trusted, gate, installed, saved>>
  <2>1. PICK down \in SUBSET Keys : KeyMoves(key, down)
    BY <1>2 DEF KeyDown, KeyUp
  <2>2. Append(queue, Edge(key, down)) \in Seq(Edges)
    BY EdgeTyped, Pushing
  <2> QED BY <2>1, <2>2 DEF KeyMoves
<1>3. CASE DrainEdge
  BY <1>3, Popping DEF DrainEdge
<1>4. CASE GrantTrust \/ GateStarts \/ GateTick
  <2>1. ASSUME TryInstall PROVE queue' \in Seq(Edges) /\ installed' \in BOOLEAN /\ gate' = "done"
    BY <2>1 DEF TryInstall
  <2>2. CASE GrantTrust
    BY <2>2 DEF GrantTrust
  <2>3. CASE GateStarts
    BY <2>1, <2>3 DEF GateStarts
  <2>4. CASE GateTick
    BY <2>1, <2>4 DEF GateTick
  <2> QED BY <1>4, <2>2, <2>3, <2>4
<1>5. ASSUME NEW mode \in Modes, NEW chord \in SUBSET Keys, NEW policy, SaveMode(mode, chord,
             policy)
      PROVE  saved' \in Chords /\ UNCHANGED hookVars
  BY <1>5 DEF SaveMode, Store, Chords
<1>6. CASE MainServes \/ WatchdogFires \/ RendererGone \/ DialogHears \/ Rerecord \/ CloseDialog
           \/ EffectRunsAnew \/ \E mode \in Modes : OpenDialog(mode)
  BY <1>1, <1>6 DEF MainServes, WatchdogFires, RendererGone, DialogHears, Rerecord, CloseDialog,
                    EffectRunsAnew, OpenDialog
<1>7. CASE UNCHANGED serviceVars
  BY <1>1, <1>7 DEF serviceVars
<1> QED BY <1>2, <1>3, <1>4, <1>5, <1>6, <1>7 DEF ServiceNext, SaveStep, KeyStep, hookVars

LEMMA MachineTyped ==
  ASSUME HookTypeOK, [ServiceNext]_serviceVars
  PROVE  MachineTypeOK' /\ missed' \subseteq Keys
<1> DEFINE Typed == MachineTypeOK' /\ missed' \subseteq Keys
<1> USE DEF HookTypeOK, HotkeyTypeOK
<1>1. CASE UNCHANGED machineVars /\ missed' \in {missed, heard}
  BY <1>1 DEF machineVars, MachineTypeOK
<1>2. ASSUME NEW chord \in SUBSET Keys, Restart(chord) PROVE Typed
  BY <1>2 DEF Restart, ResetMachine, MachineTypeOK
<1>3. ASSUME NEW key \in Keys, NEW down, Listen(key, down) PROVE Typed
  BY <1>3 DEF Listen, Hear, HearDown, HearUp, MachineTypeOK, machineVars
<1>4. ASSUME NEW key \in Keys, KeyDown(key) \/ KeyUp(key) PROVE Typed
  BY <1>1, <1>3, <1>4 DEF KeyDown, KeyUp, KeyMoves, HearWindow, listenVars
<1>5. CASE DialogHears
  <2> DEFINE message == Head(toDialog)
  <2>1. message \in Messages
    BY <1>5, Popping DEF DialogHears
  <2>2. ASSUME message[1] = "key" PROVE message[2] \in Keys
    <3>1. message \in {KeyEvent(edge) : edge \in Edges}
      BY <2>1, <2>2 DEF Messages, Reply, Ended
    <3> QED BY <3>1 DEF KeyEvent, Edges
  <2>3. ASSUME Close PROVE Typed
    BY <1>2, <2>3 DEF Close
  <2> HIDE DEF message
  <2>4. \/ UNCHANGED listenVars \/ Close
        \/ message[1] = "key" /\ Listen(message[2], message[3])
    BY <1>5 DEF DialogHears, ReplyArrives, KeyArrives, EndedArrives, message
  <2> QED BY <1>1, <1>3, <2>2, <2>3, <2>4 DEF listenVars
<1>6. ASSUME NEW mode \in Modes, OpenDialog(mode) PROVE Typed
  <2>1. saved[mode] \in SUBSET Keys
    BY DEF Chords
  <2> QED BY <1>2, <1>6, <2>1 DEF OpenDialog
<1>7. CASE Rerecord \/ CloseDialog \/ RendererGone
  BY <1>2, <1>7 DEF Rerecord, CloseDialog, Close, RendererGone
<1>8. CASE \/ UNCHANGED serviceVars \/ DrainEdge \/ GrantTrust \/ GateStarts \/ GateTick \/ SaveStep
           \/ MainServes \/ WatchdogFires \/ EffectRunsAnew
  BY <1>1, <1>8 DEF serviceVars, dialogVars, listenVars, DrainEdge, GrantTrust, GateStarts,
                    GateTick, SaveStep, SaveMode, MainServes, WatchdogFires, EffectRunsAnew
<1> QED BY <1>4, <1>5, <1>6, <1>7, <1>8 DEF ServiceNext, KeyStep

-----------------------------------------------------------------------------
(* What a step does to the dialog and the capture.                          *)
keyboard == <<keysDown, queue>>
capture == <<capturing, captureSession>>
window == <<begins, dialog, dialogSession>>

SendsKey ==
  /\ capturing /\ queue # <<>> /\ queue' = Tail(queue)
  /\ toDialog' = Append(toDialog, KeyEvent(Head(queue)))
  /\ UNCHANGED <<keysDown, capture, window, toMain, Fresh>>

Answers(d) ==
  /\ toMain # <<>> /\ Head(toMain) = <<"begin", d>> /\ toMain' = Tail(toMain)
  /\ \/ /\ installed /\ capturing' = TRUE /\ captureSession' = captureSession + 1
        /\ toDialog' = Append(toDialog, Reply(d, captureSession + 1))
     \/ /\ ~installed /\ UNCHANGED capture
        /\ toDialog' = Append(toDialog, Reply(d, 0))
  /\ UNCHANGED <<keyboard, window, Fresh>>

Stops(session) ==
  /\ toMain # <<>> /\ Head(toMain) = <<"end", session>> /\ toMain' = Tail(toMain)
  /\ capturing' = (capturing /\ session # captureSession)
  /\ UNCHANGED <<keyboard, captureSession, window, toDialog, Fresh>>

Times ==
  /\ capturing /\ capturing' = FALSE /\ toDialog' = Append(toDialog, Ended)
  /\ UNCHANGED <<keyboard, captureSession, window, toMain, Fresh>>

(* A dialog is opened, or an open one asks anew.                            *)
Opens ==
  /\ begins < MaxBegins /\ begins' = begins + 1 /\ dialog' = begins + 1
  /\ dialogSession' = NoSession /\ Fresh' = {}
  /\ \/ toMain' = Append(toMain, <<"begin", begins + 1>>)
     \/ toMain' = Append(EndAsked, <<"begin", begins + 1>>)
  /\ UNCHANGED <<keyboard, capture, toDialog>>

Closes ==
  /\ dialog' = 0 /\ dialogSession' = NoSession /\ Fresh' = {}
  /\ toMain' = EndAsked
  /\ toDialog' = toDialog \/ (toDialog # <<>> /\ toDialog' = Tail(toDialog))
  /\ UNCHANGED <<keyboard, capture, begins>>

Learns(d, session) ==
  /\ toDialog # <<>> /\ Head(toDialog) = Reply(d, session) /\ toDialog' = Tail(toDialog)
  /\ \/ dialog = d /\ dialogSession' = session /\ UNCHANGED toMain
     \/ dialog # d /\ toMain' = Append(toMain, <<"end", session>>) /\ UNCHANGED dialogSession
  /\ UNCHANGED <<keyboard, capture, begins, dialog, Fresh>>

Skips ==
  /\ toDialog # <<>> /\ toDialog' = Tail(toDialog)
  /\ \/ \E edge \in Edges :
          /\ Head(toDialog) = KeyEvent(edge)
          /\ IF dialogSession > 0 THEN Listen(edge[1], edge[2]) ELSE Fresh' = Fresh
     \/ Head(toDialog) = Ended /\ dialogSession <= 0 /\ Fresh' = Fresh
  /\ UNCHANGED <<keyboard, capture, window, toMain>>

Dies ==
  /\ dialog' = 0 /\ dialogSession' = NoSession /\ toMain' = <<>> /\ toDialog' = <<>>
  /\ Fresh' = {}
  /\ \/ capturing /\ capturing' = FALSE /\ captureSession' = captureSession + 1
     \/ ~capturing /\ UNCHANGED capture
  /\ UNCHANGED <<keyboard, begins>>

Quiet ==
  /\ Fresh' \subseteq Fresh \/ dialogSession = 0
  /\ UNCHANGED <<capture, window, toMain, toDialog>>

LEMMA RequestHeads ==
  ASSUME HookTypeOK, toMain # <<>>
  PROVE  \/ \E d \in 1 .. MaxBegins : Head(toMain) = <<"begin", d>>
         \/ \E session \in Nat : Head(toMain) = <<"end", session>>
<1>1. Head(toMain) \in Requests
  BY Popping DEF HookTypeOK, HotkeyTypeOK
<1> QED BY <1>1 DEF Requests

LEMMA MessageHeads ==
  ASSUME HookTypeOK, toDialog # <<>>
  PROVE  \/ \E d \in 1 .. MaxBegins, session \in Nat : Head(toDialog) = Reply(d, session)
         \/ \E edge \in Edges : Head(toDialog) = KeyEvent(edge)
         \/ Head(toDialog) = Ended
<1>1. Head(toDialog) \in Messages
  BY Popping DEF HookTypeOK
<1> QED BY <1>1 DEF Messages

LEMMA DialogSteps ==
  ASSUME HookTypeOK, CaptureOwnsHook, [ServiceNext]_serviceVars
  PROVE  \/ Quiet \/ SendsKey \/ Times \/ Opens \/ Closes \/ Skips \/ Dies
         \/ \E d \in 1 .. MaxBegins : Answers(d)
         \/ \E session \in Nat : Stops(session)
         \/ \E d \in 1 .. MaxBegins, session \in Nat : Learns(d, session)
<1> USE DEF capture, window, keyboard, hookVars, listenVars, machineVars, Restart, ResetMachine,
            Fresh
<1>1. CASE \/ UNCHANGED serviceVars \/ KeyStep \/ GrantTrust \/ GateStarts \/ GateTick \/ SaveStep
           \/ Rerecord
  BY <1>1 DEF Quiet, serviceVars, captureVars, dialogVars, KeyStep, KeyDown, KeyUp, KeyMoves,
         HearWindow,
              GrantTrust, GateStarts, GateTick, SaveStep, SaveMode, Rerecord
<1>2. CASE DrainEdge
  <2>1. Head(queue) \in Edges
    BY <1>2, Popping DEF DrainEdge, HookTypeOK, HotkeyTypeOK
  <2> QED BY <1>2, <2>1 DEF DrainEdge, Quiet, SendsKey
<1>3. CASE MainServes
  <2>1. ASSUME NEW d \in 1 .. MaxBegins, Head(toMain) = <<"begin", d>>
        PROVE  Answers(d)
    <3>1. BeginCapture(d) /\ toMain # <<>> /\ toMain' = Tail(toMain)
          /\ UNCHANGED <<keyboard, window, Fresh>>
      BY <1>3, <2>1 DEF MainServes
    <3>2. CASE installed
      BY <2>1, <3>1, <3>2 DEF BeginCapture, TakeHook, Answers
    <3>3. CASE ~installed
      BY <2>1, <3>1, <3>3 DEF BeginCapture, captureVars, Answers
    <3> QED BY <3>2, <3>3
  <2>2. ASSUME NEW session \in Nat, Head(toMain) = <<"end", session>>
        PROVE  Stops(session)
    <3>1. EndCapture(session) /\ toMain # <<>> /\ toMain' = Tail(toMain)
          /\ UNCHANGED <<keyboard, window, Fresh>>
      BY <1>3, <2>2 DEF MainServes
    <3>2. capturing \in BOOLEAN
      BY DEF HookTypeOK, HotkeyTypeOK
    <3> QED BY <2>2, <3>1, <3>2 DEF EndCapture, TeardownCapture, Stops
  <2> QED BY <1>3, <2>1, <2>2, RequestHeads DEF MainServes
<1>4. CASE WatchdogFires
  BY <1>4 DEF WatchdogFires, TeardownCapture, CaptureOwnsHook, Times, Quiet
<1>5. CASE EffectRunsAnew \/ \E mode \in Modes : OpenDialog(mode)
  BY <1>5 DEF EffectRunsAnew, OpenDialog, captureVars, Opens
<1>6. CASE DialogHears
  <2>1. toDialog # <<>> /\ toDialog' = Tail(toDialog) /\ UNCHANGED <<keyboard, capture, begins>>
    BY <1>6 DEF DialogHears, captureVars
  <2>2. ASSUME NEW d \in 1 .. MaxBegins, NEW session \in Nat, Head(toDialog) = Reply(d, session)
        PROVE  Learns(d, session)
    <3>1. ReplyArrives(d, session)
      BY <1>6, <2>2 DEF DialogHears, Reply
    <3> QED BY <2>1, <2>2, <3>1 DEF ReplyArrives, Learns
  <2>3. ASSUME NEW edge \in Edges, Head(toDialog) = KeyEvent(edge)
        PROVE  Skips
    <3>1. KeyArrives(edge[1], edge[2])
      BY <1>6, <2>3 DEF DialogHears, KeyEvent
    <3> QED BY <2>1, <2>3, <3>1 DEF KeyArrives, Skips
  <2>4. CASE Head(toDialog) = Ended
    <3>1. EndedArrives
      BY <1>6, <2>4 DEF DialogHears, Ended
    <3>2. dialogSession \in Nat \cup {NoSession} /\ NoSession = -1
      BY DEF HookTypeOK, HotkeyTypeOK, NoSession
    <3> QED BY <2>1, <2>4, <3>1, <3>2 DEF EndedArrives, Close, Closes, Skips
  <2> QED BY <2>1, <2>2, <2>3, <2>4, MessageHeads
<1>7. CASE CloseDialog
  BY <1>7 DEF CloseDialog, Close, captureVars, Closes
<1>8. CASE RendererGone
  BY <1>8 DEF RendererGone, ForceEndCapture, TeardownCapture, captureVars, Dies
<1> QED BY <1>1, <1>2, <1>3, <1>4, <1>5, <1>6, <1>7, <1>8 DEF ServiceNext

LEMMA WindowTyped ==
  ASSUME HookTypeOK, CaptureOwnsHook, [ServiceNext]_serviceVars
  PROVE  /\ capturing' \in BOOLEAN /\ captureSession' \in Nat
         /\ begins' \in 0 .. MaxBegins /\ dialog' \in 0 .. begins'
         /\ dialogSession' \in Nat \cup {NoSession}
         /\ toMain' \in Seq(Requests) /\ toDialog' \in Seq(Messages)
<1>1. /\ capturing \in BOOLEAN /\ captureSession \in Nat /\ MaxBegins \in Nat
      /\ begins \in 0 .. MaxBegins /\ dialog \in 0 .. begins
      /\ dialogSession \in Nat \cup {NoSession}
      /\ toMain \in Seq(Requests) /\ toDialog \in Seq(Messages)
  BY BeginsAssumption DEF HookTypeOK, HotkeyTypeOK
<1>2. /\ \A d \in 1 .. MaxBegins, session \in Nat : Reply(d, session) \in Messages
      /\ \A edge \in Edges : KeyEvent(edge) \in Messages
      /\ Ended \in Messages
  BY DEF Messages
<1>3. /\ \A session \in Nat : <<"end", session>> \in Requests
      /\ \A d \in 1 .. MaxBegins : <<"begin", d>> \in Requests
  BY DEF Requests
<1> USE DEF capture, window
<1>4. CASE Quiet
  BY <1>1, <1>4 DEF Quiet
<1>5. CASE SendsKey
  <2>1. Head(queue) \in Edges
    BY <1>5, Popping DEF SendsKey, HookTypeOK, HotkeyTypeOK
  <2> QED BY <1>1, <1>2, <1>5, <2>1, Pushing DEF SendsKey
<1>6. CASE Times
  BY <1>1, <1>2, <1>6, Pushing DEF Times
<1>7. CASE Opens
  <2>1. begins + 1 \in 1 .. MaxBegins /\ begins + 1 \in 0 .. (begins + 1)
    BY <1>1, <1>7 DEF Opens
  <2>2. EndAsked \in Seq(Requests)
    BY <1>1, <1>3, Pushing DEF EndAsked
  <2>3. /\ Append(toMain, <<"begin", begins + 1>>) \in Seq(Requests)
        /\ Append(EndAsked, <<"begin", begins + 1>>) \in Seq(Requests)
    BY <1>1, <1>3, <2>1, <2>2, Pushing
  <2>4. /\ UNCHANGED <<capturing, captureSession, toDialog>> /\ begins' = begins + 1
        /\ dialog' = begins + 1 /\ dialogSession' = NoSession /\ toMain' \in Seq(Requests)
    BY <1>7, <2>3 DEF Opens
  <2> QED BY <1>1, <2>1, <2>4
<1>8. CASE Closes
  <2>1. toDialog' \in Seq(Messages)
    BY <1>1, <1>8, Popping DEF Closes
  <2>2. EndAsked \in Seq(Requests)
    BY <1>1, <1>3, Pushing DEF EndAsked
  <2>3. 0 \in 0 .. begins
    BY <1>1
  <2> QED BY <1>1, <1>8, <2>1, <2>2, <2>3 DEF Closes
<1>9. CASE Skips
  BY <1>1, <1>9, Popping DEF Skips
<1>10. CASE Dies
  <2>1. 0 \in 0 .. begins
    BY <1>1
  <2>2. capturing' \in BOOLEAN /\ captureSession' \in Nat
    <3>1. captureSession + 1 \in Nat /\ captureSession' \in {captureSession, captureSession + 1}
      BY <1>1, <1>10 DEF Dies
    <3>2. capturing' \in {capturing, FALSE}
      BY <1>10 DEF Dies
    <3> QED BY <1>1, <3>1, <3>2
  <2>3. toMain' \in Seq(Requests) /\ toDialog' \in Seq(Messages)
    BY <1>10 DEF Dies
  <2> QED BY <1>1, <1>10, <2>1, <2>2, <2>3 DEF Dies
<1>11. ASSUME NEW d \in 1 .. MaxBegins, Answers(d)
       PROVE  /\ toMain' \in Seq(Requests) /\ toDialog' \in Seq(Messages)
              /\ capturing' \in BOOLEAN /\ captureSession' \in Nat /\ UNCHANGED window
  <2>1. Append(toDialog, Reply(d, 0)) \in Seq(Messages)
        /\ Append(toDialog, Reply(d, captureSession + 1)) \in Seq(Messages)
    <3>1. captureSession + 1 \in Nat
      BY <1>1
    <3> QED BY <1>1, <1>2, <3>1, Pushing
  <2>2. capturing' \in BOOLEAN /\ captureSession' \in Nat
    <3>1. captureSession + 1 \in Nat
      BY <1>1
    <3> QED BY <1>1, <1>11, <3>1 DEF Answers
  <2> QED BY <1>1, <1>11, <2>1, <2>2, Popping DEF Answers
<1>12. ASSUME NEW session \in Nat, Stops(session)
       PROVE  /\ toMain' \in Seq(Requests) /\ toDialog' = toDialog /\ capturing' \in BOOLEAN
              /\ UNCHANGED <<captureSession, window>>
  BY <1>1, <1>12, Popping DEF Stops
<1>13. ASSUME NEW d \in 1 .. MaxBegins, NEW session \in Nat, Learns(d, session)
       PROVE  /\ toMain' \in Seq(Requests) /\ toDialog' \in Seq(Messages)
              /\ dialogSession' \in Nat \cup {NoSession} /\ UNCHANGED <<capture, begins, dialog>>
  BY <1>1, <1>3, <1>13, Pushing, Popping DEF Learns
<1> QED BY <1>1, <1>4, <1>5, <1>6, <1>7, <1>8, <1>9, <1>10, <1>11, <1>12, <1>13, DialogSteps

LEMMA WatchdogTyped ==
  ASSUME HookTypeOK, [ServiceNext]_serviceVars
  PROVE  watchdog' \in Nat
<1>1. watchdog \in Nat /\ captureSession \in Nat
  BY DEF HookTypeOK, HotkeyTypeOK
<1>2. \/ watchdog' \in {0, watchdog, captureSession}
      \/ captureSession' = captureSession + 1 /\ watchdog' = captureSession'
  BY DEF ServiceNext, serviceVars, captureVars, dialogVars, KeyStep, KeyDown, KeyUp, KeyMoves,
         DrainEdge,
         GrantTrust, GateStarts, GateTick, SaveStep, SaveMode, MainServes, BeginCapture, TakeHook,
         EndCapture, TeardownCapture, WatchdogFires, OpenDialog, EffectRunsAnew, DialogHears,
         Rerecord,
         CloseDialog, RendererGone, ForceEndCapture
<1> QED BY <1>1, <1>2

LEMMA TypesKept ==
  ASSUME HookTypeOK, CaptureOwnsHook, [ServiceNext]_serviceVars
  PROVE  HookTypeOK'
BY RuntimeTyped, HookTyped, MachineTyped, WindowTyped, WatchdogTyped DEF HookTypeOK, HotkeyTypeOK

-----------------------------------------------------------------------------
(* The hook, the chords and the capture.                                    *)
LEMMA StoreDisjoint ==
  ASSUME saved \in Chords, Disjoint(saved), NEW mode \in Modes, NEW chord \in SUBSET Keys,
         Store(mode, chord)
  PROVE  Disjoint(saved')
<1>1. \A n \in Modes :
        saved'[n] = IF n = mode THEN chord
                    ELSE IF n \in Conflicts(mode, chord) THEN {} ELSE saved[n]
  BY DEF Store
<1>2. ASSUME NEW m \in Modes, NEW n \in Modes, m # n
      PROVE  saved'[m] \cap saved'[n] = {}
  <2>1. saved[m] \cap saved[n] = {}
    BY <1>2 DEF Disjoint
  <2>2. CASE m = mode
    BY <1>1, <1>2, <2>2 DEF Conflicts
  <2>3. CASE n = mode
    BY <1>1, <1>2, <2>3 DEF Conflicts
  <2>4. CASE m # mode /\ n # mode
    BY <1>1, <2>1, <2>4
  <2> QED BY <2>2, <2>3, <2>4
<1> QED BY <1>2 DEF Disjoint

LEMMA BindingsKept ==
  ASSUME HookTypeOK, BindingsFollowStore, HookIsThere, [ServiceNext]_serviceVars
  PROVE  BindingsFollowStore'
<1>1. Disjoint(saved) /\ (installed => bindings = saved)
  BY DEF BindingsFollowStore
<1>2. CASE UNCHANGED <<saved, bindings, installed>>
  BY <1>1, <1>2 DEF BindingsFollowStore
<1>3. CASE GateStarts \/ GateTick
  BY <1>1, <1>3 DEF GateStarts, GateTick, TryInstall, BindingsFollowStore, runtimeVars, matcherVars,
                    HookIsThere
<1>4. ASSUME NEW mode \in Modes, NEW chord \in SUBSET Keys, NEW policy, SaveMode(mode, chord,
             policy)
      PROVE  BindingsFollowStore'
  <2>1. Disjoint(saved')
    BY <1>1, <1>4, StoreDisjoint DEF SaveMode, HookTypeOK, HotkeyTypeOK
  <2>2. installed' = installed /\ Rebind
    BY <1>4 DEF SaveMode, hookVars
  <2> QED BY <2>1, <2>2 DEF Rebind, ApplyBindings, SetBindings, BindingsFollowStore
<1>5. CASE DrainEdge
  BY <1>2, <1>5 DEF DrainEdge, Feed, MatchEdge, runtimeVars, matcherVars
<1>6. CASE MainServes \/ WatchdogFires \/ RendererGone
  BY <1>2, <1>6 DEF MainServes, BeginCapture, EndCapture, TakeHook, TeardownCapture, WatchdogFires,
         RendererGone, ForceEndCapture, runtimeVars, matcherVars, hookVars
<1>7. CASE \/ UNCHANGED serviceVars \/ KeyStep \/ GrantTrust \/ DialogHears \/ EffectRunsAnew
           \/ Rerecord \/ CloseDialog \/ \E mode \in Modes : OpenDialog(mode)
  BY <1>2, <1>7 DEF KeyStep, KeyDown, KeyUp, KeyMoves, GrantTrust, DialogHears, Rerecord,
         CloseDialog,
         OpenDialog, EffectRunsAnew, serviceVars, runtimeVars, matcherVars, hookVars
<1> QED BY <1>3, <1>4, <1>5, <1>6, <1>7 DEF ServiceNext, SaveStep

LEMMA HookThereKept ==
  ASSUME HookTypeOK, HookIsThere, CaptureOwnsHook, [ServiceNext]_serviceVars
  PROVE  HookIsThere'
<1>0. captureSession \in Nat /\ capturing \in BOOLEAN
  BY DEF HookTypeOK, HotkeyTypeOK
<1> USE DEF HookIsThere, CaptureOwnsHook
<1>1. CASE UNCHANGED <<gate, installed, queue, held, capturing, captureSession>>
  BY <1>1
<1>2. CASE GateStarts \/ GateTick
  BY <1>2 DEF GateStarts, GateTick, TryInstall, runtimeVars, matcherVars, captureVars
<1>3. ASSUME NEW mode, NEW chord, NEW policy, SaveMode(mode, chord, policy)
      PROVE  HookIsThere'
  BY <1>3 DEF SaveMode, Rebind, ApplyBindings, SetBindings, ClearHeld, matcherVars, hookVars,
         captureVars
<1>4. CASE DrainEdge
  BY <1>4 DEF DrainEdge
<1>5. ASSUME NEW key, KeyDown(key) \/ KeyUp(key) PROVE HookIsThere'
  BY <1>5 DEF KeyDown, KeyUp, KeyMoves, runtimeVars, matcherVars, captureVars
<1>6. CASE MainServes
  BY <1>0, <1>6 DEF MainServes, BeginCapture, EndCapture, TakeHook, TeardownCapture, ClearHeld,
         runtimeVars, matcherVars, captureVars, hookVars
<1>7. CASE WatchdogFires \/ RendererGone
  BY <1>0, <1>7 DEF WatchdogFires, RendererGone, ForceEndCapture, TeardownCapture, ClearHeld,
         runtimeVars, matcherVars, captureVars, hookVars
<1>8. CASE \/ UNCHANGED serviceVars \/ GrantTrust \/ DialogHears \/ Rerecord \/ CloseDialog
           \/ EffectRunsAnew \/ \E mode \in Modes : OpenDialog(mode)
  BY <1>1, <1>8 DEF GrantTrust, DialogHears, Rerecord, CloseDialog, OpenDialog, EffectRunsAnew,
         serviceVars, runtimeVars, matcherVars, hookVars, captureVars
<1> QED BY <1>2, <1>3, <1>4, <1>5, <1>6, <1>7, <1>8 DEF ServiceNext, SaveStep, KeyStep

LEMMA CaptureKept ==
  ASSUME HookTypeOK, HookIsThere, CaptureOwnsHook, [ServiceNext]_serviceVars
  PROVE  CaptureOwnsHook'
<1> USE DEF HookIsThere, CaptureOwnsHook
<1>1. CASE UNCHANGED <<installed, runtimeVars, captureVars>>
  BY <1>1 DEF runtimeVars, matcherVars, captureVars
<1>2. CASE GateStarts \/ GateTick
  BY <1>2 DEF GateStarts, GateTick, TryInstall, runtimeVars, matcherVars, captureVars
<1>3. ASSUME NEW mode, NEW chord, NEW policy, SaveMode(mode, chord, policy)
      PROVE  CaptureOwnsHook'
  BY <1>3 DEF SaveMode, Rebind, ApplyBindings, SetBindings, ClearHeld, matcherVars, hookVars,
         captureVars
<1>4. CASE DrainEdge
  BY <1>4 DEF DrainEdge, runtimeVars, matcherVars
<1>5. CASE MainServes
  BY <1>5 DEF MainServes, BeginCapture, EndCapture, TakeHook, TeardownCapture, ClearHeld,
         ResetCoordinator, runtimeVars, matcherVars, captureVars, hookVars
<1>6. CASE WatchdogFires \/ RendererGone
  BY <1>6 DEF WatchdogFires, RendererGone, ForceEndCapture, TeardownCapture, ClearHeld,
         runtimeVars, matcherVars, captureVars, hookVars
<1>7. CASE \/ UNCHANGED serviceVars \/ KeyStep \/ GrantTrust \/ DialogHears \/ EffectRunsAnew
           \/ Rerecord \/ CloseDialog \/ \E mode \in Modes : OpenDialog(mode)
  BY <1>1, <1>7 DEF KeyStep, KeyDown, KeyUp, KeyMoves, GrantTrust, DialogHears, Rerecord,
         CloseDialog,
         OpenDialog, EffectRunsAnew, serviceVars, hookVars
<1> QED BY <1>2, <1>3, <1>4, <1>5, <1>6, <1>7 DEF ServiceNext, SaveStep

-----------------------------------------------------------------------------
(* The dialog and its capture session.                                      *)
LEMMA Heads ==
  /\ \A d, session : /\ Reply(d, session)[1] = "reply" /\ Reply(d, session)[2] = d
                     /\ Reply(d, session)[3] = session
  /\ \A edge : KeyEvent(edge)[1] = "key"
  /\ Ended[1] = "ended"
BY DEF Reply, KeyEvent, Ended

LEMMA OrderTold ==
  ASSUME NEW asked \in Nat, NEW open, NEW session, NEW main, NEW told, NEW rest,
         InOrder(asked, open, session, main, told), Popped(told, rest)
  PROVE  InOrder(asked, open, session, main, rest)
<1>1. ASSUME NEW i \in DOMAIN rest
      PROVE  i + 1 \in DOMAIN told /\ rest[i] = told[i + 1] /\ i \in Nat
  BY PoppedAt
<1>2. ASSUME NEW i \in DOMAIN rest, rest[i][1] = "reply", NEW j \in DOMAIN rest,
             rest[j][1] = "reply", i < j
      PROVE  rest[i][2] < rest[j][2]
  <2>1. told[i + 1][2] < told[j + 1][2]
    BY <1>1, <1>2 DEF InOrder
  <2> QED BY <1>1, <2>1
<1>3. ASSUME NEW i \in DOMAIN rest, rest[i][1] = "reply"
      PROVE  rest[i][2] \in Nat /\ rest[i][2] <= asked
  BY <1>1, <1>3 DEF InOrder
<1>4. ASSUME NEW i \in DOMAIN main, main[i][1] = "begin", NEW j \in DOMAIN rest,
             rest[j][1] = "reply"
      PROVE  rest[j][2] < main[i][2]
  BY <1>1, <1>4 DEF InOrder
<1>5. session # NoSession => \A i \in DOMAIN rest : rest[i][1] # "reply"
  BY <1>1 DEF InOrder
<1> QED BY <1>2, <1>3, <1>4, <1>5 DEF InOrder

LEMMA OrderAdded ==
  ASSUME NEW asked \in Nat, NEW open, NEW session, NEW main, NEW told, NEW more, NEW m,
         InOrder(asked, open, session, main, told), Pushed(told, more, m),
         m[1] = "reply" =>
           /\ session = NoSession /\ m[2] \in Nat /\ m[2] <= asked
           /\ \A i \in DOMAIN told : told[i][1] = "reply" => told[i][2] < m[2]
           /\ \A i \in DOMAIN main : main[i][1] = "begin" => m[2] < main[i][2]
  PROVE  InOrder(asked, open, session, main, more)
<1>1. ASSUME NEW i \in DOMAIN more
      PROVE  /\ i \in Nat
             /\ ((i \in DOMAIN told /\ more[i] = told[i]) \/ (i = Len(more) /\ more[i] = m))
  BY PushedAt
<1>2. ASSUME NEW i \in DOMAIN more, more[i][1] = "reply", NEW j \in DOMAIN more,
             more[j][1] = "reply", i < j
      PROVE  more[i][2] < more[j][2]
  <2>1. i \in DOMAIN told /\ more[i] = told[i]
    <3>1. i # Len(more)
      BY <1>2 DEF Pushed
    <3> QED BY <1>1, <3>1
  <2>2. CASE j \in DOMAIN told /\ more[j] = told[j]
    BY <1>2, <2>1, <2>2 DEF InOrder
  <2>3. CASE more[j] = m
    BY <1>2, <2>1, <2>3
  <2> QED BY <1>1, <2>2, <2>3
<1>3. ASSUME NEW i \in DOMAIN more, more[i][1] = "reply"
      PROVE  more[i][2] \in Nat /\ more[i][2] <= asked
  BY <1>1, <1>3 DEF InOrder
<1>4. ASSUME NEW i \in DOMAIN main, main[i][1] = "begin", NEW j \in DOMAIN more,
             more[j][1] = "reply"
      PROVE  more[j][2] < main[i][2]
  BY <1>1, <1>4 DEF InOrder
<1>5. session # NoSession => \A i \in DOMAIN more : more[i][1] # "reply"
  BY <1>1 DEF InOrder
<1> QED BY <1>2, <1>3, <1>4, <1>5 DEF InOrder

LEMMA OrderServed ==
  ASSUME NEW asked \in Nat, NEW open, NEW session, NEW main, NEW told, NEW rest,
         InOrder(asked, open, session, main, told), Popped(main, rest)
  PROVE  InOrder(asked, open, session, rest, told)
<1>1. ASSUME NEW i \in DOMAIN rest
      PROVE  i + 1 \in DOMAIN main /\ rest[i] = main[i + 1] /\ i \in Nat /\ i >= 1
  BY PoppedAt
<1>2. ASSUME NEW i \in DOMAIN rest, rest[i][1] = "begin", NEW j \in DOMAIN rest,
             rest[j][1] = "begin", i < j
      PROVE  rest[i][2] < rest[j][2]
  <2>1. main[i + 1][2] < main[j + 1][2]
    BY <1>1, <1>2 DEF InOrder
  <2> QED BY <1>1, <2>1
<1>3. ASSUME NEW i \in DOMAIN rest, rest[i][1] = "begin"
      PROVE  /\ rest[i][2] \in Nat /\ rest[i][2] <= asked /\ session = NoSession
             /\ \A j \in DOMAIN told : told[j][1] = "reply" => told[j][2] < rest[i][2]
  BY <1>1, <1>3 DEF InOrder
<1>4. ASSUME NEW i \in DOMAIN rest, rest[i][1] = "begin", open # 0
      PROVE  \E j \in DOMAIN rest : rest[j] = <<"begin", open>>
  <2>1. /\ i + 1 \in DOMAIN main /\ main[i + 1][1] = "begin" /\ i + 1 > 1
        /\ main[i + 1][2] \in Nat /\ main[i + 1][2] <= asked
    BY <1>1, <1>4 DEF InOrder
  <2>2. PICK j \in DOMAIN main : main[j] = <<"begin", open>>
    BY <1>4, <2>1 DEF InOrder
  <2>3. open = asked
    BY <1>4 DEF InOrder
  <2>4. j # 1
    <3>1. ASSUME j = 1 PROVE FALSE
      <4>1. main[1][1] = "begin" /\ main[1][2] = asked /\ 1 \in DOMAIN main
        BY <2>2, <2>3, <3>1
      <4>2. main[1][2] < main[i + 1][2]
        BY <2>1, <4>1 DEF InOrder
      <4> QED BY <2>1, <4>1, <4>2
    <3> QED BY <3>1
  <2> QED BY <2>2, <2>4, PoppedAt
<1> QED BY <1>2, <1>3, <1>4 DEF InOrder

LEMMA OrderAsked ==
  ASSUME NEW asked \in Nat, NEW open, NEW session, NEW main, NEW told, NEW more, NEW m,
         InOrder(asked, open, session, main, told), Pushed(main, more, m), m[1] # "begin"
  PROVE  InOrder(asked, open, session, more, told)
<1>1. ASSUME NEW i \in DOMAIN more, more[i][1] = "begin"
      PROVE  i \in Nat /\ i \in DOMAIN main /\ more[i] = main[i]
  BY <1>1, PushedAt
<1>2. ASSUME NEW i \in DOMAIN main PROVE i \in DOMAIN more /\ more[i] = main[i]
  BY PushedAt
<1> QED BY <1>1, <1>2 DEF InOrder

LEMMA OrderClosed ==
  ASSUME NEW asked, NEW open, NEW session, NEW main, NEW told,
         InOrder(asked, open, session, main, told)
  PROVE  InOrder(asked, 0, NoSession, main, told)
BY DEF InOrder

LEMMA OrderBegun ==
  ASSUME NEW asked \in Nat, NEW main, NEW told, NEW more,
         InOrder(asked, 0, NoSession, main, told), Pushed(main, more, <<"begin", asked + 1>>)
  PROVE  InOrder(asked + 1, asked + 1, NoSession, more, told)
<1>1. ASSUME NEW i \in DOMAIN more, more[i][1] = "begin"
      PROVE  /\ i \in Nat /\ more[i][2] \in Nat /\ more[i][2] <= asked + 1
             /\ \A j \in DOMAIN more :
                  i < j /\ more[j][1] = "begin" => more[i][2] < more[j][2]
             /\ \A j \in DOMAIN told :
                  told[j][1] = "reply" => told[j][2] < more[i][2]
  <2>1. CASE i = Len(more) /\ more[i] = <<"begin", asked + 1>>
    <3>1. \A j \in DOMAIN more : ~(i < j)
      BY <2>1 DEF Pushed
    <3>2. i \in Nat
      BY PushedAt
    <3> QED BY <2>1, <3>1, <3>2 DEF InOrder
  <2>2. CASE i \in DOMAIN main /\ more[i] = main[i]
    <3>1. main[i][1] = "begin" /\ main[i][2] \in Nat /\ main[i][2] <= asked /\ i \in Nat
      BY <1>1, <2>2, PushedAt DEF InOrder
    <3>2. ASSUME NEW j \in DOMAIN more, i < j, more[j][1] = "begin"
          PROVE  more[i][2] < more[j][2]
      <4>1. CASE j \in DOMAIN main /\ more[j] = main[j]
        BY <2>2, <3>1, <3>2, <4>1 DEF InOrder
      <4>2. CASE more[j] = <<"begin", asked + 1>>
        BY <2>2, <3>1, <4>2
      <4> QED BY <4>1, <4>2, PushedAt
    <3>3. \A j \in DOMAIN told : told[j][1] = "reply" => told[j][2] < main[i][2]
      BY <2>2, <3>1 DEF InOrder
    <3> QED BY <2>2, <3>1, <3>2, <3>3
  <2> QED BY <2>1, <2>2, PushedAt
<1>2. \E j \in DOMAIN more : more[j] = <<"begin", asked + 1>>
  BY PushedAt
<1>3. ASSUME NEW i \in DOMAIN told, told[i][1] = "reply"
      PROVE  /\ told[i][2] \in Nat /\ told[i][2] <= asked + 1
             /\ \A j \in DOMAIN told :
                  i < j /\ told[j][1] = "reply" => told[i][2] < told[j][2]
  BY <1>3 DEF InOrder
<1> QED BY <1>1, <1>2, <1>3 DEF InOrder

(* endCurrentCapture asks for one end at most.                              *)
LEMMA EndIsAsked ==
  ASSUME HookTypeOK
  PROVE  /\ EndAsked \in Seq(Requests)
         /\ \/ dialogSession = NoSession /\ EndAsked = toMain
            \/ dialogSession # NoSession /\ Pushed(toMain, EndAsked, <<"end", dialogSession>>)
<1>1. toMain \in Seq(Requests)
  BY DEF HookTypeOK, HotkeyTypeOK
<1>2. CASE dialogSession = NoSession
  BY <1>1, <1>2 DEF EndAsked
<1>3. CASE dialogSession # NoSession
  <2>1. <<"end", dialogSession>> \in Requests
    BY <1>3 DEF HookTypeOK, HotkeyTypeOK, Requests
  <2>2. EndAsked = Append(toMain, <<"end", dialogSession>>)
    BY <1>3 DEF EndAsked
  <2> QED BY <1>1, <1>3, <2>1, <2>2, Pushing
<1> QED BY <1>2, <1>3

LEMMA OrderKept ==
  ASSUME HookTypeOK, CaptureOwnsHook, DialogsInOrder, [ServiceNext]_serviceVars
  PROVE  DialogsInOrder'
<1>1. /\ begins \in Nat /\ toMain \in Seq(Requests) /\ toDialog \in Seq(Messages)
      /\ dialogSession \in Nat \cup {NoSession}
  BY DEF HookTypeOK, HotkeyTypeOK
<1> DEFINE Order(open, session, main, told) == InOrder(begins, open, session, main, told)
<1>2. Order(dialog, dialogSession, toMain, toDialog)
  BY DEF DialogsInOrder
<1>3. /\ \A d \in 1 .. MaxBegins, session \in Nat : Reply(d, session) \in Messages
      /\ \A session \in Nat : <<"end", session>> \in Requests
      /\ \A edge \in Edges : KeyEvent(edge) \in Messages /\ KeyEvent(edge)[1] # "reply"
      /\ Ended \in Messages /\ Ended[1] # "reply"
  BY Heads DEF Messages, Requests
<1> USE DEF window, capture
<1>4. CASE Quiet
  BY <1>4 DEF Quiet, DialogsInOrder
<1>5. CASE SendsKey \/ Times
  <2>1. PICK m \in Messages : toDialog' = Append(toDialog, m) /\ m[1] # "reply"
    <3>1. SendsKey => Head(queue) \in Edges
      BY Popping DEF SendsKey, HookTypeOK, HotkeyTypeOK
    <3> QED BY <1>3, <1>5, <3>1 DEF SendsKey, Times
  <2>2. Pushed(toDialog, toDialog', m)
    BY <1>1, <2>1, Pushing
  <2>3. Order(dialog, dialogSession, toMain, toDialog')
    BY <1>1, <1>2, <2>1, <2>2, OrderAdded
  <2> QED BY <1>5, <2>3 DEF SendsKey, Times, DialogsInOrder
<1>6. CASE Skips
  <2>1. Popped(toDialog, toDialog')
    BY <1>1, <1>6, Popping DEF Skips
  <2>2. Order(dialog, dialogSession, toMain, toDialog')
    BY <1>1, <1>2, <2>1, OrderTold
  <2> QED BY <1>6, <2>2 DEF Skips, DialogsInOrder
<1>7. ASSUME NEW session \in Nat, Stops(session) PROVE DialogsInOrder'
  <2>1. Popped(toMain, toMain')
    BY <1>1, <1>7, Popping DEF Stops
  <2>2. Order(dialog, dialogSession, toMain', toDialog)
    BY <1>1, <1>2, <2>1, OrderServed
  <2> QED BY <1>7, <2>2 DEF Stops, DialogsInOrder
<1>8. CASE Opens \/ Closes
  <2>1. Order(0, NoSession, toMain, toDialog)
    BY <1>2, OrderClosed
  <2>2. Order(0, NoSession, EndAsked, toDialog)
    BY <1>1, <2>1, EndIsAsked, OrderAsked
  <2>3. CASE Opens
    <3>1. <<"begin", begins + 1>> \in Requests
      <4>1. begins + 1 \in 1 .. MaxBegins
        BY <1>1, <2>3, BeginsAssumption DEF Opens
      <4> QED BY <4>1 DEF Requests
    <3>2. \/ Pushed(toMain, toMain', <<"begin", begins + 1>>)
          \/ Pushed(EndAsked, toMain', <<"begin", begins + 1>>)
      BY <1>1, <2>3, <3>1, Pushing, EndIsAsked DEF Opens
    <3>3. InOrder(begins + 1, begins + 1, NoSession, toMain', toDialog)
      BY <1>1, <2>1, <2>2, <3>2, OrderBegun
    <3> QED BY <2>3, <3>3 DEF Opens, DialogsInOrder
  <2>4. CASE Closes
    <3>1. toDialog' = toDialog \/ Popped(toDialog, toDialog')
      BY <1>1, <2>4, Popping DEF Closes
    <3>2. Order(0, NoSession, EndAsked, toDialog')
      BY <1>1, <2>2, <3>1, OrderTold
    <3> QED BY <2>4, <3>2 DEF Closes, DialogsInOrder
  <2> QED BY <1>8, <2>3, <2>4
<1>9. CASE Dies
  BY <1>1, <1>9 DEF Dies, DialogsInOrder, InOrder
<1>10. ASSUME NEW d \in 1 .. MaxBegins, Answers(d) PROVE DialogsInOrder'
  <2>1. Popped(toMain, toMain') /\ toMain[1] = <<"begin", d>> /\ 1 \in DOMAIN toMain
    BY <1>1, <1>10, Popping, PoppedAt DEF Answers
  <2>2. Order(dialog, dialogSession, toMain', toDialog)
    BY <1>1, <1>2, <2>1, OrderServed
  <2>3. /\ dialogSession = NoSession /\ d \in Nat /\ d <= begins
        /\ \A i \in DOMAIN toDialog : toDialog[i][1] = "reply" => toDialog[i][2] < d
    BY <1>2, <2>1 DEF InOrder
  <2>4. ASSUME NEW i \in DOMAIN toMain', toMain'[i][1] = "begin" PROVE d < toMain'[i][2]
    <3>1. i + 1 \in DOMAIN toMain /\ toMain'[i] = toMain[i + 1] /\ 1 < i + 1
      <4>1. i \in Nat /\ i >= 1
        BY <2>1 DEF Popped
      <4> QED BY <2>1, <4>1, PoppedAt
    <3> QED BY <1>2, <2>1, <2>4, <3>1 DEF InOrder
  <2>5. PICK session \in Nat : toDialog' = Append(toDialog, Reply(d, session))
    <3>1. captureSession + 1 \in Nat
      BY DEF HookTypeOK, HotkeyTypeOK
    <3> QED BY <1>10, <3>1 DEF Answers
  <2>6. Pushed(toDialog, toDialog', Reply(d, session))
    BY <1>1, <1>3, <2>5, Pushing
  <2>7. Order(dialog, dialogSession, toMain', toDialog')
    BY <1>1, <2>2, <2>3, <2>4, <2>6, Heads, OrderAdded
  <2> QED BY <1>10, <2>7 DEF Answers, DialogsInOrder
<1>11. ASSUME NEW d \in 1 .. MaxBegins, NEW session \in Nat, Learns(d, session)
       PROVE  DialogsInOrder'
  <2>1. Popped(toDialog, toDialog') /\ toDialog[1] = Reply(d, session) /\ 1 \in DOMAIN toDialog
    BY <1>1, <1>11, Popping, PoppedAt DEF Learns
  <2>2. Order(dialog, dialogSession, toMain, toDialog')
    BY <1>1, <1>2, <2>1, OrderTold
  <2>3. CASE dialog # d
    <3>1. Pushed(toMain, toMain', <<"end", session>>)
      BY <1>1, <1>3, <1>11, <2>3, Pushing DEF Learns
    <3>2. Order(dialog, dialogSession, toMain', toDialog')
      BY <1>1, <2>2, <3>1, OrderAsked
    <3> QED BY <1>11, <2>3, <3>2 DEF Learns, DialogsInOrder
  <2>4. CASE dialog = d
    <3>1. /\ toDialog[1][1] = "reply" /\ toDialog[1][2] = begins /\ dialog = begins /\ dialog # 0
      BY <1>2, <2>1, <2>4, Heads DEF InOrder
    <3>2. ASSUME NEW i \in DOMAIN toMain, toMain[i][1] = "begin" PROVE FALSE
      BY <1>1, <1>2, <2>1, <3>1, <3>2 DEF InOrder
    <3>3. ASSUME NEW i \in DOMAIN toDialog', toDialog'[i][1] = "reply" PROVE FALSE
      <4>1. i + 1 \in DOMAIN toDialog /\ toDialog'[i] = toDialog[i + 1] /\ 1 < i + 1
        <5>1. i \in Nat /\ i >= 1
          BY <2>1 DEF Popped
        <5> QED BY <2>1, <5>1, PoppedAt
      <4> QED BY <1>1, <1>2, <2>1, <3>1, <3>3, <4>1 DEF InOrder
    <3>4. UNCHANGED <<begins, dialog, toMain>>
      BY <1>11, <2>4 DEF Learns
    <3> QED BY <2>2, <3>1, <3>2, <3>3, <3>4 DEF InOrder, DialogsInOrder
  <2> QED BY <2>3, <2>4
<1> QED BY <1>4, <1>5, <1>6, <1>7, <1>8, <1>9, <1>10, <1>11, DialogSteps

LEMMA TokensTold ==
  ASSUME NEW current, NEW session, NEW main, NEW told, NEW rest,
         Tokens(current, session, main, told), Popped(told, rest)
  PROVE  Tokens(current, session, main, rest)
<1>1. ASSUME NEW i \in DOMAIN rest
      PROVE  i + 1 \in DOMAIN told /\ rest[i] = told[i + 1] /\ i \in Nat
  BY PoppedAt
<1>2. ASSUME NEW i \in DOMAIN rest, rest[i][1] = "reply", rest[i][3] # 0,
             NEW j \in DOMAIN rest, rest[j][1] = "reply", i # j
      PROVE  rest[j][3] # rest[i][3]
  <2>1. i + 1 # j + 1
    BY <1>1, <1>2
  <2> QED BY <1>1, <1>2, <2>1 DEF Tokens
<1>3. ASSUME NEW i \in DOMAIN rest, rest[i][1] = "reply"
      PROVE  rest[i][3] \in 0 .. current /\ (rest[i][3] # 0 => session # rest[i][3])
  BY <1>1, <1>3 DEF Tokens
<1>4. ASSUME NEW i \in DOMAIN main, main[i][1] = "end", main[i][2] # 0,
             NEW j \in DOMAIN rest, rest[j][1] = "reply"
      PROVE  rest[j][3] # main[i][2]
  BY <1>1, <1>4 DEF Tokens
<1> QED BY <1>2, <1>3, <1>4 DEF Tokens

LEMMA TokensAdded ==
  ASSUME NEW current, NEW session, NEW main, NEW told, NEW more, NEW m,
         Tokens(current, session, main, told), Pushed(told, more, m),
         m[1] = "reply" =>
           /\ m[3] \in 0 .. current
           /\ m[3] # 0 =>
                /\ session # m[3]
                /\ \A i \in DOMAIN told : told[i][1] = "reply" => told[i][3] # m[3]
                /\ \A i \in DOMAIN main : main[i][1] = "end" => main[i][2] # m[3]
  PROVE  Tokens(current, session, main, more)
<1>1. ASSUME NEW i \in DOMAIN more
      PROVE  (i \in DOMAIN told /\ more[i] = told[i]) \/ (i = Len(more) /\ more[i] = m)
  BY PushedAt
<1>2. ASSUME NEW i \in DOMAIN more, more[i][1] = "reply", more[i][3] # 0,
             NEW j \in DOMAIN more, more[j][1] = "reply", i # j
      PROVE  more[j][3] # more[i][3]
  BY <1>1, <1>2 DEF Tokens
<1>3. ASSUME NEW i \in DOMAIN more, more[i][1] = "reply"
      PROVE  more[i][3] \in 0 .. current /\ (more[i][3] # 0 => session # more[i][3])
  BY <1>1, <1>3 DEF Tokens
<1>4. ASSUME NEW i \in DOMAIN main, main[i][1] = "end", main[i][2] # 0,
             NEW j \in DOMAIN more, more[j][1] = "reply"
      PROVE  more[j][3] # main[i][2]
  BY <1>1, <1>4 DEF Tokens
<1> QED BY <1>2, <1>3, <1>4 DEF Tokens

LEMMA TokensServed ==
  ASSUME NEW current, NEW session, NEW main, NEW told, NEW rest,
         Tokens(current, session, main, told), Popped(main, rest)
  PROVE  Tokens(current, session, rest, told)
<1>1. \A i \in DOMAIN rest : i + 1 \in DOMAIN main /\ rest[i] = main[i + 1]
  BY PoppedAt
<1> QED BY <1>1 DEF Tokens

LEMMA TokensAsked ==
  ASSUME NEW current, NEW session, NEW main, NEW told, NEW more, NEW m,
         Tokens(current, session, main, told), Pushed(main, more, m),
         m[1] = "end" =>
           /\ m[2] \in 0 .. current
           /\ m[2] # 0 =>
                /\ session # m[2]
                /\ \A i \in DOMAIN told : told[i][1] = "reply" => told[i][3] # m[2]
  PROVE  Tokens(current, session, more, told)
<1>1. \A i \in DOMAIN more : (i \in DOMAIN main /\ more[i] = main[i]) \/ more[i] = m
  BY PushedAt
<1> QED BY <1>1 DEF Tokens

LEMMA TokensClosed ==
  ASSUME NEW current \in Nat, NEW session, NEW main, NEW told,
         Tokens(current, session, main, told)
  PROVE  Tokens(current, NoSession, main, told)
<1>1. NoSession \in NoSession .. current /\ \A s \in 0 .. current : NoSession # s
  BY DEF NoSession
<1> QED BY <1>1 DEF Tokens

LEMMA TokensLater ==
  ASSUME NEW current \in Nat, NEW session, NEW main, NEW told,
         Tokens(current, session, main, told)
  PROVE  /\ Tokens(current + 1, session, main, told)
         /\ session # current + 1
         /\ \A i \in DOMAIN told : told[i][1] = "reply" => told[i][3] # current + 1
         /\ \A i \in DOMAIN main : main[i][1] = "end" => main[i][2] # current + 1
<1>1. \A s \in 0 .. current : s \in 0 .. (current + 1) /\ s # current + 1
  OBVIOUS
<1>2. \A s \in NoSession .. current : s \in NoSession .. (current + 1) /\ s # current + 1
  BY DEF NoSession
<1> QED BY <1>1, <1>2 DEF Tokens

(* A dialog that lets go of its session asks for its end.                   *)
LEMMA TokensDropped ==
  ASSUME HookTypeOK, DialogsInOrder, SessionsAreTokens
  PROVE  /\ Tokens(captureSession, NoSession, toMain, toDialog)
         /\ Tokens(captureSession, NoSession, EndAsked, toDialog)
<1>1. captureSession \in Nat /\ dialogSession \in Nat \cup {NoSession} /\ NoSession = -1
  BY DEF HookTypeOK, HotkeyTypeOK, NoSession
<1>2. Tokens(captureSession, NoSession, toMain, toDialog)
  BY <1>1, TokensClosed DEF SessionsAreTokens
<1>3. CASE dialogSession # NoSession
  <2>1. Pushed(toMain, EndAsked, <<"end", dialogSession>>)
    BY <1>3, EndIsAsked
  <2>2. dialogSession \in 0 .. captureSession
    BY <1>1, <1>3 DEF SessionsAreTokens, Tokens
  <2>3. \A i \in DOMAIN toDialog : toDialog[i][1] # "reply"
    BY <1>3 DEF DialogsInOrder, InOrder
  <2>4. NoSession # dialogSession
    BY <1>3
  <2> QED BY <1>2, <2>1, <2>2, <2>3, <2>4, TokensAsked
<1> QED BY <1>2, <1>3, EndIsAsked

LEMMA TokensKept ==
  ASSUME HookTypeOK, HookIsThere, CaptureOwnsHook, DialogsInOrder, SessionsAreTokens,
         [ServiceNext]_serviceVars
  PROVE  SessionsAreTokens'
<1>1. /\ captureSession \in Nat /\ toMain \in Seq(Requests) /\ toDialog \in Seq(Messages)
      /\ dialogSession \in Nat \cup {NoSession} /\ NoSession = -1
  BY DEF HookTypeOK, HotkeyTypeOK, NoSession
<1> DEFINE Known(session, main, told) == Tokens(captureSession, session, main, told)
<1>2. Known(dialogSession, toMain, toDialog)
  BY DEF SessionsAreTokens
<1>3. /\ \A d \in 1 .. MaxBegins, session \in Nat : Reply(d, session) \in Messages
      /\ \A session \in Nat : <<"end", session>> \in Requests
      /\ \A edge \in Edges : KeyEvent(edge) \in Messages /\ KeyEvent(edge)[1] # "reply"
      /\ Ended \in Messages /\ Ended[1] # "reply"
  BY Heads DEF Messages, Requests
<1> USE DEF window, capture
<1>4. CASE Quiet
  BY <1>4 DEF Quiet, SessionsAreTokens
<1>5. CASE SendsKey \/ Times
  <2>1. PICK m \in Messages : toDialog' = Append(toDialog, m) /\ m[1] # "reply"
    <3>1. SendsKey => Head(queue) \in Edges
      BY Popping DEF SendsKey, HookTypeOK, HotkeyTypeOK
    <3> QED BY <1>3, <1>5, <3>1 DEF SendsKey, Times
  <2>2. Pushed(toDialog, toDialog', m)
    BY <1>1, <2>1, Pushing
  <2>3. Known(dialogSession, toMain, toDialog')
    BY <1>2, <2>1, <2>2, TokensAdded
  <2> QED BY <1>5, <2>3 DEF SendsKey, Times, SessionsAreTokens
<1>6. CASE Skips
  <2>1. Popped(toDialog, toDialog')
    BY <1>1, <1>6, Popping DEF Skips
  <2>2. Known(dialogSession, toMain, toDialog')
    BY <1>2, <2>1, TokensTold
  <2> QED BY <1>6, <2>2 DEF Skips, SessionsAreTokens
<1>7. ASSUME NEW session \in Nat, Stops(session) PROVE SessionsAreTokens'
  <2>1. Popped(toMain, toMain')
    BY <1>1, <1>7, Popping DEF Stops
  <2>2. Known(dialogSession, toMain', toDialog)
    BY <1>2, <2>1, TokensServed
  <2> QED BY <1>7, <2>2 DEF Stops, SessionsAreTokens
<1>8. CASE Opens \/ Closes
  <2>1. Known(NoSession, toMain, toDialog) /\ Known(NoSession, EndAsked, toDialog)
    BY TokensDropped
  <2>2. CASE Opens
    <3>1. <<"begin", begins + 1>> \in Requests
      <4>1. begins + 1 \in 1 .. MaxBegins
        BY <2>2, BeginsAssumption DEF Opens, HookTypeOK, HotkeyTypeOK
      <4> QED BY <4>1 DEF Requests
    <3>2. \/ Pushed(toMain, toMain', <<"begin", begins + 1>>)
          \/ Pushed(EndAsked, toMain', <<"begin", begins + 1>>)
      BY <1>1, <2>2, <3>1, Pushing, EndIsAsked DEF Opens
    <3>3. Known(NoSession, toMain', toDialog)
      BY <2>1, <3>2, TokensAsked
    <3> QED BY <2>2, <3>3 DEF Opens, SessionsAreTokens
  <2>3. CASE Closes
    <3>1. toDialog' = toDialog \/ Popped(toDialog, toDialog')
      BY <1>1, <2>3, Popping DEF Closes
    <3>2. Known(NoSession, EndAsked, toDialog')
      BY <2>1, <3>1, TokensTold
    <3> QED BY <2>3, <3>2 DEF Closes, SessionsAreTokens
  <2> QED BY <1>8, <2>2, <2>3
<1>9. CASE Dies
  <2>1. captureSession' \in Nat
    BY <1>1, <1>9 DEF Dies
  <2> QED BY <1>1, <1>9, <2>1 DEF Dies, SessionsAreTokens, Tokens
<1>10. ASSUME NEW d \in 1 .. MaxBegins, Answers(d) PROVE SessionsAreTokens'
  <2>1. Popped(toMain, toMain')
    BY <1>1, <1>10, Popping DEF Answers
  <2>2. Known(dialogSession, toMain', toDialog)
    BY <1>2, <2>1, TokensServed
  <2>3. CASE /\ captureSession' = captureSession + 1
             /\ toDialog' = Append(toDialog, Reply(d, captureSession + 1))
    <3>1. captureSession + 1 \in Nat /\ captureSession + 1 \in 0 .. (captureSession + 1)
      BY <1>1
    <3>2. Pushed(toDialog, toDialog', Reply(d, captureSession + 1))
      BY <1>1, <1>3, <2>3, <3>1, Pushing
    <3>3. Tokens(captureSession + 1, dialogSession, toMain', toDialog')
      <4>1. Tokens(captureSession + 1, dialogSession, toMain', toDialog)
        BY <1>1, <2>2, TokensLater
      <4>2. /\ dialogSession # captureSession + 1
            /\ \A i \in DOMAIN toDialog :
                 toDialog[i][1] = "reply" => toDialog[i][3] # captureSession + 1
            /\ \A i \in DOMAIN toMain' : toMain'[i][1] = "end" => toMain'[i][2] # captureSession + 1
        BY <1>1, <2>2, TokensLater
      <4> QED BY <3>1, <3>2, <4>1, <4>2, Heads, TokensAdded
    <3> QED BY <1>10, <2>3, <3>3 DEF Answers, SessionsAreTokens
  <2>4. CASE captureSession' = captureSession /\ toDialog' = Append(toDialog, Reply(d, 0))
    <3>1. 0 \in Nat /\ 0 \in 0 .. captureSession
      BY <1>1
    <3>2. Pushed(toDialog, toDialog', Reply(d, 0))
      BY <1>1, <1>3, <2>4, <3>1, Pushing
    <3>3. Known(dialogSession, toMain', toDialog')
      BY <2>2, <3>1, <3>2, Heads, TokensAdded
    <3> QED BY <1>10, <2>4, <3>3 DEF Answers, SessionsAreTokens
  <2> QED BY <1>10, <2>3, <2>4 DEF Answers
<1>11. ASSUME NEW d \in 1 .. MaxBegins, NEW session \in Nat, Learns(d, session)
       PROVE  SessionsAreTokens'
  <2>1. Popped(toDialog, toDialog') /\ toDialog[1] = Reply(d, session) /\ 1 \in DOMAIN toDialog
    BY <1>1, <1>11, Popping, PoppedAt DEF Learns
  <2>2. Known(dialogSession, toMain, toDialog')
    BY <1>2, <2>1, TokensTold
  <2>3. /\ session \in 0 .. captureSession
        /\ session # 0 =>
             /\ dialogSession # session
             /\ \A i \in DOMAIN toMain : toMain[i][1] = "end" => toMain[i][2] # session
             /\ \A i \in DOMAIN toDialog' : toDialog'[i][1] = "reply" => toDialog'[i][3] # session
    <3>1. toDialog[1][1] = "reply" /\ toDialog[1][3] = session
      BY <2>1, Heads
    <3>2. session \in 0 .. captureSession /\ (session # 0 => dialogSession # session)
      BY <1>2, <2>1, <3>1 DEF Tokens
    <3>3. ASSUME session # 0, NEW i \in DOMAIN toMain, toMain[i][1] = "end"
          PROVE  toMain[i][2] # session
      <4>1. CASE toMain[i][2] # 0
        BY <1>2, <2>1, <3>1, <3>3, <4>1 DEF Tokens
      <4> QED BY <3>3, <4>1
    <3>4. ASSUME session # 0, NEW i \in DOMAIN toDialog', toDialog'[i][1] = "reply"
          PROVE  toDialog'[i][3] # session
      <4>1. i + 1 \in DOMAIN toDialog /\ toDialog'[i] = toDialog[i + 1] /\ i \in Nat /\ i >= 1
        BY <2>1, PoppedAt
      <4>2. i + 1 # 1
        BY <4>1
      <4> QED BY <1>2, <2>1, <3>1, <3>4, <4>1, <4>2 DEF Tokens
    <3> QED BY <3>2, <3>3, <3>4
  <2>4. CASE dialog # d
    <3>1. Pushed(toMain, toMain', <<"end", session>>)
      BY <1>1, <1>3, <1>11, <2>4, Pushing DEF Learns
    <3>2. Known(dialogSession, toMain', toDialog')
      BY <2>2, <2>3, <3>1, TokensAsked
    <3> QED BY <1>11, <2>4, <3>2 DEF Learns, SessionsAreTokens
  <2>5. CASE dialog = d
    <3>1. session \in NoSession .. captureSession
      BY <1>1, <2>3
    <3>2. ASSUME NEW i \in DOMAIN toDialog', toDialog'[i][1] = "reply", toDialog'[i][3] # 0
          PROVE  session # toDialog'[i][3]
      BY <2>3, <3>2
    <3>3. ASSUME NEW i \in DOMAIN toMain, toMain[i][1] = "end", toMain[i][2] # 0
          PROVE  session # toMain[i][2]
      BY <2>3, <3>3
    <3>4. Known(session, toMain, toDialog')
      BY <2>2, <3>1, <3>2, <3>3 DEF Tokens
    <3> QED BY <1>11, <2>5, <3>4 DEF Learns, SessionsAreTokens
  <2> QED BY <2>4, <2>5
<1> QED BY <1>4, <1>5, <1>6, <1>7, <1>8, <1>9, <1>10, <1>11, DialogSteps

(* While the begin of a dialog waits in the queue, or none is open, no       *)
(* session is live.                                                         *)
LEMMA NoneLive ==
  ASSUME HookTypeOK, DialogsInOrder, NEW s \in Nat, s > 0,
         \/ dialog = 0
         \/ \E i \in DOMAIN toMain : toMain[i][1] = "begin"
  PROVE  ~Live(s) /\ dialogSession = NoSession
<1>1. begins \in Nat /\ s # NoSession
  BY DEF HookTypeOK, HotkeyTypeOK, NoSession
<1>2. dialogSession = NoSession
  BY DEF DialogsInOrder, InOrder
<1>3. ASSUME dialog # 0, NEW i \in DOMAIN toDialog, toDialog[i] = Reply(dialog, s) PROVE FALSE
  <2>1. toDialog[i][1] = "reply" /\ toDialog[i][2] = dialog
    BY <1>3, Heads
  <2>2. PICK j \in DOMAIN toMain : toMain[j][1] = "begin"
    BY <1>3
  <2>3. toMain[j][2] \in Nat /\ toMain[j][2] <= begins /\ dialog < toMain[j][2] /\ dialog = begins
    BY <1>3, <2>1, <2>2 DEF DialogsInOrder, InOrder
  <2> QED BY <1>1, <2>3
<1> QED BY <1>1, <1>2, <1>3 DEF Live

(* Once a dialog has its session, no reply is on its way.                   *)
LEMMA LiveIsKnown ==
  ASSUME HookTypeOK, SessionsAreTokens, NEW s \in Nat, s > 0, Live(s)
  PROVE  /\ s \in 1 .. captureSession
         /\ \A i \in DOMAIN toMain : toMain[i][1] = "end" => toMain[i][2] # s
<1>1. captureSession \in Nat /\ NoSession = -1
  BY DEF HookTypeOK, HotkeyTypeOK, NoSession
<1>2. CASE dialogSession = s
  <2>1. s \in 1 .. captureSession
    BY <1>1, <1>2 DEF SessionsAreTokens, Tokens
  <2> QED BY <1>2, <2>1 DEF SessionsAreTokens, Tokens
<1>3. ASSUME NEW i \in DOMAIN toDialog, toDialog[i] = Reply(dialog, s)
      PROVE  /\ s \in 1 .. captureSession
             /\ \A j \in DOMAIN toMain : toMain[j][1] = "end" => toMain[j][2] # s
  <2>1. toDialog[i][1] = "reply" /\ toDialog[i][3] = s
    BY <1>3, Heads
  <2>2. s \in 0 .. captureSession
    BY <2>1 DEF SessionsAreTokens, Tokens
  <2>3. s \in 1 .. captureSession
    BY <1>1, <2>2
  <2>4. ASSUME NEW j \in DOMAIN toMain, toMain[j][1] = "end" PROVE toMain[j][2] # s
    <3>1. CASE toMain[j][2] # 0
      BY <2>1, <2>4, <3>1 DEF SessionsAreTokens, Tokens
    <3> QED BY <3>1
  <2> QED BY <2>3, <2>4
<1> QED BY <1>2, <1>3 DEF Live

LEMMA LiveKept ==
  ASSUME HookTypeOK, HookIsThere, CaptureOwnsHook, DialogsInOrder, SessionsAreTokens,
         LiveSessionOwns, [ServiceNext]_serviceVars
  PROVE  LiveSessionOwns'
<1>1. /\ captureSession \in Nat /\ toMain \in Seq(Requests) /\ toDialog \in Seq(Messages)
      /\ dialogSession \in Nat \cup {NoSession} /\ NoSession = -1
  BY DEF HookTypeOK, HotkeyTypeOK, NoSession
<1>2. captureSession' \in Nat
  BY WindowTyped
<1>3. /\ \A d \in 1 .. MaxBegins, session \in Nat : Reply(d, session) \in Messages
      /\ \A edge \in Edges : KeyEvent(edge) \in Messages
      /\ Ended \in Messages
  BY DEF Messages
<1> SUFFICES ASSUME NEW s \in Nat, s > 0, Live(s)'
             PROVE  IF capturing' THEN captureSession' = s
                                  ELSE toDialog' # <<>> /\ toDialog'[Len(toDialog')] = Ended
  BY <1>2 DEF LiveSessionOwns
<1>4. Live(s) => IF capturing THEN captureSession = s
                              ELSE toDialog # <<>> /\ toDialog[Len(toDialog)] = Ended
  BY LiveIsKnown DEF LiveSessionOwns
<1>5. /\ \A d, session : Reply(d, session) # Ended
      /\ \A edge, d, session : KeyEvent(edge) # Reply(d, session)
  BY Heads
<1> USE DEF window, capture
<1>6. CASE Quiet
  BY <1>4, <1>6 DEF Quiet, Live
<1>7. CASE SendsKey \/ Times
  <2>1. PICK m \in Messages : toDialog' = Append(toDialog, m) /\ m # Reply(dialog, s)
                              /\ (Times => m = Ended)
    <3>1. CASE SendsKey
      <4>1. Head(queue) \in Edges
        BY <3>1, Popping DEF SendsKey, HookTypeOK, HotkeyTypeOK
      <4>2. KeyEvent(Head(queue)) \in Messages /\ KeyEvent(Head(queue)) # Reply(dialog, s)
        BY <1>3, <1>5, <4>1
      <4>3. ~Times
        BY <3>1 DEF SendsKey, Times, keyboard
      <4> QED BY <3>1, <4>2, <4>3 DEF SendsKey
    <3>2. CASE Times
      BY <1>3, <1>5, <3>2 DEF Times
    <3> QED BY <1>7, <3>1, <3>2
  <2>2. Pushed(toDialog, toDialog', m)
    BY <1>1, <2>1, Pushing
  <2>3. Live(s)
    <3>1. UNCHANGED window
      BY <1>7 DEF SendsKey, Times
    <3>2. CASE dialogSession' = s
      BY <3>1, <3>2 DEF Live
    <3>3. ASSUME dialog' # 0, NEW i \in DOMAIN toDialog', toDialog'[i] = Reply(dialog', s)
          PROVE  Live(s)
      <4>1. i \in DOMAIN toDialog /\ toDialog'[i] = toDialog[i]
        BY <2>1, <2>2, <3>1, <3>3, PushedAt
      <4> QED BY <3>1, <3>3, <4>1 DEF Live
    <3> QED BY <3>2, <3>3 DEF Live
  <2>4. CASE SendsKey
    BY <1>4, <2>3, <2>4 DEF SendsKey
  <2>5. CASE Times
    <3>1. ~capturing' /\ toDialog' # <<>> /\ toDialog'[Len(toDialog')] = Ended
      <4>1. Len(toDialog') # 0
        BY <2>2 DEF Pushed
      <4>2. toDialog' # <<>>
        BY <4>1
      <4> QED BY <2>1, <2>2, <2>5, <4>2, PushedAt DEF Times
    <3> QED BY <3>1
  <2> QED BY <1>7, <2>4, <2>5
<1>8. CASE Opens
  <2>1. dialogSession' = NoSession /\ dialog' = begins + 1 /\ UNCHANGED toDialog
    BY <1>8 DEF Opens
  <2>2. PICK i \in DOMAIN toDialog : toDialog[i] = Reply(begins + 1, s)
    BY <1>1, <2>1 DEF Live
  <2>3. begins + 1 <= begins /\ begins \in Nat
    BY <2>2, Heads DEF DialogsInOrder, InOrder, HookTypeOK, HotkeyTypeOK
  <2> QED BY <2>3
<1>9. CASE Closes \/ Dies
  BY <1>1, <1>9 DEF Closes, Dies, Live
<1>10. CASE Skips
  <2>1. Popped(toDialog, toDialog') /\ Head(toDialog) = toDialog[1]
    BY <1>1, <1>10, Popping DEF Skips
  <2>2. Live(s) /\ (dialogSession # s => toDialog' # <<>>)
    <3>1. CASE dialogSession' = s
      BY <1>10, <3>1 DEF Skips, Live
    <3>2. ASSUME dialog' # 0, NEW i \in DOMAIN toDialog', toDialog'[i] = Reply(dialog', s)
          PROVE  Live(s) /\ toDialog' # <<>>
      <4>1. i + 1 \in DOMAIN toDialog /\ toDialog'[i] = toDialog[i + 1]
        BY <2>1, PoppedAt
      <4>2. Live(s)
        BY <1>10, <3>2, <4>1 DEF Live, Skips
      <4> QED BY <3>2, <4>2
    <3> QED BY <1>10, <3>1, <3>2 DEF Live, Skips
  <2>3. CASE capturing
    BY <1>4, <1>10, <2>2, <2>3 DEF Skips
  <2>4. CASE ~capturing
    <3>1. toDialog # <<>> /\ toDialog[Len(toDialog)] = Ended
      BY <1>4, <2>2, <2>4
    <3>2. CASE Len(toDialog) = 1
      <4>1. Len(toDialog') = 0
        BY <2>1, <3>2 DEF Popped
      <4>2. toDialog' = <<>>
        BY <1>1, <1>10, <4>1, Popping DEF Skips
      <4>3. Head(toDialog) = Ended
        BY <2>1, <3>1, <3>2
      <4>4. dialogSession <= 0
        BY <1>10, <4>3, Heads DEF Skips
      <4> QED BY <2>2, <4>2, <4>4
    <3>3. CASE Len(toDialog) # 1
      <4>1. Len(toDialog') >= 1 /\ toDialog'[Len(toDialog')] = toDialog[Len(toDialog)]
        BY <2>1, <3>3 DEF Popped
      <4>2. toDialog' # <<>>
        BY <4>1
      <4> QED BY <1>10, <2>4, <3>1, <4>1, <4>2 DEF Skips
    <3> QED BY <3>2, <3>3
  <2> QED BY <2>3, <2>4
<1>11. ASSUME NEW d \in 1 .. MaxBegins, Answers(d)
       PROVE  captureSession' = s /\ capturing'
  <2>1. toMain[1] = <<"begin", d>> /\ 1 \in DOMAIN toMain
    BY <1>1, <1>11, Popping, PoppedAt DEF Answers
  <2>2. ~Live(s) /\ dialogSession = NoSession
    BY <2>1, NoneLive
  <2>3. PICK session \in Nat : /\ toDialog' = Append(toDialog, Reply(d, session))
                               /\ \/ session = captureSession' /\ capturing' = TRUE
                                  \/ session = 0
    BY <1>1, <1>2, <1>11 DEF Answers
  <2>4. Pushed(toDialog, toDialog', Reply(d, session))
    BY <1>1, <1>3, <2>3, Pushing
  <2>5. PICK i \in DOMAIN toDialog' : dialog # 0 /\ toDialog'[i] = Reply(dialog, s)
    BY <1>1, <1>11, <2>2 DEF Live, Answers
  <2>6. CASE i \in DOMAIN toDialog /\ toDialog'[i] = toDialog[i]
    BY <2>2, <2>5, <2>6 DEF Live
  <2>7. CASE toDialog'[i] = Reply(d, session)
    <3>1. Reply(d, session)[3] = session /\ Reply(dialog, s)[3] = s
      BY Heads
    <3>2. session = s
      BY <2>5, <2>7, <3>1
    <3> QED BY <2>3, <3>2
  <2> QED BY <2>4, <2>6, <2>7, PushedAt
<1>12. ASSUME NEW session \in Nat, Stops(session)
       PROVE  IF capturing' THEN captureSession' = s
                            ELSE toDialog' # <<>> /\ toDialog'[Len(toDialog')] = Ended
  <2>1. toMain[1] = <<"end", session>> /\ 1 \in DOMAIN toMain
    BY <1>1, <1>12, Popping, PoppedAt DEF Stops
  <2>2. Live(s)
    BY <1>12 DEF Live, Stops
  <2>3. session # s
    BY <2>1, <2>2, LiveIsKnown
  <2> QED BY <1>4, <1>12, <2>2, <2>3 DEF Stops
<1>13. ASSUME NEW d \in 1 .. MaxBegins, NEW session \in Nat, Learns(d, session)
       PROVE  IF capturing' THEN captureSession' = s
                            ELSE toDialog' # <<>> /\ toDialog'[Len(toDialog')] = Ended
  <2>1. Popped(toDialog, toDialog') /\ toDialog[1] = Reply(d, session) /\ 1 \in DOMAIN toDialog
    BY <1>1, <1>13, Popping, PoppedAt DEF Learns
  <2>2. Live(s)
    <3>1. CASE dialogSession' = s
      BY <1>13, <2>1, <3>1 DEF Learns, Live
    <3>2. ASSUME dialog' # 0, NEW i \in DOMAIN toDialog', toDialog'[i] = Reply(dialog', s)
          PROVE  Live(s)
      <4>1. i + 1 \in DOMAIN toDialog /\ toDialog'[i] = toDialog[i + 1]
        BY <2>1, PoppedAt
      <4> QED BY <1>13, <3>2, <4>1 DEF Live, Learns
    <3> QED BY <3>1, <3>2 DEF Live
  <2>3. CASE capturing
    BY <1>4, <1>13, <2>2, <2>3 DEF Learns
  <2>4. CASE ~capturing
    <3>1. toDialog # <<>> /\ toDialog[Len(toDialog)] = Ended
      BY <1>4, <2>2, <2>4
    <3>2. Len(toDialog) # 1
      BY <1>5, <2>1, <3>1
    <3>3. Len(toDialog') >= 1 /\ toDialog'[Len(toDialog')] = toDialog[Len(toDialog)]
      BY <2>1, <3>2 DEF Popped
    <3>4. toDialog' # <<>>
      BY <3>3
    <3> QED BY <1>13, <2>4, <3>1, <3>3, <3>4 DEF Learns
  <2> QED BY <2>3, <2>4
<1> QED BY <1>6, <1>7, <1>8, <1>9, <1>10, <1>11, <1>12, <1>13, DialogSteps

-----------------------------------------------------------------------------
(* The keys.                                                                *)
Types(m) ==
  /\ queue' = Append(queue, m)
  /\ \E key \in Keys : \/ m = Down(key) /\ keysDown' = keysDown \cup {key}
                       \/ m = Up(key) /\ keysDown' = keysDown \ {key}
  /\ UNCHANGED toDialog

Drains == queue # <<>> /\ queue' = Tail(queue) /\ keysDown' = keysDown

DrainsTold ==
  Drains /\ toDialog' = IF capturing THEN Append(toDialog, KeyEvent(Head(queue)))
                                     ELSE toDialog

(* What a step does to the keyboard and the hook's queue.                    *)
LEMMA QueueSteps ==
  ASSUME HookTypeOK, HookIsThere, OwnFlags, [ServiceNext]_serviceVars
  PROVE  \/ UNCHANGED keyboard
         \/ ~installed /\ queue' = <<>>
         \/ \E m \in Edges : Types(m)
         \/ DrainsTold
<1> USE DEF keyboard
<1>1. CASE \/ UNCHANGED serviceVars \/ GrantTrust \/ SaveStep \/ MainServes \/ WatchdogFires
           \/ DialogHears \/ Rerecord \/ CloseDialog \/ RendererGone
           \/ EffectRunsAnew \/ \E mode \in Modes : OpenDialog(mode)
  BY <1>1 DEF serviceVars, hookVars, GrantTrust, SaveStep, SaveMode, MainServes, WatchdogFires,
              DialogHears, Rerecord, CloseDialog, RendererGone, OpenDialog, EffectRunsAnew
<1>2. ASSUME NEW key \in Keys, NEW down, KeyMoves(key, down), NEW b \in BOOLEAN, b = (key \in down),
             down = IF b THEN keysDown \cup {key} ELSE keysDown \ {key}
      PROVE  (~installed /\ queue' = <<>>) \/ \E m \in Edges : Types(m)
  <2>1. \A k \in down : k \in Keys
    BY <1>2 DEF HookTypeOK, HotkeyTypeOK
  <2>2. (\E k \in down : Family[k] = Family[key]) = b
    BY <1>2, <2>1 DEF OwnFlags
  <2>3. Edge(key, down) = <<key, b>> /\ <<key, b>> \in Edges
    BY <2>2 DEF Edge, Edges
  <2>4. CASE ~installed
    BY <1>2, <2>4 DEF KeyMoves, HookIsThere
  <2>5. CASE installed
    <3>1. queue' = Append(queue, <<key, b>>) /\ keysDown' = down /\ UNCHANGED toDialog
      BY <1>2, <2>3, <2>5 DEF KeyMoves
    <3>2. \/ <<key, b>> = Down(key) /\ keysDown' = keysDown \cup {key}
          \/ <<key, b>> = Up(key) /\ keysDown' = keysDown \ {key}
      BY <1>2, <3>1 DEF Down, Up
    <3>3. Types(<<key, b>>)
      BY <3>1, <3>2 DEF Types
    <3> QED BY <2>3, <3>3
  <2> QED BY <2>4, <2>5
<1>3. ASSUME NEW key \in Keys, KeyDown(key) \/ KeyUp(key)
      PROVE  (~installed /\ queue' = <<>>) \/ \E m \in Edges : Types(m)
  <2>1. CASE KeyDown(key)
    <3>1. KeyMoves(key, keysDown \cup {key}) /\ TRUE = (key \in keysDown \cup {key})
      BY <2>1 DEF KeyDown
    <3> QED BY <1>2, <3>1
  <2>2. CASE KeyUp(key)
    <3>1. KeyMoves(key, keysDown \ {key}) /\ FALSE = (key \in keysDown \ {key})
      BY <2>2 DEF KeyUp
    <3> QED BY <1>2, <3>1
  <2> QED BY <1>3, <2>1, <2>2
<1>4. CASE DrainEdge
  BY <1>4 DEF DrainEdge, Drains, DrainsTold
<1>5. CASE GateStarts \/ GateTick
  BY <1>5 DEF GateStarts, GateTick, TryInstall, HookIsThere
<1> QED BY <1>1, <1>3, <1>4, <1>5 DEF ServiceNext, KeyStep

(* A release in the queue stays there until it is drained.                   *)
LEMMA ReleasePushed ==
  ASSUME NEW k, NEW i, NEW m, Pushed(queue, queue', m), ReleaseQueued(k, i)
  PROVE  ReleaseQueued(k, i)'
BY PushedAt DEF ReleaseQueued

LEMMA ReleasePopped ==
  ASSUME NEW k, NEW i \in Nat, Popped(queue, queue'), ReleaseQueued(k, i + 1)
  PROVE  ReleaseQueued(k, i)'
<1>1. PICK j \in DOMAIN queue : j > i + 1 /\ queue[j] = Up(k)
  BY DEF ReleaseQueued
<1>2. j \in Nat
  BY PoppedAt
<1>3. j # 1 /\ j - 1 > i
  BY <1>1, <1>2
<1>4. j - 1 \in DOMAIN queue' /\ queue'[j - 1] = Up(k)
  BY <1>1, <1>3, PoppedAt
<1> QED BY <1>3, <1>4 DEF ReleaseQueued

LEMMA ReleaseFirst ==
  ASSUME NEW k, HookTypeOK, ReleaseQueued(k, 0)
  PROVE  queue[1] = Up(k) \/ ReleaseQueued(k, 1)
<1>1. PICK j \in DOMAIN queue : j > 0 /\ queue[j] = Up(k)
  BY DEF ReleaseQueued
<1>2. j \in Nat
  BY DEF HookTypeOK, HotkeyTypeOK
<1> QED BY <1>1, <1>2 DEF ReleaseQueued

LEMMA TypedEdge ==
  ASSUME HookTypeOK, NEW m \in Edges, Types(m)
  PROVE  /\ Pushed(queue, queue', m)
         /\ \A k \in keysDown : k \in keysDown' \/ m = Up(k)
         /\ \A k \in Keys : m = Down(k) => k \in keysDown'
<1>1. Pushed(queue, queue', m)
  BY Pushing DEF Types, HookTypeOK, HotkeyTypeOK
<1>2. PICK key \in Keys : \/ m = Down(key) /\ keysDown' = keysDown \cup {key}
                          \/ m = Up(key) /\ keysDown' = keysDown \ {key}
  BY DEF Types
<1>3. ASSUME NEW k \in keysDown PROVE k \in keysDown' \/ m = Up(k)
  BY <1>2
<1>4. ASSUME NEW k \in Keys, m = Down(k) PROVE k \in keysDown'
  <2>1. m # Up(key)
    BY <1>4 DEF Up, Down
  <2>2. m = Down(key) /\ keysDown' = keysDown \cup {key}
    BY <1>2, <2>1
  <2>3. k = key
    BY <1>4, <2>2 DEF Down
  <2> QED BY <2>2, <2>3
<1> QED BY <1>1, <1>3, <1>4

(* A key that is down, or whose release is queued, stays so until the        *)
(* release is drained.                                                      *)
LEMMA TypedOwed ==
  ASSUME HookTypeOK, NEW m \in Edges, Types(m), NEW k, NEW i \in Nat, i <= Len(queue),
         k \in keysDown \/ ReleaseQueued(k, i)
  PROVE  k \in keysDown' \/ ReleaseQueued(k, i)'
<1>1. CASE k \in keysDown
  <2>1. Pushed(queue, queue', m) /\ (k \in keysDown' \/ m = Up(k))
    BY <1>1, TypedEdge
  <2>2. Len(queue') \in DOMAIN queue' /\ queue'[Len(queue')] = m /\ Len(queue') > i
    BY <2>1 DEF Pushed
  <2> QED BY <2>1, <2>2 DEF ReleaseQueued
<1>2. CASE ReleaseQueued(k, i)
  BY <1>2, TypedEdge, ReleasePushed
<1> QED BY <1>1, <1>2

LEMMA QueueKept ==
  ASSUME HookTypeOK, HookIsThere, OwnFlags, QueueFollowsKeys, [ServiceNext]_serviceVars
  PROVE  QueueFollowsKeys'
<1>1. queue \in Seq(Edges)
  BY DEF HookTypeOK, HotkeyTypeOK
<1>2. CASE UNCHANGED keyboard
  BY <1>2 DEF keyboard, QueueFollowsKeys, ReleaseQueued
<1>3. CASE queue' = <<>>
  BY <1>3 DEF QueueFollowsKeys
<1>4. ASSUME NEW m \in Edges, Types(m) PROVE QueueFollowsKeys'
  <2>1. Pushed(queue, queue', m)
    BY <1>4, TypedEdge
  <2> SUFFICES ASSUME NEW i \in DOMAIN queue', NEW k \in Keys, queue'[i] = Down(k)
               PROVE  k \in keysDown' \/ ReleaseQueued(k, i)'
    BY DEF QueueFollowsKeys
  <2>2. CASE i \in DOMAIN queue /\ queue'[i] = queue[i]
    <3>1. k \in keysDown \/ ReleaseQueued(k, i)
      BY <2>2 DEF QueueFollowsKeys
    <3>2. i \in Nat /\ i <= Len(queue)
      BY <1>1, <2>2
    <3> QED BY <1>4, <3>1, <3>2, TypedOwed
  <2>3. CASE queue'[i] = m
    BY <1>4, <2>3, TypedEdge
  <2> QED BY <2>1, <2>2, <2>3, PushedAt
<1>5. CASE DrainsTold
  <2>1. Popped(queue, queue')
    BY <1>1, <1>5, Popping DEF Drains, DrainsTold
  <2> SUFFICES ASSUME NEW i \in DOMAIN queue', NEW k \in Keys, queue'[i] = Down(k)
               PROVE  k \in keysDown' \/ ReleaseQueued(k, i)'
    BY DEF QueueFollowsKeys
  <2>2. i \in Nat /\ i + 1 \in DOMAIN queue /\ queue'[i] = queue[i + 1]
    BY <2>1, PoppedAt
  <2>3. k \in keysDown \/ ReleaseQueued(k, i + 1)
    BY <2>2 DEF QueueFollowsKeys
  <2> QED BY <1>5, <2>1, <2>2, <2>3, ReleasePopped DEF Drains, DrainsTold
<1> QED BY <1>2, <1>3, <1>4, <1>5, QueueSteps

LEMMA HeldKept ==
  ASSUME HookTypeOK, HookIsThere, CaptureOwnsHook, OwnFlags, QueueFollowsKeys, HeldFollowsKeys,
         [ServiceNext]_serviceVars
  PROVE  HeldFollowsKeys'
<1>1. queue \in Seq(Edges) /\ held \subseteq Keys
  BY DEF HookTypeOK, HotkeyTypeOK, RuntimeTypeOK
<1>2. CASE ClearHeld
  BY <1>2 DEF ClearHeld, HeldFollowsKeys
<1>3. CASE UNCHANGED <<matcherVars, keyboard>>
  BY <1>3 DEF matcherVars, keyboard, HeldFollowsKeys, ReleaseQueued
<1>4. CASE KeyStep
  <2>1. UNCHANGED matcherVars
    BY <1>4 DEF KeyStep, KeyDown, KeyUp, KeyMoves, runtimeVars
  <2>2. CASE ~installed
    BY <2>1, <2>2 DEF HookIsThere, HeldFollowsKeys, matcherVars
  <2>3. CASE UNCHANGED keyboard
    BY <1>3, <2>1, <2>3
  <2>4. ASSUME NEW m \in Edges, Types(m) PROVE HeldFollowsKeys'
    <3>1. ASSUME NEW k \in held PROVE k \in keysDown' \/ ReleaseQueued(k, 0)'
      <4>1. k \in keysDown \/ ReleaseQueued(k, 0)
        BY DEF HeldFollowsKeys
      <4>2. 0 \in Nat /\ 0 <= Len(queue)
        BY <1>1
      <4> QED BY <2>4, <4>1, <4>2, TypedOwed
    <3> QED BY <2>1, <3>1 DEF HeldFollowsKeys, matcherVars
  <2>5. ~DrainsTold
    <3>1. ASSUME NEW key \in Keys, NEW down, KeyMoves(key, down), DrainsTold PROVE FALSE
      <4>1. queue' # queue
        BY <1>1, <3>1 DEF Drains, DrainsTold
      <4>2. installed /\ queue' = Append(queue, Edge(key, down)) /\ Edge(key, down) \in Edges
        BY <3>1, <4>1, EdgeTyped DEF KeyMoves
      <4>3. Pushed(queue, queue', Edge(key, down)) /\ Popped(queue, queue')
        BY <1>1, <3>1, <4>2, Pushing, Popping DEF Drains, DrainsTold
      <4> QED BY <4>3 DEF Pushed, Popped
    <3> QED BY <1>4, <3>1 DEF KeyStep, KeyDown, KeyUp
  <2> QED BY <2>2, <2>3, <2>4, <2>5, QueueSteps
<1>5. CASE DrainEdge
  <2>1. CASE capturing
    BY <1>5, <2>1 DEF DrainEdge, CaptureOwnsHook, HeldFollowsKeys, runtimeVars, matcherVars
  <2>2. CASE ~capturing
    <3>1. Popped(queue, queue') /\ Head(queue) = queue[1] /\ queue[1] \in Edges
          /\ keysDown' = keysDown
      BY <1>1, <1>5, Popping DEF DrainEdge
    <3>2. /\ held' = IF queue[1][2] THEN held \cup {queue[1][1]} ELSE held \ {queue[1][1]}
          /\ pressedChords' = Matched(bindings, held') /\ bindings' = bindings
      BY <1>5, <2>2, <3>1 DEF DrainEdge, Feed, MatchEdge
    <3>3. PICK key \in Keys, b \in BOOLEAN : queue[1] = <<key, b>>
      BY <3>1 DEF Edges
    <3>4. ASSUME NEW k \in held' PROVE k \in keysDown' \/ ReleaseQueued(k, 0)'
      <4>1. k \in keysDown \/ ReleaseQueued(k, 1)
        <5>1. CASE k = key
          <6>1. b = TRUE
            BY <3>2, <3>3, <3>4, <5>1
          <6>2. 1 \in DOMAIN queue /\ queue[1] = Down(k)
            BY <3>1, <3>3, <5>1, <6>1, PoppedAt DEF Down
          <6> QED BY <5>1, <6>2 DEF QueueFollowsKeys
        <5>2. CASE k # key
          <6>1. queue[1][1] = key
            BY <3>3
          <6>2. queue[1] # Up(k)
            <7>1. Up(k)[1] = k
              BY DEF Up
            <7> QED BY <5>2, <6>1, <7>1
          <6>3. k \in held
            BY <3>2, <3>4, <5>2, <6>1
          <6> QED BY <6>2, <6>3, ReleaseFirst DEF HeldFollowsKeys
        <5> QED BY <5>1, <5>2
      <4>2. ReleaseQueued(k, 0 + 1) => ReleaseQueued(k, 0)'
        BY <3>1, ReleasePopped
      <4> QED BY <3>1, <4>1, <4>2
    <3> QED BY <3>2, <3>4 DEF HeldFollowsKeys
  <2> QED BY <2>1, <2>2
<1>6. CASE GateStarts \/ GateTick
  BY <1>3, <1>6 DEF GateStarts, GateTick, TryInstall, HeldFollowsKeys, runtimeVars, keyboard
<1>7. ASSUME NEW mode, NEW chord, NEW policy, SaveMode(mode, chord, policy)
      PROVE  HeldFollowsKeys'
  BY <1>2, <1>3, <1>7 DEF SaveMode, Rebind, ApplyBindings, SetBindings, hookVars, keyboard
<1>8. CASE MainServes \/ WatchdogFires \/ RendererGone
  BY <1>2, <1>3, <1>8 DEF MainServes, BeginCapture, EndCapture, TakeHook, TeardownCapture,
     WatchdogFires, RendererGone, ForceEndCapture, runtimeVars, hookVars, keyboard
<1>9. CASE \/ UNCHANGED serviceVars \/ GrantTrust \/ DialogHears \/ Rerecord \/ CloseDialog
           \/ EffectRunsAnew \/ \E mode \in Modes : OpenDialog(mode)
  BY <1>3, <1>9 DEF GrantTrust, DialogHears, Rerecord, CloseDialog, OpenDialog, EffectRunsAnew,
     serviceVars,
     runtimeVars, hookVars, keyboard
<1> QED BY <1>4, <1>5, <1>6, <1>7, <1>8, <1>9 DEF ServiceNext, SaveStep

(* A session is live when the dialog listens, or will.                       *)
LEMMA HeededIsLive ==
  ASSUME HookTypeOK, SessionsAreTokens, NEW i, Heeded(i)
  PROVE  \E s \in 1 .. captureSession : Live(s)
<1>1. captureSession \in Nat /\ NoSession = -1
  BY DEF HookTypeOK, HotkeyTypeOK, NoSession
<1>2. CASE dialogSession > 0
  <2>1. dialogSession \in 1 .. captureSession
    BY <1>1, <1>2 DEF SessionsAreTokens, Tokens
  <2> QED BY <2>1 DEF Live
<1>3. CASE ~(dialogSession > 0)
  BY <1>3 DEF Heeded, Live
<1> QED BY <1>2, <1>3

Told(k, i) == \E j \in DOMAIN toDialog : j > i /\ toDialog[j] \in {KeyEvent(Up(k)), Ended}

LEMMA ToldPushed ==
  ASSUME NEW k, NEW i, NEW m, Pushed(toDialog, toDialog', m), Told(k, i)
  PROVE  Told(k, i)'
<1>1. PICK j \in DOMAIN toDialog : j > i /\ toDialog[j] \in {KeyEvent(Up(k)), Ended}
  BY DEF Told
<1>2. j \in DOMAIN toDialog' /\ toDialog'[j] = toDialog[j]
  BY PushedAt
<1> QED BY <1>1, <1>2 DEF Told

LEMMA ToldNow ==
  ASSUME NEW k, NEW i \in Nat, NEW m, Pushed(toDialog, toDialog', m), i <= Len(toDialog),
         m \in {KeyEvent(Up(k)), Ended}
  PROVE  Told(k, i)'
<1>1. Len(toDialog') \in DOMAIN toDialog' /\ toDialog'[Len(toDialog')] = m
  BY PushedAt
<1>2. Len(toDialog') > i
  BY DEF Pushed
<1> QED BY <1>1, <1>2 DEF Told

LEMMA ToldPopped ==
  ASSUME NEW k, NEW i \in Nat, Popped(toDialog, toDialog'), Told(k, i + 1)
  PROVE  Told(k, i)'
<1>1. PICK j \in DOMAIN toDialog : j > i + 1 /\ toDialog[j] \in {KeyEvent(Up(k)), Ended}
  BY DEF Told
<1>2. j \in Nat
  BY PoppedAt
<1>3. j # 1 /\ j - 1 > i
  BY <1>1, <1>2
<1>4. j - 1 \in DOMAIN toDialog' /\ toDialog'[j - 1] = toDialog[j]
  BY <1>3, PoppedAt
<1> QED BY <1>1, <1>3, <1>4 DEF Told

LEMMA ToldFirst ==
  ASSUME NEW k, HookTypeOK, Told(k, 0)
  PROVE  toDialog[1] \in {KeyEvent(Up(k)), Ended} \/ Told(k, 1)
<1>1. PICK j \in DOMAIN toDialog : j > 0 /\ toDialog[j] \in {KeyEvent(Up(k)), Ended}
  BY DEF Told
<1>2. j \in Nat
  BY DEF HookTypeOK
<1> QED BY <1>1, <1>2 DEF Told

(* While the dialog listens, what it will learn of a key is not lost.        *)
LEMMA FollowsKept ==
  ASSUME HookTypeOK, HookIsThere, CaptureOwnsHook, OwnFlags, SessionsAreTokens, LiveSessionOwns,
         [ServiceNext]_serviceVars,
         NEW s \in 1 .. captureSession, Live(s),
         Quiet \/ SendsKey \/ Times \/ \E session \in Nat : Stops(session),
         NEW k \in Keys, NEW i \in Nat, i <= Len(toDialog),
         i > 0 => toDialog[i] # Ended, Follows(k, i)
  PROVE  Follows(k, i)'
<1> USE DEF capture, window
<1>1. /\ captureSession \in Nat /\ queue \in Seq(Edges) /\ toDialog \in Seq(Messages)
      /\ toMain \in Seq(Requests)
  BY DEF HookTypeOK, HotkeyTypeOK
<1>2. /\ \A edge \in Edges : KeyEvent(edge) \in Messages
      /\ Ended \in Messages
  BY DEF Messages
<1>3. IF capturing THEN captureSession = s
                   ELSE toDialog # <<>> /\ toDialog[Len(toDialog)] = Ended
  BY DEF LiveSessionOwns
<1>4. k \in keysDown \/ (capturing /\ ReleaseQueued(k, 0)) \/ Told(k, i)
  BY DEF Follows, Told
<1>5. ASSUME k \in keysDown' \/ (capturing' /\ ReleaseQueued(k, 0)') \/ Told(k, i)'
      PROVE  Follows(k, i)'
  BY <1>5 DEF Follows, Told
<1>6. CASE Times
  <2>1. Pushed(toDialog, toDialog', Ended)
    BY <1>1, <1>2, <1>6, Pushing DEF Times
  <2> QED BY <1>5, <2>1, ToldNow
<1>7. ASSUME NEW session \in Nat, Stops(session) PROVE Follows(k, i)'
  <2>1. toMain[1] = <<"end", session>> /\ 1 \in DOMAIN toMain
    BY <1>1, <1>7, Popping, PoppedAt DEF Stops
  <2>2. s \in Nat /\ s > 0
    BY <1>1
  <2>3. session # s
    BY <2>1, <2>2, LiveIsKnown
  <2>4. capturing => capturing'
    BY <1>3, <1>7, <2>3 DEF Stops
  <2>5. UNCHANGED <<keysDown, queue, toDialog>>
    BY <1>7 DEF Stops, keyboard
  <2> QED BY <1>4, <1>5, <2>4, <2>5 DEF ReleaseQueued, Told
<1>8. CASE SendsKey
  <2>1. Popped(queue, queue') /\ Head(queue) = queue[1] /\ queue[1] \in Edges
    BY <1>1, <1>8, Popping DEF SendsKey
  <2>2. Pushed(toDialog, toDialog', KeyEvent(queue[1]))
    BY <1>1, <1>2, <1>8, <2>1, Pushing DEF SendsKey
  <2>3. UNCHANGED <<keysDown, capturing>>
    BY <1>8 DEF SendsKey
  <2>4. CASE Told(k, i)
    BY <1>5, <2>2, <2>4, ToldPushed
  <2>5. CASE ReleaseQueued(k, 0) /\ capturing
    <3>1. CASE queue[1] = Up(k)
      BY <1>5, <2>2, <3>1, ToldNow
    <3>2. CASE ReleaseQueued(k, 1)
      <4>1. ReleaseQueued(k, 0 + 1)
        BY <3>2
      <4> QED BY <1>5, <2>1, <2>3, <2>5, <4>1, ReleasePopped
    <3> QED BY <2>5, <3>1, <3>2, ReleaseFirst
  <2> QED BY <1>4, <1>5, <2>3, <2>4, <2>5
<1>9. CASE Quiet
  <2>1. UNCHANGED <<capturing, toDialog>>
    BY <1>9 DEF Quiet
  <2>2. Told(k, i) => Told(k, i)'
    BY <2>1 DEF Told
  <2>3. CASE UNCHANGED keyboard
    BY <1>4, <1>5, <2>1, <2>2, <2>3 DEF keyboard, ReleaseQueued
  <2>4. CASE ~installed
    <3>1. captureSession = 0
      BY <2>4 DEF HookIsThere
    <3> QED BY <3>1
  <2>5. ASSUME NEW m \in Edges, Types(m) PROVE Follows(k, i)'
    <3>1. CASE capturing
      <4>1. k \in keysDown \/ ReleaseQueued(k, 0) => k \in keysDown' \/ ReleaseQueued(k, 0)'
        <5>1. 0 \in Nat /\ 0 <= Len(queue)
          BY <1>1
        <5> QED BY <2>5, <5>1, TypedOwed
      <4> QED BY <1>4, <1>5, <2>1, <2>2, <3>1, <4>1
    <3>2. CASE ~capturing
      <4>1. Len(toDialog) \in DOMAIN toDialog /\ toDialog[Len(toDialog)] = Ended
        <5>1. Len(toDialog) # 0
          BY <1>1, <1>3, <3>2
        <5> QED BY <1>1, <1>3, <3>2, <5>1
      <4>2. Len(toDialog) > i
        <5>1. i # Len(toDialog)
          BY <1>1, <4>1
        <5> QED BY <1>1, <5>1
      <4>3. Told(k, i)
        BY <4>1, <4>2 DEF Told
      <4> QED BY <1>5, <2>2, <4>3
    <3> QED BY <3>1, <3>2
  <2>6. CASE DrainsTold
    <3>1. ~capturing
      <4>1. ASSUME capturing PROVE FALSE
        <5>1. Head(queue) \in Edges
          BY <1>1, <2>6, Popping DEF Drains, DrainsTold
        <5>2. Pushed(toDialog, toDialog', KeyEvent(Head(queue)))
          BY <1>1, <1>2, <2>6, <4>1, <5>1, Pushing DEF DrainsTold
        <5> QED BY <2>1, <5>2 DEF Pushed
      <4> QED BY <4>1
    <3> QED BY <1>4, <1>5, <2>2, <2>6, <3>1 DEF Drains, DrainsTold
  <2> QED BY <2>3, <2>4, <2>5, <2>6, QueueSteps
<1> QED BY <1>6, <1>7, <1>8, <1>9

(* A step that leaves no session live leaves no message to heed.             *)
LEMMA NothingHeeded ==
  ASSUME HookTypeOK, CaptureOwnsHook, DialogsInOrder, [ServiceNext]_serviceVars,
         Opens \/ Closes \/ Dies
  PROVE  dialogSession' = NoSession /\ \A i : ~Heeded(i)'
<1> USE DEF window
<1>1. begins \in Nat /\ NoSession = -1
  BY DEF HookTypeOK, HotkeyTypeOK, NoSession
<1>2. CASE Opens
  <2>1. /\ dialogSession' = NoSession /\ dialog' = begins + 1 /\ UNCHANGED toDialog
    BY <1>2 DEF Opens
  <2>2. ASSUME NEW j \in DOMAIN toDialog, NEW s, toDialog[j] = Reply(begins + 1, s) PROVE FALSE
    <3>1. begins + 1 <= begins
      BY <2>2, Heads DEF DialogsInOrder, InOrder
    <3> QED BY <1>1, <3>1
  <2>3. ~(dialogSession' > 0)
    BY <1>1, <2>1
  <2> QED BY <2>1, <2>2, <2>3 DEF Heeded
<1>3. CASE Closes \/ Dies
  <2>1. dialogSession' = NoSession /\ dialog' = 0
    BY <1>3 DEF Closes, Dies
  <2>2. ~(dialogSession' > 0)
    BY <1>1, <2>1
  <2> QED BY <2>1, <2>2 DEF Heeded
<1> QED BY <1>2, <1>3

(* The answer to a begin is heeded only after it.                            *)
LEMMA AnswerHeeded ==
  ASSUME HookTypeOK, DialogsInOrder, NEW d \in 1 .. MaxBegins, Answers(d)
  PROVE  dialogSession' = NoSession /\ \A i \in DOMAIN toDialog' : ~Heeded(i)'
<1> USE DEF window
<1>1. /\ captureSession \in Nat /\ toMain \in Seq(Requests) /\ toDialog \in Seq(Messages)
      /\ NoSession = -1
  BY DEF HookTypeOK, HotkeyTypeOK, NoSession
<1>2. toMain[1] = <<"begin", d>> /\ 1 \in DOMAIN toMain
  BY <1>1, Popping, PoppedAt DEF Answers
<1>3. \A s \in Nat : s > 0 => ~Live(s) /\ dialogSession = NoSession
  BY <1>2, NoneLive
<1>4. dialogSession = NoSession
  BY <1>3
<1>5. \A n \in Nat : Reply(d, n) \in Messages
  BY DEF Messages
<1>6. PICK n \in Nat : toDialog' = Append(toDialog, Reply(d, n))
  BY <1>1 DEF Answers
<1>7. Pushed(toDialog, toDialog', Reply(d, n))
  BY <1>1, <1>5, <1>6, Pushing
<1>8. UNCHANGED <<dialog, dialogSession>> /\ ~(dialogSession > 0)
  BY <1>1, <1>4 DEF Answers
<1>9. captureSession' \in Nat
  BY <1>1 DEF Answers, capture
<1>10. ASSUME NEW i \in DOMAIN toDialog', Heeded(i)' PROVE FALSE
  <2>1. PICK j \in DOMAIN toDialog', s \in 1 .. captureSession' :
          dialog # 0 /\ j < i /\ toDialog'[j] = Reply(dialog, s)
    BY <1>8, <1>10 DEF Heeded
  <2>2. s \in Nat /\ s > 0
    BY <1>9, <2>1
  <2>3. j # Len(toDialog')
    BY <1>7, <2>1 DEF Pushed
  <2>4. j \in DOMAIN toDialog /\ toDialog[j] = Reply(dialog, s)
    BY <1>7, <2>1, <2>3, PushedAt
  <2> QED BY <1>3, <2>1, <2>2, <2>4 DEF Live
<1> QED BY <1>4, <1>8, <1>10

LEMMA HeededPopped ==
  ASSUME HookTypeOK, Skips \/ \E d \in 1 .. MaxBegins, session \in Nat : Learns(d, session),
         SessionsAreTokens, NEW i \in DOMAIN toDialog', Heeded(i)'
  PROVE  Heeded(i + 1)
<1> USE DEF window, capture
<1>1. /\ captureSession \in Nat /\ toDialog \in Seq(Messages)
  BY DEF HookTypeOK, HotkeyTypeOK
<1>2. Popped(toDialog, toDialog') /\ Head(toDialog) = toDialog[1]
      /\ captureSession' = captureSession /\ dialog' = dialog
  BY <1>1, Popping DEF Skips, Learns
<1>3. i \in Nat /\ i >= 1 /\ 1 \in DOMAIN toDialog
  BY <1>2, PoppedAt
<1>4. CASE dialogSession' > 0 /\ dialogSession' # dialogSession
  <2>1. PICK d \in 1 .. MaxBegins, session \in Nat : Learns(d, session)
    BY <1>4 DEF Skips
  <2>2. dialog = d /\ dialogSession' = session /\ toDialog[1] = Reply(dialog, session)
    BY <1>2, <1>4, <2>1 DEF Learns
  <2>3. session \in 0 .. captureSession
    <3>1. toDialog[1][1] = "reply" /\ toDialog[1][3] = session
      BY <2>2, Heads
    <3> QED BY <1>3, <3>1 DEF SessionsAreTokens, Tokens
  <2>4. session \in 1 .. captureSession /\ 1 < i + 1 /\ dialog # 0
    BY <1>1, <1>3, <1>4, <2>1, <2>2, <2>3
  <2> QED BY <1>3, <2>2, <2>4 DEF Heeded
<1>5. CASE dialogSession' > 0 /\ dialogSession' = dialogSession
  BY <1>5 DEF Heeded
<1>6. ASSUME dialog # 0, NEW j \in DOMAIN toDialog', NEW s \in 1 .. captureSession, j < i,
             toDialog'[j] = Reply(dialog, s)
      PROVE  Heeded(i + 1)
  <2>1. j + 1 \in DOMAIN toDialog /\ toDialog[j + 1] = Reply(dialog, s) /\ j \in Nat
    BY <1>2, <1>6, PoppedAt
  <2>2. j + 1 < i + 1
    BY <1>3, <1>6, <2>1
  <2> QED BY <1>6, <2>1, <2>2 DEF Heeded
<1> QED BY <1>2, <1>4, <1>5, <1>6 DEF Heeded

(* Of the keys newly taken for held one more at most, and only if it is down. *)
LEMMA Listened ==
  ASSUME NEW key, NEW down, Listen(key, down), NEW k \in Fresh'
  PROVE  (k = key /\ down) \/ (k # key /\ k \in Fresh)
BY DEF Listen, Hear, HearDown, HearUp, machineVars, Fresh

LEMMA WindowHeard ==
  ASSUME Fresh \subseteq keysDown, dialogSession = 0, [ServiceNext]_serviceVars
  PROVE  Fresh' \subseteq keysDown'
<1> USE DEF listenVars, machineVars, hookVars
<1>1. CASE Fresh' = {} \/ UNCHANGED <<Fresh, keysDown>>
  BY <1>1
<1>2. ASSUME NEW key \in Keys, NEW down, KeyMoves(key, down), down \in {keysDown \cup {key},
             keysDown \ {key}}
      PROVE  Fresh' \subseteq keysDown'
  <2>1. keysDown' = down /\ Listen(key, key \in down)
    BY <1>2 DEF KeyMoves, HearWindow
  <2>2. ASSUME NEW k \in Fresh' PROVE k \in down
    <3>1. (k = key /\ key \in down) \/ (k # key /\ k \in keysDown)
      BY <2>1, <2>2 DEF Listen, Hear, HearDown, HearUp, Fresh
    <3> QED BY <1>2, <3>1
  <2>3. Fresh' \subseteq down
    BY <2>2
  <2> QED BY <2>1, <2>3
<1>3. CASE KeyStep
  BY <1>2, <1>3 DEF KeyStep, KeyDown, KeyUp
<1>4. CASE DialogHears
  <2>1. UNCHANGED <<Fresh, keysDown>>
    BY <1>4 DEF DialogHears, ReplyArrives, KeyArrives, EndedArrives, Fresh
  <2> QED BY <2>1
<1>5. CASE Rerecord \/ CloseDialog \/ RendererGone \/ EffectRunsAnew
           \/ \E mode \in Modes : OpenDialog(mode)
  <2>1. Fresh' = {}
    BY <1>5 DEF Rerecord, CloseDialog, Close, RendererGone, EffectRunsAnew, OpenDialog, Restart,
                ResetMachine, Fresh
  <2> QED BY <2>1
<1>6. CASE \/ UNCHANGED serviceVars \/ DrainEdge \/ GrantTrust \/ GateStarts \/ GateTick \/ SaveStep
           \/ MainServes \/ WatchdogFires
  <2>1. UNCHANGED <<Fresh, keysDown>>
    BY <1>6 DEF serviceVars, dialogVars, DrainEdge, GrantTrust, GateStarts, GateTick, SaveStep,
                SaveMode, MainServes, WatchdogFires, Fresh
  <2> QED BY <2>1
<1> QED BY <1>3, <1>4, <1>5, <1>6 DEF ServiceNext

LEMMA ReleasedKept ==
  ASSUME HookTypeOK, released => heard = {}, [ServiceNext]_serviceVars
  PROVE  released' => heard' = {}
<1>1. CASE UNCHANGED machineVars
  BY <1>1 DEF machineVars
<1>2. ASSUME NEW chord, Restart(chord) PROVE released' => heard' = {}
  BY <1>2 DEF Restart, ResetMachine
<1>3. ASSUME NEW key, NEW down, Listen(key, down) PROVE released' => heard' = {}
  BY <1>3 DEF Listen, Hear, HearDown, HearUp, machineVars
<1>4. CASE KeyStep
  BY <1>1, <1>3, <1>4 DEF KeyStep, KeyDown, KeyUp, KeyMoves, HearWindow, listenVars
<1>5. CASE DialogHears
  BY <1>1, <1>2, <1>3, <1>5 DEF DialogHears, ReplyArrives, KeyArrives, EndedArrives, Close,
                                    listenVars
<1>6. CASE Rerecord \/ CloseDialog \/ RendererGone \/ \E mode \in Modes : OpenDialog(mode)
  BY <1>2, <1>6 DEF Rerecord, CloseDialog, Close, RendererGone, OpenDialog
<1>7. CASE \/ UNCHANGED serviceVars \/ DrainEdge \/ GrantTrust \/ GateStarts \/ GateTick \/ SaveStep
           \/ MainServes \/ WatchdogFires \/ EffectRunsAnew
  BY <1>1, <1>7 DEF serviceVars, dialogVars, listenVars, DrainEdge, GrantTrust, GateStarts,
                    GateTick, SaveStep, SaveMode, MainServes, WatchdogFires, EffectRunsAnew
<1> QED BY <1>4, <1>5, <1>6, <1>7 DEF ServiceNext

LEMMA HeardKept ==
  ASSUME HookTypeOK, CaptureOwnsHook, DialogsInOrder, Heard, [ServiceNext]_serviceVars
  PROVE  Heard'
<1> USE DEF window
<1>1. NoSession = -1 /\ toDialog \in Seq(Messages)
  BY DEF NoSession, HookTypeOK
<1>2. CASE UNCHANGED dialogSession
  <2>1. CASE dialogSession = 0
    BY <1>1, <1>2, <2>1, WindowHeard DEF Heard
  <2>2. CASE dialogSession = NoSession
    <3>1. Fresh = {} /\ dialogSession # 0
      BY <1>1, <2>2 DEF Heard
    <3>2. Fresh' = {}
      <4>1. CASE Quiet
        BY <3>1, <4>1 DEF Quiet
      <4>2. CASE Skips
        <5>1. ~(dialogSession > 0)
          BY <1>1, <2>2
        <5> QED BY <3>1, <4>2, <5>1 DEF Skips
      <4>3. CASE SendsKey \/ Times \/ Opens \/ Closes \/ Dies
        BY <3>1, <4>3 DEF SendsKey, Times, Opens, Closes, Dies
      <4>4. ASSUME NEW d, NEW session, Answers(d) \/ Stops(session) \/ Learns(d, session)
            PROVE  Fresh' = {}
        BY <3>1, <4>4 DEF Answers, Stops, Learns
      <4> QED BY <4>1, <4>2, <4>3, <4>4, DialogSteps
    <3> QED BY <1>2, <3>1, <3>2 DEF Heard
  <2> QED BY <1>2, <2>1, <2>2 DEF Heard
<1>3. CASE ~UNCHANGED dialogSession
  <2>1. CASE Opens \/ Closes \/ Dies
    BY <2>1 DEF Opens, Closes, Dies, Heard
  <2>2. ASSUME NEW d \in 1 .. MaxBegins, NEW session \in Nat, Learns(d, session) PROVE Heard'
    <3>1. toDialog[1] = Reply(d, session) /\ 1 \in DOMAIN toDialog /\ Fresh' = Fresh
      BY <1>1, <2>2, Popping, PoppedAt DEF Learns
    <3>2. dialogSession = NoSession
      BY <3>1, Heads DEF DialogsInOrder, InOrder
    <3> QED BY <3>1, <3>2 DEF Heard
  <2> QED BY <1>3, <2>1, <2>2, DialogSteps DEF Quiet, SendsKey, Times, Skips, Answers, Stops
<1> QED BY <1>2, <1>3

LEMMA Edged ==
  ASSUME NEW edge \in Edges, NEW k, KeyEvent(edge) = KeyEvent(Down(k))
  PROVE  edge = Down(k)
<1>1. PICK key \in Keys : edge = <<key, TRUE>> \/ edge = <<key, FALSE>>
  <2>1. PICK key \in Keys, b \in BOOLEAN : edge = <<key, b>>
    BY DEF Edges
  <2>2. CASE b = TRUE
    BY <2>1, <2>2
  <2>3. CASE b = FALSE
    BY <2>1, <2>3
  <2> QED BY <2>2, <2>3
<1>2. KeyEvent(Down(k)) = <<"key", k, TRUE>>
  BY DEF KeyEvent, Down
<1>3. CASE edge = <<key, TRUE>>
  <2>1. KeyEvent(edge) = <<"key", key, TRUE>>
    BY <1>3 DEF KeyEvent
  <2>2. key = k
    BY <1>2, <2>1
  <2> QED BY <1>3, <2>2 DEF Down
<1>4. CASE edge = <<key, FALSE>>
  <2>1. KeyEvent(edge) = <<"key", key, FALSE>>
    BY <1>4 DEF KeyEvent
  <2>2. <<"key", key, FALSE>> # <<"key", k, TRUE>>
    OBVIOUS
  <2> QED BY <1>2, <2>1, <2>2
<1> QED BY <1>1, <1>3, <1>4

LEMMA HeededKept ==
  ASSUME HookTypeOK, HookIsThere, CaptureOwnsHook, OwnFlags, DialogsInOrder, SessionsAreTokens,
         LiveSessionOwns, QueueFollowsKeys, Heard, FollowsHeard, FollowsHeeded,
         [ServiceNext]_serviceVars
  PROVE  FollowsHeard' /\ FollowsHeeded'
<1> USE DEF window, capture
<1>1. /\ captureSession \in Nat /\ queue \in Seq(Edges) /\ toDialog \in Seq(Messages)
      /\ NoSession = -1 /\ Fresh \subseteq Keys
  BY DEF HookTypeOK, HotkeyTypeOK, MachineTypeOK, NoSession, Fresh
<1>2. /\ \A edge \in Edges : KeyEvent(edge) \in Messages
      /\ Ended \in Messages
  BY DEF Messages
<1>3. CASE Opens \/ Closes \/ Dies \/ \E d \in 1 .. MaxBegins : Answers(d)
  <2>1. dialogSession' = NoSession /\ \A i \in DOMAIN toDialog' : ~Heeded(i)'
    BY <1>3, NothingHeeded, AnswerHeeded
  <2>2. ~(dialogSession' > 0)
    BY <1>1, <2>1
  <2> QED BY <2>1, <2>2 DEF FollowsHeard, FollowsHeeded
<1>4. CASE Quiet \/ SendsKey \/ Times \/ \E session \in Nat : Stops(session)
  <2>1. UNCHANGED <<captureSession, dialog, dialogSession>>
    BY <1>4 DEF Quiet, SendsKey, Times, Stops
  <2>2. FollowsHeard'
    <3> SUFFICES ASSUME dialogSession' > 0, NEW k \in Fresh' PROVE Follows(k, 0)'
      BY DEF FollowsHeard
    <3>1. dialogSession > 0 /\ dialogSession # 0
      BY <2>1
    <3>2. k \in Fresh
      BY <1>4, <3>1 DEF Quiet, SendsKey, Times, Stops
    <3>3. Follows(k, 0)
      BY <3>1, <3>2 DEF FollowsHeard
    <3>4. PICK s \in 1 .. captureSession : Live(s)
      BY <3>1, HeededIsLive DEF Heeded
    <3>5. 0 \in Nat /\ 0 <= Len(toDialog) /\ ~(0 > 0) /\ k \in Keys
      BY <1>1, <3>2
    <3> QED BY <1>4, <3>3, <3>4, <3>5, FollowsKept
  <2>3. ASSUME NEW i \in DOMAIN toDialog, NEW k \in Keys, Heeded(i), toDialog[i] = KeyEvent(Down(k))
        PROVE  Follows(k, i)'
    <3>1. Follows(k, i)
      BY <2>3 DEF FollowsHeeded
    <3>2. PICK s \in 1 .. captureSession : Live(s)
      BY <2>3, HeededIsLive
    <3>3. i \in Nat /\ i <= Len(toDialog) /\ toDialog[i] # Ended
      BY <1>1, <2>3, Heads
    <3> QED BY <1>4, <3>1, <3>2, <3>3, FollowsKept
  <2>4. CASE UNCHANGED toDialog
    BY <2>1, <2>2, <2>3, <2>4 DEF FollowsHeeded, Heeded
  <2>5. ASSUME NEW m, Pushed(toDialog, toDialog', m),
               \A k \in Keys : m = KeyEvent(Down(k)) =>
                 k \in keysDown' \/ (capturing' /\ ReleaseQueued(k, 0)')
        PROVE  FollowsHeeded'
    <3> SUFFICES ASSUME NEW i \in DOMAIN toDialog', NEW k \in Keys, Heeded(i)',
                        toDialog'[i] = KeyEvent(Down(k))
                 PROVE  Follows(k, i)'
      BY DEF FollowsHeeded
    <3>1. CASE i \in DOMAIN toDialog /\ toDialog'[i] = toDialog[i]
      <4>1. ASSUME NEW j \in DOMAIN toDialog', NEW s \in 1 .. captureSession, j < i, dialog # 0,
                   toDialog'[j] = Reply(dialog, s)
            PROVE  Heeded(i)
        <5>1. j # Len(toDialog')
          BY <2>5, <3>1, <4>1 DEF Pushed
        <5>2. j \in DOMAIN toDialog /\ toDialog'[j] = toDialog[j]
          BY <2>5, <5>1, PushedAt
        <5> QED BY <4>1, <5>2 DEF Heeded
      <4>2. Heeded(i)
        BY <2>1, <4>1 DEF Heeded
      <4> QED BY <2>3, <3>1, <4>2
    <3>2. CASE toDialog'[i] = m
      BY <2>5, <3>2 DEF Follows
    <3> QED BY <2>5, <3>1, <3>2, PushedAt
  <2>6. CASE Times
    <3>1. Pushed(toDialog, toDialog', Ended) /\ \A k : Ended # KeyEvent(Down(k))
      BY <1>1, <1>2, <2>6, Pushing, Heads DEF Times
    <3> QED BY <2>2, <2>5, <3>1
  <2>7. CASE SendsKey
    <3>1. Popped(queue, queue') /\ Head(queue) = queue[1] /\ queue[1] \in Edges
          /\ 1 \in DOMAIN queue
      BY <1>1, <2>7, Popping, PoppedAt DEF SendsKey
    <3>2. Pushed(toDialog, toDialog', KeyEvent(queue[1]))
      BY <1>1, <1>2, <2>7, <3>1, Pushing DEF SendsKey
    <3>3. ASSUME NEW k \in Keys, KeyEvent(queue[1]) = KeyEvent(Down(k))
          PROVE  k \in keysDown' \/ (capturing' /\ ReleaseQueued(k, 0)')
      <4>1. queue[1] = Down(k)
        BY <3>1, <3>3, Edged
      <4>2. k \in keysDown \/ ReleaseQueued(k, 0 + 1)
        BY <3>1, <4>1 DEF QueueFollowsKeys
      <4>3. ReleaseQueued(k, 0 + 1) => ReleaseQueued(k, 0)'
        BY <3>1, ReleasePopped
      <4> QED BY <2>7, <4>2, <4>3 DEF SendsKey
    <3> QED BY <2>2, <2>5, <3>2, <3>3
  <2> QED BY <1>4, <2>2, <2>4, <2>6, <2>7 DEF Quiet, Stops
<1>5. CASE Skips \/ \E d \in 1 .. MaxBegins, session \in Nat : Learns(d, session)
  <2>1. /\ Popped(toDialog, toDialog') /\ Head(toDialog) = toDialog[1] /\ 1 \in DOMAIN toDialog
        /\ UNCHANGED <<keysDown, queue, capturing>>
    BY <1>1, <1>5, Popping, PoppedAt DEF Skips, Learns, keyboard
  <2>2. ASSUME NEW k, NEW i \in Nat, Follows(k, i + 1) PROVE Follows(k, i)'
    <3>1. k \in keysDown \/ (capturing /\ ReleaseQueued(k, 0)) \/ Told(k, i + 1)
      BY <2>2 DEF Follows, Told
    <3>2. Told(k, i + 1) => Told(k, i)'
      BY <2>1, ToldPopped
    <3> QED BY <2>1, <3>1, <3>2 DEF Follows, Told, ReleaseQueued
  <2>3. FollowsHeeded'
    <3> SUFFICES ASSUME NEW i \in DOMAIN toDialog', NEW k \in Keys, Heeded(i)',
                        toDialog'[i] = KeyEvent(Down(k))
                 PROVE  Follows(k, i)'
      BY DEF FollowsHeeded
    <3>1. i \in Nat /\ i + 1 \in DOMAIN toDialog /\ toDialog[i + 1] = toDialog'[i]
      BY <2>1, PoppedAt
    <3>2. Heeded(i + 1)
      BY <1>5, HeededPopped
    <3>3. Follows(k, i + 1)
      BY <3>1, <3>2 DEF FollowsHeeded
    <3> QED BY <2>2, <3>1, <3>3
  <2>4. ASSUME NEW d \in 1 .. MaxBegins, NEW session \in Nat, Learns(d, session)
        PROVE  FollowsHeard'
    <3>1. toDialog[1] = Reply(d, session) /\ Fresh' = Fresh
      BY <2>1, <2>4 DEF Learns
    <3>2. dialogSession = NoSession
      BY <2>1, <3>1, Heads DEF DialogsInOrder, InOrder
    <3> QED BY <3>1, <3>2 DEF Heard, FollowsHeard
  <2>5. ASSUME Skips PROVE FollowsHeard'
    <3> SUFFICES ASSUME dialogSession' > 0, NEW k \in Fresh' PROVE Follows(k, 0)'
      BY DEF FollowsHeard
    <3>1. dialogSession > 0 /\ Heeded(1)
      BY <2>5 DEF Skips, Heeded
    <3>2. PICK edge \in Edges : toDialog[1] = KeyEvent(edge) /\ Listen(edge[1], edge[2])
      <4>1. ~(dialogSession <= 0)
        BY <1>1, <3>1 DEF HookTypeOK, HotkeyTypeOK
      <4> QED BY <2>1, <2>5, <3>1, <4>1 DEF Skips
    <3>3. PICK key \in Keys, b \in BOOLEAN : edge = <<key, b>>
      BY DEF Edges
    <3>4. Listen(key, b) /\ KeyEvent(edge)[2] = key /\ KeyEvent(edge)[1] = "key"
      BY <3>2, <3>3 DEF KeyEvent
    <3>5. Follows(k, 0 + 1)
      <4>1. CASE k = key
        <5>1. b = TRUE
          BY <3>4, <4>1, Listened
        <5>2. toDialog[1] = KeyEvent(Down(k))
          BY <3>2, <3>3, <4>1, <5>1 DEF Down
        <5> QED BY <2>1, <3>1, <4>1, <5>2 DEF FollowsHeeded
      <4>2. CASE k # key
        <5>1. k \in Fresh
          BY <3>4, <4>2, Listened
        <5>2. Follows(k, 0)
          BY <3>1, <5>1 DEF FollowsHeard
        <5>3. toDialog[1] \notin {KeyEvent(Up(k)), Ended}
          <6>1. KeyEvent(Up(k))[2] = k /\ Ended[1] = "ended"
            BY DEF KeyEvent, Up, Ended
          <6> QED BY <3>2, <3>4, <4>2, <6>1
        <5>4. Told(k, 0) => Told(k, 1)
          BY <5>3, ToldFirst
        <5> QED BY <5>2, <5>4 DEF Follows, Told
      <4> QED BY <4>1, <4>2
    <3> QED BY <2>2, <3>5
  <2> QED BY <1>5, <2>3, <2>4, <2>5
<1> QED BY <1>3, <1>4, <1>5, DialogSteps

-----------------------------------------------------------------------------
(* The theorems.                                                            *)
LEMMA Beginning ==
  ASSUME ServiceInit
  PROVE  HookInd /\ DialogInd /\ KeysInd
<1> USE DEF ServiceInit
<1>1. HookTypeOK
  BY TypeInit
<1>2. HookIsThere /\ BindingsFollowStore /\ CaptureOwnsHook
  BY DEF HookIsThere, BindingsFollowStore, CaptureOwnsHook, RuntimeInit
<1>3. DOMAIN queue = {} /\ DOMAIN toMain = {} /\ DOMAIN toDialog = {} /\ dialogSession = -1
  BY DEF NoSession
<1>4. DialogsInOrder
  BY <1>3 DEF DialogsInOrder, InOrder
<1>5. SessionsAreTokens
  BY <1>3 DEF SessionsAreTokens, Tokens, NoSession
<1>6. LiveSessionOwns
  BY DEF LiveSessionOwns
<1>7. Matched(bindings, held) = {} /\ held = {} /\ pressedChords = {}
  BY DEF RuntimeInit, Matched, NoChords
<1>8. QueueFollowsKeys /\ HeldFollowsKeys
  BY <1>3, <1>7 DEF QueueFollowsKeys, HeldFollowsKeys
<1>9. heard = {} /\ Fresh = {}
  BY DEF MachineInit, Fresh
<1>10. FollowsHeeded /\ FollowsHeard /\ Heard
  BY <1>3, <1>9 DEF FollowsHeeded, FollowsHeard, Heard
<1> QED BY <1>1, <1>2, <1>4, <1>5, <1>6, <1>8, <1>9, <1>10 DEF HookInd, DialogInd, KeysInd

LEMMA DialogStep ==
  ASSUME HookInd, DialogInd, [ServiceNext]_serviceVars
  PROVE  HookInd' /\ DialogInd'
<1> USE DEF HookInd, DialogInd
<1>1. HookInd'
  BY TypesKept, HookThereKept, BindingsKept, CaptureKept
<1>2. DialogInd'
  BY OrderKept, TokensKept, LiveKept
<1> QED BY <1>1, <1>2

LEMMA KeysStep ==
  ASSUME OwnFlags, HookInd, DialogInd, KeysInd, [ServiceNext]_serviceVars
  PROVE  KeysInd'
<1> USE DEF HookInd, DialogInd, KeysInd
<1>1. QueueFollowsKeys' /\ HeldFollowsKeys'
  BY QueueKept, HeldKept
<1>2. FollowsHeeded' /\ FollowsHeard' /\ Heard'
  BY HeededKept, HeardKept
<1>3. released' => heard' = {}
  BY ReleasedKept
<1> QED BY <1>1, <1>2, <1>3

(* Whatever flags the keys share: the hook is the capture's alone, the live  *)
(* chords are the stored ones, and a live session of the dialog holds the    *)
(* hook or the dialog will be told that it ended.                           *)
THEOREM DialogInductive == ServiceSpec => [](HookInd /\ DialogInd)
<1>1. ServiceInit => HookInd /\ DialogInd
  BY Beginning
<1>2. HookInd /\ DialogInd /\ [ServiceNext]_serviceVars => (HookInd /\ DialogInd)'
  BY DialogStep
<1> QED BY <1>1, <1>2, PTL DEF ServiceSpec

(* With a flag for each key: what the queue, the matcher and the dialog owe  *)
(* the keys, too.  The dialog owes nothing to the keys it held when it asked *)
(* anew for the capture, until it hears of them again.                      *)
THEOREM KeysInductive == OwnFlags /\ ServiceSpec => [](HookInd /\ DialogInd /\ KeysInd)
<1> SUFFICES ASSUME OwnFlags PROVE ServiceSpec => [](HookInd /\ DialogInd /\ KeysInd)
  OBVIOUS
<1>1. ServiceInit => HookInd /\ DialogInd /\ KeysInd
  BY Beginning
<1>2. HookInd /\ DialogInd /\ KeysInd /\ [ServiceNext]_serviceVars
      => (HookInd /\ DialogInd /\ KeysInd)'
  BY DialogStep, KeysStep
<1> QED BY <1>1, <1>2, PTL DEF ServiceSpec

(* In every state, if each key has a flag of its own: the next press of a    *)
(* chord is seen as one, the live chords are the stored ones, a capture has  *)
(* the hook to itself, and the dialog takes no key for held that is up and   *)
(* stays so unheard: its release, or the end of the capture, is on its way.  *)
(* Excepted are the keys it held when its effect ran anew, of which nothing  *)
(* is claimed until it hears of them again.                                 *)
THEOREM HotkeySafe == OwnFlags /\ ServiceSpec => []HotkeyInv
<1>1. ASSUME HookInd, DialogInd, KeysInd PROVE HotkeyInv
  <2> USE <1>1 DEF HookInd, DialogInd, KeysInd
  <2>1. NextPressIsSeen
    <3> SUFFICES ASSUME NEW mode \in pressedChords, NEW key \in bindings[mode]
                 PROVE  key \in keysDown \/ \E i \in DOMAIN queue : queue[i] = <<key, FALSE>>
      BY DEF NextPressIsSeen
    <3>1. key \in held
      BY DEF HeldFollowsKeys, Matched
    <3> QED BY <3>1 DEF HeldFollowsKeys, ReleaseQueued, Up
  <2>2. DialogSeesKeys
    <3> SUFFICES ASSUME NEW key \in Fresh PROVE ReleaseWillBeHeard(key)
      BY DEF DialogSeesKeys, Fresh
    <3>1. dialogSession = NoSession \/ dialogSession = 0 \/ dialogSession > 0
      BY DEF HookTypeOK, HotkeyTypeOK
    <3>2. CASE dialogSession = NoSession \/ dialogSession = 0
      BY <3>2 DEF Heard, ReleaseWillBeHeard
    <3>3. CASE dialogSession > 0
      BY <3>3 DEF FollowsHeard, Follows, ReleaseQueued, Up, ReleaseWillBeHeard
    <3> QED BY <3>1, <3>2, <3>3
  <2> QED BY <2>1, <2>2 DEF HotkeyInv, HookTypeOK
<1> QED BY <1>1, KeysInductive, PTL

(* Whatever flags the keys share: what main reads from the dialogs, late     *)
(* ends of their captures included, takes no hook away from the dialog that  *)
(* is open and owns it.                                                     *)
THEOREM LateEndIgnored == ServiceSpec => LateEndIsIgnored
<1>1. ASSUME HookInd, DialogInd, [ServiceNext]_serviceVars, DialogOwnsCapture,
             dialog' = dialog, toMain' # toMain
      PROVE  DialogOwnsCapture'
  <2> USE <1>1 DEF HookInd, DialogInd, window, capture
  <2>1. /\ captureSession \in Nat /\ toMain \in Seq(Requests) /\ toDialog \in Seq(Messages)
        /\ dialog # 0 /\ capturing /\ captureSession > 0
    BY DEF HookTypeOK, HotkeyTypeOK, DialogOwnsCapture, HookIsThere
  <2>2. Live(captureSession)
    BY DEF DialogOwnsCapture, Live
  <2>3. ASSUME NEW d \in 1 .. MaxBegins, Answers(d) PROVE FALSE
    <3>1. toMain[1] = <<"begin", d>> /\ 1 \in DOMAIN toMain
      BY <2>1, <2>3, Popping, PoppedAt DEF Answers
    <3> QED BY <2>1, <2>2, <3>1, NoneLive
  <2>4. ASSUME NEW session \in Nat, Stops(session) PROVE DialogOwnsCapture'
    <3>1. toMain[1] = <<"end", session>> /\ 1 \in DOMAIN toMain
      BY <2>1, <2>4, Popping, PoppedAt DEF Stops
    <3>2. session # captureSession
      BY <2>1, <2>2, <3>1, LiveIsKnown
    <3> QED BY <2>4, <3>2 DEF Stops, DialogOwnsCapture
  <2>5. ASSUME NEW d \in 1 .. MaxBegins, NEW session \in Nat, Learns(d, session)
        PROVE  DialogOwnsCapture'
    <3>1. /\ dialog # d /\ Head(toDialog) = Reply(d, session) /\ toDialog' = Tail(toDialog)
          /\ toDialog # <<>> /\ UNCHANGED <<capturing, captureSession, dialogSession>>
      BY <2>5 DEF Learns
    <3>2. Popped(toDialog, toDialog') /\ toDialog[1] = Reply(d, session)
      BY <2>1, <3>1, Popping
    <3>3. ASSUME NEW i \in DOMAIN toDialog, toDialog[i] = Reply(dialog, captureSession)
          PROVE  \E j \in DOMAIN toDialog' : toDialog'[j] = Reply(dialog, captureSession)
      <4>1. Reply(d, session)[2] = d /\ Reply(dialog, captureSession)[2] = dialog
        BY Heads
      <4>2. i # 1
        BY <3>1, <3>2, <3>3, <4>1
      <4> QED BY <3>2, <3>3, <4>2, PoppedAt
    <3> QED BY <1>1, <3>1, <3>3 DEF DialogOwnsCapture
  <2>6. ~Opens
    <3>1. dialog <= begins /\ begins \in Nat /\ dialog \in Nat
      BY DEF HookTypeOK, HotkeyTypeOK
    <3> QED BY <3>1 DEF Opens
  <2>7. ~Quiet /\ ~SendsKey /\ ~Times /\ ~Closes /\ ~Skips /\ ~Dies
    BY <2>1 DEF Quiet, SendsKey, Times, Closes, Skips, Dies
  <2> QED BY <2>3, <2>4, <2>5, <2>6, <2>7, DialogSteps
<1>2. HookInd /\ DialogInd /\ [ServiceNext]_serviceVars
      => [DialogOwnsCapture /\ dialog' = dialog /\ toMain' # toMain
          => DialogOwnsCapture']_serviceVars
  BY <1>1
<1> QED BY <1>2, DialogInductive, PTL DEF ServiceSpec, LateEndIsIgnored
=============================================================================
