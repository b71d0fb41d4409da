--------------------------- MODULE HotkeyService ---------------------------
(***************************************************************************)
(* The global hotkey from the keyboard to the chord runtime: the native     *)
(* hook with its event queue, the permission gate that installs it, the     *)
(* saved modes that rebind it, and the key-capture sessions that the        *)
(* binding dialog of the main window takes out on it over IPC.              *)
(***************************************************************************)
EXTENDS CaptureMachine, Sequences

CONSTANTS
  Family,       \* Family[k]: the flag of the hook's event that tells key k
  MaxQueue,     \* bound: key edges on their way through the hook and the window
  MaxBegins     \* bound: how often a binding dialog asks for a capture

ASSUME FamilyAssumption == DOMAIN Family = Keys
ASSUME BeginsAssumption == MaxBegins \in Nat
ASSUME QueueAssumption == MaxQueue \in Nat

VARIABLES
  keysDown,        \* the modifier keys that are physically down
  queue,           \* the hook's edges, in order
  trusted,         \* the user granted Accessibility
  gate,            \* the permission gate: idle before the start, polling, done
  installed,       \* the hook is installed and feeds the runtime
  saved,           \* the hotkeys of the stored modes
  capturing, captureSession,
  watchdog,        \* the capture session of the armed watchdog, or 0
  begins,          \* how often a dialog asked for a capture
  dialog,          \* the last of them if its dialog is still open, or 0
  dialogSession,   \* the capture session once the reply to it came
  missed,          \* history: keys the machine held when the dialog asked anew,
                   \* and has not heard of since
  toMain, toDialog \* the IPC messages and replies on their way

hookVars == <<keysDown, queue, trusted, gate, installed>>
captureVars == <<capturing, captureSession, watchdog>>
listenVars == <<machineVars, missed>>
dialogVars == <<begins, dialog, dialogSession, toMain, toDialog, listenVars>>
serviceVars == <<runtimeVars, hookVars, saved, captureVars, dialogVars>>

NoSession == -1

Edges == Keys \X BOOLEAN
Requests == ({"begin"} \X (1 .. MaxBegins)) \cup ({"end"} \X Nat)
Reply(d, session) == <<"reply", d, session>>
KeyEvent(edge) == <<"key", edge[1], edge[2]>>
Ended == <<"ended", 0, 0>>     \* the watchdog's notice, which names no session

HotkeyTypeOK ==
  /\ RuntimeTypeOK
  /\ keysDown \subseteq Keys
  /\ queue \in Seq(Edges)
  /\ trusted \in BOOLEAN /\ gate \in {"idle", "polling", "done"} /\ installed \in BOOLEAN
  /\ saved \in Chords
  /\ capturing \in BOOLEAN /\ captureSession \in Nat /\ watchdog \in Nat
  /\ begins \in 0 .. MaxBegins /\ dialog \in 0 .. begins
  /\ dialogSession \in Nat \cup {NoSession}
  /\ toMain \in Seq(Requests)
  /\ MachineTypeOK /\ missed \subseteq Keys

(* The stored modes begin with disjoint hotkeys (the seed), and the hook is *)
(* not installed.                                                           *)
ServiceInit ==
  /\ RuntimeInit
  /\ keysDown = {} /\ queue = <<>>
  /\ trusted \in BOOLEAN
  /\ gate = "idle"
  /\ installed = FALSE
  /\ saved \in {chords \in Chords : Disjoint(chords)}
  /\ capturing = FALSE /\ captureSession = 0 /\ watchdog = 0
  /\ begins = 0 /\ dialog = 0 /\ dialogSession = NoSession
  /\ MachineInit /\ missed = {}
  /\ toMain = <<>> /\ toDialog = <<>>

-----------------------------------------------------------------------------
(* The keyboard and the hook.                                              *)

(* The edge the hook reports when `key` moved and `down` are down: macOS    *)
(* tells down from up by the flag of the key's family.                      *)
Edge(key, down) == <<key, \E k \in down : Family[k] = Family[key]>>

(* The machine of the dialog is fed, or reset.                              *)
Listen(key, down) == Hear(key, down) /\ missed' = missed \ {key}
Restart(chord) == ResetMachine(chord) /\ missed' = {}

(* Without a hook the dialog listens to its own window, which tells the two  *)
(* keys of a family apart.                                                  *)
HearWindow(key, down) ==
  IF dialogSession = 0 THEN Listen(key, key \in down) ELSE UNCHANGED listenVars

KeyMoves(key, down) ==
  /\ keysDown' = down
  /\ IF installed
     THEN Len(queue) + Len(toDialog) < MaxQueue /\ queue' = Append(queue, Edge(key, down))
     ELSE UNCHANGED queue
  /\ HearWindow(key, down)
  /\ UNCHANGED <<runtimeVars, trusted, gate, installed, saved, captureVars,
                 begins, dialog, dialogSession, toMain, toDialog>>

KeyDown(key) == key \notin keysDown /\ KeyMoves(key, keysDown \cup {key})
KeyUp(key) == key \in keysDown /\ KeyMoves(key, keysDown \ {key})

(* The drain timer hands one edge to the service: to the capture, which     *)
(* re-arms its watchdog and sends the key to the window, or to the runtime. *)
DrainEdge ==
  /\ queue # <<>>
  /\ queue' = Tail(queue)
  /\ IF capturing
     THEN /\ watchdog' = captureSession
          /\ toDialog' = Append(toDialog, KeyEvent(Head(queue)))
          /\ UNCHANGED runtimeVars
     ELSE Feed(Head(queue)[1], Head(queue)[2]) /\ UNCHANGED <<watchdog, toDialog>>
  /\ UNCHANGED <<keysDown, trusted, gate, installed, saved, capturing,
                 captureSession, begins, dialog, dialogSession, toMain, listenVars>>

GrantTrust ==
  /\ ~trusted
  /\ trusted' = TRUE
  /\ UNCHANGED <<runtimeVars, keysDown, queue, gate, installed, saved,
                 captureVars, dialogVars>>

(* tryInstallIfTrusted, with install: unless the chords are refused, a      *)
(* fresh runtime takes over with an empty event queue.                      *)
TryInstall ==
  /\ trusted /\ Disjoint(saved)
  /\ installed' = TRUE
  /\ gate' = "done"
  /\ queue' = <<>>
  /\ bindings' = saved
  /\ held' = {} /\ pressedChords' = {} /\ chordMode' = NoMode

(* The gate's first try.  Without trust, or when the system refuses the tap *)
(* all the same, it asks the user and polls from then on.                   *)
GateStarts ==
  /\ gate = "idle"
  /\ \/ TryInstall
     \/ gate' = "polling" /\ UNCHANGED <<runtimeVars, queue, installed>>
  /\ UNCHANGED <<keysDown, trusted, saved, captureVars, dialogVars>>

GateTick ==
  /\ gate = "polling"
  /\ TryInstall
  /\ UNCHANGED <<keysDown, trusted, saved, captureVars, dialogVars>>

-----------------------------------------------------------------------------
(* save_mode and delete_mode.                                              *)

Conflicts(mode, chord) == {n \in Modes \ {mode} : saved[n] \cap chord # {}}

(* Store a mode; those it takes a key from lose their hotkey.              *)
Store(mode, chord) ==
  saved' = [n \in Modes |-> IF n = mode THEN chord
                            ELSE IF n \in Conflicts(mode, chord) THEN {}
                            ELSE saved[n]]

(* applyBindings: read the modes anew; the old chords stay when the new     *)
(* ones overlap.                                                           *)
ApplyBindings == SetBindings(saved')

(* rebind: nothing before the hook is installed.                           *)
Rebind == IF installed THEN ApplyBindings ELSE UNCHANGED matcherVars

(* A conflict under the policy `reject` throws before anything is stored.   *)
(* The running toggle is left alone.                                        *)
SaveMode(mode, chord, policy) ==
  /\ policy = "steal" \/ Conflicts(mode, chord) = {}
  /\ Store(mode, chord)
  /\ Rebind
  /\ UNCHANGED <<chordMode, hookVars, captureVars, dialogVars>>

-----------------------------------------------------------------------------
(* Capture sessions, in the main process.                                  *)

TeardownCapture ==
  /\ capturing' = FALSE
  /\ watchdog' = 0
  /\ ClearHeld
  /\ ResetCoordinator
  /\ UNCHANGED bindings

(* Mutant of TakeHook: a running toggle is left on.                        *)
TakeHookOnly ==
  /\ capturing' = TRUE
  /\ captureSession' = captureSession + 1
  /\ watchdog' = captureSession'
  /\ UNCHANGED <<matcherVars, chordMode>>
TakeHook ==
  /\ capturing' = TRUE
  /\ captureSession' = captureSession + 1
  /\ watchdog' = captureSession'
  /\ ClearHeld
  /\ ResetCoordinator
  /\ UNCHANGED bindings

(* beginCapture, and its reply: session 0 means no hook.                   *)
BeginCapture(d) ==
  IF installed
  THEN TakeHook /\ toDialog' = Append(toDialog, Reply(d, captureSession'))
  ELSE /\ toDialog' = Append(toDialog, Reply(d, 0))
       /\ UNCHANGED <<runtimeVars, captureVars>>

(* Mutant of EndCapture: whatever session it names.                        *)
EndAnyCapture(session) ==
  /\ IF capturing
     THEN TeardownCapture ELSE UNCHANGED <<runtimeVars, capturing, watchdog>>
  /\ UNCHANGED <<captureSession, toDialog>>

(* endCapture of a session that is not the current one does nothing.        *)
EndCapture(session) ==
  /\ IF capturing /\ session = captureSession
     THEN TeardownCapture ELSE UNCHANGED <<runtimeVars, capturing, watchdog>>
  /\ UNCHANGED <<captureSession, toDialog>>

MainServes ==
  /\ toMain # <<>>
  /\ toMain' = Tail(toMain)
  /\ \/ Head(toMain)[1] = "begin" /\ BeginCapture(Head(toMain)[2])
     \/ Head(toMain)[1] = "end" /\ EndCapture(Head(toMain)[2])
  /\ UNCHANGED <<hookVars, saved, begins, dialog, dialogSession, listenVars>>

(* Mutant of WatchdogFires: the window is not told.                        *)
WatchdogSilent ==
  /\ watchdog # 0
  /\ IF capturing /\ watchdog = captureSession
     THEN TeardownCapture
     ELSE watchdog' = 0 /\ UNCHANGED <<runtimeVars, capturing>>
  /\ UNCHANGED <<captureSession, hookVars, saved, dialogVars>>

(* The watchdog of an older session does nothing.                          *)
WatchdogFires ==
  /\ watchdog # 0
  /\ IF capturing /\ watchdog = captureSession
     THEN TeardownCapture /\ toDialog' = Append(toDialog, Ended)
     ELSE watchdog' = 0 /\ UNCHANGED <<runtimeVars, capturing, toDialog>>
  /\ UNCHANGED <<captureSession, hookVars, saved, begins, dialog, dialogSession,
                 toMain, listenVars>>

-----------------------------------------------------------------------------
(* The binding dialog, in the main window.                                 *)

(* endCurrentCapture: only of a session whose reply came.                   *)
EndAsked == IF dialogSession = NoSession THEN toMain
            ELSE Append(toMain, <<"end", dialogSession>>)

(* The dialog of a mode starts on the chord the mode has.                  *)
OpenDialog(mode) ==
  /\ dialog = 0 /\ begins < MaxBegins
  /\ begins' = begins + 1
  /\ dialog' = begins'
  /\ toMain' = Append(toMain, <<"begin", dialog'>>)
  /\ dialogSession' = NoSession /\ Restart(saved[mode])
  /\ UNCHANGED <<runtimeVars, hookVars, saved, captureVars, toDialog>>

(* The effect of an open dialog that asks for the capture runs anew         *)
(* whenever its callbacks change, as with a page rendered again or a save   *)
(* under way: the session it knows is ended, another asked for, and the     *)
(* machine left as it is.                                                   *)
EffectRunsAnew ==
  /\ dialog # 0 /\ begins < MaxBegins
  /\ begins' = begins + 1
  /\ dialog' = begins'
  /\ dialogSession' = NoSession
  /\ toMain' = Append(EndAsked, <<"begin", dialog'>>)
  /\ missed' = heard
  /\ UNCHANGED <<runtimeVars, hookVars, saved, captureVars, toDialog, machineVars>>

(* Mutant of ReplyArrives: an unmounted effect ends nothing.               *)
ReplyForgotten(d, session) ==
  /\ dialogSession' = IF dialog = d THEN session ELSE dialogSession
  /\ UNCHANGED <<dialog, listenVars, toMain>>

(* The reply reaches the effect that asked for it, or is ended at once when *)
(* that was unmounted: its dialog closed, or asked anew.                    *)
ReplyArrives(d, session) ==
  /\ \/ /\ dialog = d
        /\ dialogSession' = session
        /\ UNCHANGED toMain
     \/ /\ dialog # d
        /\ toMain' = Append(toMain, <<"end", session>>)
        /\ UNCHANGED dialogSession
  /\ UNCHANGED <<dialog, listenVars>>

(* close and the unmount that follows.                                     *)
Close ==
  /\ dialog' = 0
  /\ dialogSession' = NoSession
  /\ toMain' = EndAsked
  /\ Restart({})

(* feedCaptureKey: a dialog listens to main once its capture is active.     *)
KeyArrives(key, down) ==
  /\ IF dialogSession > 0 THEN Listen(key, down) ELSE UNCHANGED listenVars
  /\ UNCHANGED <<dialog, dialogSession, toMain>>

EndedArrives ==
  IF dialogSession > 0 THEN Close
                       ELSE UNCHANGED <<dialog, dialogSession, toMain, listenVars>>

DialogHears ==
  /\ toDialog # <<>>
  /\ toDialog' = Tail(toDialog)
  /\ LET message == Head(toDialog)
     IN \/ message[1] = "reply" /\ ReplyArrives(message[2], message[3])
        \/ message[1] = "key" /\ KeyArrives(message[2], message[3])
        \/ message[1] = "ended" /\ EndedArrives
  /\ UNCHANGED <<runtimeVars, hookVars, saved, captureVars, begins>>

(* Escape, a click outside, blur, the timeout, a saved chord: close.       *)
CloseDialog ==
  /\ dialog # 0
  /\ Close
  /\ UNCHANGED <<runtimeVars, hookVars, saved, captureVars, begins, toDialog>>

(* Record again, offered once a chord is complete.                         *)
Rerecord ==
  /\ dialog # 0 /\ released
  /\ Restart({})
  /\ UNCHANGED <<runtimeVars, hookVars, saved, captureVars, begins, dialog,
                 dialogSession, toMain, toDialog>>

(* forceEndCapture: whatever session holds the hook.                       *)
ForceEndCapture ==
  IF capturing
  THEN captureSession' = captureSession + 1 /\ TeardownCapture
  ELSE UNCHANGED <<runtimeVars, captureVars>>

(* The window's renderer died, and its messages with it.                    *)
RendererGone ==
  /\ dialog # 0
  /\ dialog' = 0 /\ dialogSession' = NoSession
  /\ Restart({})
  /\ toMain' = <<>> /\ toDialog' = <<>>
  /\ ForceEndCapture
  /\ UNCHANGED <<hookVars, saved, begins>>

-----------------------------------------------------------------------------
KeyStep == \E key \in Keys : KeyDown(key) \/ KeyUp(key)

SaveStep ==
  \E mode \in Modes, chord \in SUBSET Keys, policy \in {"reject", "steal"} :
    SaveMode(mode, chord, policy)

ServiceNext ==
  \/ KeyStep \/ DrainEdge
  \/ GrantTrust \/ GateStarts \/ GateTick
  \/ SaveStep
  \/ MainServes \/ WatchdogFires
  \/ \E mode \in Modes : OpenDialog(mode)
  \/ EffectRunsAnew \/ DialogHears \/ Rerecord \/ CloseDialog \/ RendererGone

ServiceSpec == ServiceInit /\ [][ServiceNext]_serviceVars

(* Both ends of the IPC are served.  The watchdog gets no fairness: every   *)
(* key edge arms it anew.                                                   *)
ServiceFairSpec ==
  /\ ServiceSpec
  /\ WF_serviceVars(MainServes)
  /\ WF_serviceVars(DialogHears)

-----------------------------------------------------------------------------
(* A chord counts as pressed only while its keys are down, or their         *)
(* release is on its way: the next full press of it is seen as a press.     *)
(* A key that stayed held after its release (over a capture, a rebinding,   *)
(* or a twin of its family) would swallow the user's next gesture.          *)
NextPressIsSeen ==
  \A mode \in pressedChords : \A key \in bindings[mode] :
    key \in keysDown \/ \E i \in DOMAIN queue : queue[i] = <<key, FALSE>>

(* The live chords are the stored ones, and no two overlap: no save leaves  *)
(* the runtime on stale or refused bindings.                                *)
BindingsFollowStore ==
  Disjoint(saved) /\ (installed => bindings = saved)

(* A capture has the hook to itself, under its own watchdog: nothing is     *)
(* held or toggled on from before, so nothing fires when it ends.           *)
CaptureOwnsHook ==
  capturing => /\ installed
               /\ watchdog = captureSession
               /\ held = {} /\ pressedChords = {} /\ chordMode = NoMode

(* The key is down, or its release, or the end of the capture that swallows *)
(* it, is on its way to the dialog.                                         *)
ReleaseWillBeHeard(key) ==
  \/ key \in keysDown
  \/ \E i \in DOMAIN queue : queue[i] = <<key, FALSE>> /\ capturing
  \/ \E i \in DOMAIN toDialog : toDialog[i] \in {KeyEvent(<<key, FALSE>>), Ended}

(* The dialog takes no key for held that is up, but one it held when it     *)
(* asked anew for the capture and has not heard of since.  A chord can be   *)
(* saved only when no key is taken for held any more.                       *)
DialogSeesKeys ==
  /\ released => heard = {}
  /\ \A key \in heard \ missed : ReleaseWillBeHeard(key)

(* Not so for every key it takes for held: the release of one of `missed`   *)
(* may fall between the two captures, and the chord then waits for a key    *)
(* that is up.                                                              *)
EveryReleaseIsHeard == \A key \in heard : ReleaseWillBeHeard(key)

(* The parts above, in every state.                                        *)
HotkeyInv ==
  /\ HotkeyTypeOK
  /\ NextPressIsSeen
  /\ BindingsFollowStore
  /\ CaptureOwnsHook
  /\ DialogSeesKeys

(* Once no dialog is open the hook is soon given back, whatever the order   *)
(* of the open, the reply and the close, and without the watchdog's help.   *)
CaptureEndsWithDialog == (dialog = 0) ~> (~capturing \/ dialog # 0)

(* A dialog whose capture was ended under it learns so: it does not stay    *)
(* open listening for keys that go to the runtime instead, where they would *)
(* dictate.  Until the reply to a begin it has no capture, and they do.     *)
DialogLearnsTheEnd ==
  (dialogSession > 0 /\ ~(capturing /\ dialogSession = captureSession))
    ~> dialogSession <= 0

(* The end of an older capture, late because its dialog closed or asked     *)
(* anew before the reply to its begin, does not end the capture of the      *)
(* dialog now open.                                                         *)
DialogOwnsCapture ==
  /\ capturing /\ dialog # 0
  /\ \/ dialogSession = captureSession
     \/ \E i \in DOMAIN toDialog : toDialog[i] = Reply(dialog, captureSession)
LateEndIsIgnored ==
  [][DialogOwnsCapture /\ dialog' = dialog /\ toMain' # toMain
     => DialogOwnsCapture']_serviceVars
=============================================================================
