# A formal model of Soto

Soto is an Electron desktop application for dictation: the user presses a chord,
speaks, presses it again, and the recognised text is typed into the application
in front. This directory holds TLA+ modules translated from the source, TLC
configurations that check them on small instances, and proofs that TLAPS checks
for every value of the constants. `PROJECT.json` maps each definition to the
lines it stands for, and lists the runs, the hazards of the code and the theorems.

## 1. The system

Four parties matter. The **main process** owns sessions, hotkeys, windows, the
store and the native calls. The **capsule renderer** owns the microphone and the
notice above the capsule. The **main window's renderer** owns the pages: models,
modes, history. **Native code** (Swift, C#) delivers key events, mutes the device,
pastes text and reads the focused control. Each process is one event loop: a handler
runs to its end, and everything hard comes from what happens between two of its awaits.

```
 key edges -> HotkeyService -> HotkeyRuntime(ChordMatcher, Coordinator)
                  ^                  | start / finish
   binding dialog |                  v
   (main window)  |         SessionController ----> media mute (native)
                  |           |      |      \
  modes, models,  |  begin/finish/   |       `--> runResolvedSession: target context
  history pages --+  cancel   |      |            -> provider -> injector -> history
        ^                     v      v            -> post-insert observer
        |           capture driver   capsule overlay <-> panel notice (renderer)
        `-- store   MicCapture, cue gate  (window, timers, place, Dock)
```

| component | state it keeps | operations | what makes it correct |
|---|---|---|---|
| session controller (`main/voice/sessionController.ts`) | the active session, a generation, the recording machine, slow timers, the thinking floor, the attention flag, one dispose slot | start, finish, cancel, notice dismissal, capture started / audio / error, and the run after the audio | a run that a newer session has overtaken is silent; the slot is always freed; the device is never left muted |
| voice pipeline (`core/domain/voice/runVoiceSession.ts`) | one run per session: several may be alive | context, model, insertion floor, inject, history, observe, terminal floor | text is typed only for the newest session; an outcome is said once, at the end |
| target context (`main/context/acquireTargetContext.ts`) | stages under one deadline, one accessibility call in flight | app, focused control, title | a context once acquired stays; nothing is read of a secure field; a hung call ends no dictation |
| engine, providers, realtime socket (`core/capabilities`, `main/runtime`) | a request or a socket, a settled flag | ask, open, configure, complete, fail, dispose | settles once, ends, and history tells what happened |
| hotkey coordinator and runtime (`core/domain/hotkey`) | the mode that is toggled on | press, reset | the chord that started a recording stops it |
| hotkey service and dialog (`main/triggers/hotkeyService.ts`, `features/modes/editor`) | installed runtime, key-capture session, watchdog; the dialog's machine | install, rebind, begin/end capture, keys, record again | a capture cannot disturb a recording; an old watchdog or a late end cannot end a newer capture; a dialog whose capture was ended learns so |
| capsule overlay (`main/windows/capsuleOverlay.ts`) | pending hide, paused hide, epoch | show, schedule, expedite, pause, resume | no old timer hides a new session; the capsule goes away |
| panel notices (`core/domain/capsule/panelState.ts`, `usePanelNotice.ts`) | the notice, its timer, the exit | push, hover, dismiss, clear | main's hide and the renderer's dismissal, timed apart, agree |
| media mute (`core/domain/voice/mediaMute.ts`) | engaged, what it found before | engage, release | the user's own setting survives failures and the volume keys |
| capture driver and microphone (`renderer/features/capsule`) | the capture and session refs, the stream, the cue gate | begin, finish, cancel, each with awaits | every finish is answered, no microphone stays open |
| post-insert observation (`main/observation`) | one active observer, its claim | start, poll, observe, cancel | one terminal status per history entry |
| injector and clipboard lease (`main/native`) | the lease, the saved clipboard | prepare, paste, restore | the user's clipboard survives |
| store (`main/db`) | settings, configurations and keys, modes, dictionary, history | reads and writes, seed, one-time repairs, repair of a damaged profile | one default, no orphaned key, no shared hotkey; a boot keeps what the user made |
| models, modes and history pages (`renderer/features`, `renderer/store`) | a snapshot of the store, drafts, autosave timers, deferred deletes | edits, saves, tests, toggles, undo | what the user entered last is stored; an undone delete reaches nothing |
| shell (`main/bootstrap`, `main/shell`, `main/windows`) | lock, main window and frame, Dock, tray, login item | boot, second launch, close, quit, repair | the app can be reached, restarts clean, and opens where it was |
| pure parts | none | voiced activity, capsule placement, window frames, history shaping, context projections | agree with a reference definition |

Behaviours that are hard: a new session may start while older runs still wait for
their model, their floor or their paste; the renderer's messages may arrive after
the session they speak of; the microphone may still be opening when it is told to
stop; overlay and notice timers live in two processes; an accessibility call may never
return; saves, tests and refreshes of a page cross on the IPC; native calls
fail; profiles come from older versions; the user acts at any moment, also on the
volume keys.

## 2. The modules

| module | models | how |
|---|---|---|
| `MediaMute` | `MediaMuteCoordinator` | `EngageMute`, `ReleaseMute`; `MuteDisturbances` says which native calls may fail and whether the user touches the mute |
| `CapsuleOverlay` | `CapsuleOverlay` without times | one operator per method and timer; a paused hide keeps a flag in place of its milliseconds |
| `HotkeyCoordinator` | `HotkeySessionCoordinator` | `Toggle(mode)` gives the action of a press; `chordMode` is the mode that is on |
| `SessionController` | `SessionController`, `runVoiceSession`, the capsule reducer | one operator per handler; `run[s].at` is the await at which the run of session `s` stands |
| `VoiceRuntime` | the wiring in `bootstrap/index.ts` | composes the four with a renderer that answers at any time, defines the properties |
| `SessionLifecycle` | what a session promises the user | abstract: unborn, recording, processing, inserting, closing, told or dropped |
| `CaptureDriver` | `useCaptureDriver`, `MicCapture`, the cue gate | `beginAt`, `finishAt`, `cancelling` are the awaits of the three functions per capture; `StartFaults` says how a start may fail |
| `CaptureSystem` | controller and driver over two FIFO IPC channels | the driver takes the place of the free renderer of `VoiceRuntime` |
| `HotkeyRuntime` | `ChordMatcher`, `HotkeyRuntime` and the coordinator it drives | held keys, the matched chord, `SetBindings`, `Feed` |
| `CaptureMachine` | the machine of the binding dialog | the keys it heard, the chord they settle on |
| `HotkeyService` | `HotkeyService`, the permission gate, the binding dialog, the mode commands that rebind | the native queue of edges, dialogs whose begin, reply, keys and end cross on IPC, the watchdog |
| `PostInsertObservation` | coordinator, native observer and the guarded write of the store | over the sessions of `SessionLifecycle`; one record per history entry |
| `FieldWatch` | what one poll of the observer makes of the screen | identities, window, element and role compared field by field; a text is a set of pieces |
| `TextInjection` | injector, clipboard lease, the native clipboards of macOS and Windows with their codes | over the sessions of `SessionLifecycle`; `at[s]` is the await of `inject` |
| `AxCapture` | the native read of the focused control | slices of UTF-16 units around the selection |
| `AppContext` | from a target to request and history | merge, application profile, projections, prompt rows |
| `VoicedActivity` | how much of a recording is speech | frames of integer energy and peak |
| `SessionRun` | one dictation from chord to history record | context acquisition by stages, engine of one hop or two, HTTP or socket, per run |
| `AppStore` | settings, provider configurations, keys, readiness, resolution | each handler one transaction |
| `ModelLibrary` | `AppResources`, engine board, models page | flows that make one IPC call after another, with a snapshot that may be stale |
| `ModeEditor` | the modes page, its draft, autosaves and dialog, the mode handlers | a FIFO each way, two timers |
| `HistoryShape` | search, chips, day groups, today's count | pure; with the declarative definitions it is compared with |
| `HistoryPage` | deferred deletes, undo, clear all, refreshes | over the store's rows |
| `StoreSeed` | schema, seed, one-time repairs of old profiles | a database is a record; one transaction per opening |
| `WindowFrame`, `CapsulePlace` | where the main window and the capsule are put | pure; rectangles per axis |
| `AppLife` | boot, second launch, windows, Dock, tray, repair, quit, kill | composes the three above |
| `PanelNotices` | the pure functions that say what an event means for the window | the code's switches as sets |
| `CapsulePanel` | overlay with its times and the panel in the renderer | two processes, two channels, a discrete clock |
| `MC...` | | symmetry, instances and value definitions for TLC |
| `VoiceRuntimeProofs`, `ObservationProofs`, `InjectionAndEditorProofs`, `ShellProofs`, `SessionRunProofs`, `HotkeyProofs`, `HistoryProofs`, `LibraryProofs` | | the theorems |

`SessionLifecycle` is the joint between the parts that serve one session. `VoiceRuntime`
is shown, and proved, to implement it; `PostInsertObservation` and `TextInjection` are
built on it instead of on the whole runtime. What they find of sessions that overtake each
other therefore holds of any order the runtime can produce, and their state stays small
enough for proofs that need no more than their own invariants. `CapsuleOverlay` is the
other joint: `CapsulePanel`, which counts milliseconds, is shown, and proved, to implement it, so that
the voice modules may use it without a clock.

### How state and actions correspond to the code

*Sessions.* A session is its `sessionGeneration`. `active`, `activeMode` and
`awaitingAudio` are the fields of `this.active`. An action is one synchronous stretch
of the event loop, so the whole of `finishRecording` is one action, while
`runResolvedSession` is cut at each await: `context` (the target snapshot),
`model` (the provider), `insertFloor` and `floor` (the minimum time the thinking face
stays), `inject` (paste, history, observer). Whether the floor is still owed is a
choice, since time is abstract there. `controls` remembers every capture control sent, so that
in `VoiceRuntime` the renderer may answer any time later; in `CaptureSystem` the
controls travel in order to the modelled driver.

*Inside a dictation.* `SessionRun` opens the two waits that `VoiceRuntime` leaves as one
step each. `acq[r]` is `acquireTargetContext` by stages; `axInFlight` is the one call the
bridge lets through, with the run and the stage that asked; a run whose turn finds it taken
goes on with nothing. A realtime socket is `opening`, `configuring`, `streaming` and so on,
`Settle` is its once-only promise, and disposal comes from the session's dispose slot. A focused
control is a record of role, value and selection, every unit of its text a value of its own, so
that a property can say *which* units reached a request.

*Hotkeys.* An edge waits in `queue` until the drain timer takes it. The dialog that
binds a key is a renderer's: `HotkeyService` keeps the begin, the reply, the keys and the end of
each dialog as messages, so that a reply may come after its dialog has closed. Without a hook
the dialog listens to its own window. The effect that asks for the capture depends on callbacks of
the page (`captureDialog.ts:153`), so a page rendered again or a save under way ends the capture of a dialog that stays
open and asks for another, with the machine kept: `EffectRunsAnew`. `begins` numbers the requests, of new
dialogs and of such runs. Between the old end and the new reply keys go to the runtime, where they
may dictate. `missed` remembers, for the properties, the keys the machine held when the effect
ran anew, until they are heard again. `Conflicts` and `Store` are the stealing of a chord by
`save_mode`; writes that fail half-way through it are in `ModeEditor`. `Family` says which keys share a
modifier flag on macOS.

*Observation.* `entry[s]` is the history row of session `s` with its observer: timers armed,
poll in flight, a text seen, claimed, closed. `lost` marks a row nobody returns to (a write
that threw, an ended process). `Restart` may end the program at any moment; which rows
are old enough for the sweep is a choice. A poll finds one of the `Screens`, whose native
reads answer, throw or come too late; the requests are not kept per session, so a poll takes any.

*Injection.* `board` is the system clipboard with the native snapshot; a content is known by
who put it there. `MacPrepares`, `MacRestores` and their Windows counterparts give the *set* of boards a
native call may leave, failing writes included, so that `attemptPaste` up to its wait is one
action. `replaced` is the change count compared with that of the snapshot. `moved` and
`disturbed` only remember what the user or another session did, for the properties. A native call
is one step for other programs too, and a snapshot that skips promised types counts as whole.

*Pages.* A page is its renderer state, the store and a FIFO each way between them. In `ModelLibrary`
`todo[f]` is the rest of the calls that flow `f` makes, the first one in flight; a connection
test and a microphone listing leave the queue and are answered later. `intent` (what the
user chose last), `wish` (what the user entered last) and `wanted` (the last word on a
record) exist for the properties only; so do `failed`, `crossed` and `overlapped`, which mark the
cases a property excepts. A handler runs to its end without another's in between, but its writes are
transactions of their own: `CallFails` of `ModeEditor` may stop a `save_mode` that steals a hotkey after it
cleared some of the others (`handlers.ts:225-227`).

*The process.* A boot is one step, since `whenReady`'s callback is synchronous and the seed is one
transaction; what a kill inside it leaves is what a kill before it leaves. A profile is one of the
databases that older versions left, with its flags and rows, and a kind of damage: the file, the settings,
a stored mode, or another row. What a boot makes of damage depends on where it is met. A file that does not open
ends in the modal (`BootFails`). Settings that do not parse throw before the window (`BootDies`). A mode that does not
parse throws out of the hotkeys' installation (`hotkeyService.ts:271`), after the window, the menu and the
handlers but before `activate` and `before-quit` are registered: `BootStops` leaves `proc = "half"`, where
the Dock icon is not heard and a quit on Windows, but the tray's, only hides the window. Where the gate does not install at
once, for want of trust or of the native bridge, the same profile boots whole. Displays
change only while no main window is open: the system moves the windows of a display that goes, which is
not modelled.

*Time.* Only `CapsulePanel` has a clock. It ticks when no timer is due and no message is in flight,
because a message is faster than the shortest time there (160 ms); timers due together
fire in any order. The configuration scales the times to small numbers in the code's order
(`PanelTimesAssumption` states what must hold of them).

Data left out: wording, audio samples and levels, vendors' request bodies, the payloads' schemas.
Both renderers are assumed to live while a session runs (`HotkeyService` and `HistoryPage` let
their page end); the quit handler's unmute is not modelled. Operators commented as
mutants are small wrong versions of the definition next to them, used to show that a property can fail.

## 3. The runs

| run | question | size | outcome |
|---|---|---|---|
| `voice_runtime` | is a stale run ever visible to a newer session? is the device left as found? | 3 sessions, 2 modes, UI finish and cancel, failing mute calls, a user at the mute key: 846,597 states | `RuntimeInv`, `UserMuteRestored` and 3 action or refinement properties hold |
| `capture_system` | does the microphone protocol answer and clean up, does every session end? | 2 sessions against the driver, cancel from the UI: 384,022 states | `CaptureInv`, `SessionSettles` and `CapsuleGoesAway` hold |
| `late_start_failure` | the same, with a start that fails after its session was cancelled | as above | `AnswerIsComing` is violated (finding) |
| `hotkey_service` | does a chord stay usable through rebinding and key captures? | 2 modes, 2 keys, 2 requests for a capture: 626,942 states | `HotkeyInv`, `LateEndIsIgnored` and 2 liveness properties hold |
| `observation` | does every history entry get one terminal status? | 2 sessions, deletes, failing writes, restarts: 15,833 states | 2 invariants, `TerminalIsFinal` and `PendingEnds` hold |
| `text_injection` | does the user's clipboard survive, does the text go where it belongs? | 2 sessions, 2 applications, 2 copies, both platforms: 1,071,284 states | 2 invariants and `PastesWhereDictated` hold |
| `session_run` | does a hung or silent partner cost more than its own answer, and what is told of the screen? | 2 runs, 1 unit of context a side: 937,080 states | `SessionRunInv`, `RequestIsPrivate`, `ContextIsFixed`, `RunEnds` hold |
| `library` | is what is shown as ready what a session would use, with calls crossing? | 2 configurations, 1 key, 2 themes, 2 flows, 3 clicks: 6,652,866 states | 4 properties hold |
| `editor` | is what the user enters what is stored, with saves in flight? | 1 built-in and 2 custom modes, 2 names, 2 bodies, 1 chord, 4 acts: 907,877 states | 3 properties hold |
| `history` | is an undone delete harmless and a delete carried out? | 4 records, failing deletes: 332,012 states | 3 properties hold |
| `app_life` | is the app reachable and the user's data safe over boots, repairs and kills? | 4 operations over profiles of every earlier kind, sound or damaged: 2,571,491 states | 3 properties hold |
| `panel` | do two processes with two clocks agree on when a notice goes? | 3 sessions, every kind of ending: 278,321 states | 4 properties hold, refinement of `CapsuleOverlay` included |

What the properties say is in the comment before each. Those with the longest reach: no stale run of a
session touches the face, the mute, the transports or the target application of a newer one
(`RuntimeInv`, `InsertsOnlyNewest`); a session that waits for its recording has an answer under way
(`AnswerIsComing`); with the setting off, a request is what it would be had no name been captured
at all (`RequestIsPrivate`); readiness and resolution judge alike (`ReadyMeansResolved`); the last entry wins
whatever is in flight (`EntriesAreKept`); a row is hidden exactly while its delete is under way (in
`PageInv`); main never takes the window from under a notice the renderer still times
(`NoBeheading`); a further boot changes nothing (`BootKeepsUserData`).

**Pure parts** are checked inside these runs, at the inputs their modules meet there.
`VoicedActivity` has the code's own constants (an onset of 3 frames, a hangover of 4); its segments, found
frame by frame, are compared with a definition that says which frames belong to one, over all
sequences of up to ten loud or quiet frames and over chosen mixtures for the noise floor.
`CapsulePlace` is compared on a few arrangements of displays, with 50 places of the cursor each;
`WindowFrame` is under `FrameComesBack` at every opening; `HistoryShape` is compared in every state of the page.

### Bounds

`MaxSessions` bounds only the number of starts. Two sessions give every race of
an old run with a new one; three add that of two old runs with a new one, such as the single
`currentRunDispose` handed on twice. Two modes give presses of a chord that is not
the recording's. The slow timers are the code's two. The channels of `CaptureSystem` need no bound: a
session sends at most a begin, a finish and a cancel. `MaxQueue = 2` bounds the user's keys, so the
hook's queue never overflows; the drain takes one edge at a time, which a batch of the real timer is
a case of. `MaxBegins = 2` lets the late reply to one request cross the next one, made by another dialog or by the same one;
three with `MaxQueue = 1` show nothing new.
Two copies of the user's give one before and one during a paste. `MaxClicks = 3` with two flows lets a save, a delete
and a test cross, and the deleted id come back; `MaxActs = 4` gives an edit, a switch, an edit of
the other card and an edit while the first save is in flight. `MaxOps = 4` gives a boot, damage, a
repair and a second boot. `InFlight` and `MaxInFlight` of 2 keep the user from asking for more while two messages
travel; replies are not bounded. In `history` only deletes may fail (`Faults`), and the
records stored at first are only cleared. `ContextUnits` is 512 in the code; one unit a side has the same edges.
What the observation and the injection runs show for two sessions is proved for any number.

Modes are symmetric in `voice_runtime` and configurations in `library`, where no property names one and
none is a liveness property.
Deadlock is not checked where the configuration says so: once the bound on sessions, acts or
operations is used up, nothing is left to do, which is a bound of the model and a resting state
of the program.

### Fairness

* `capture_system` assumes that both event loops serve their messages, that the waits of a run end
  (`session_run` shows that they do), that the overlay's timers fire, and that getUserMedia and the
  driver's timers settle. Nothing is assumed of the user: that a finish is answered is not assumed but
  shown (`AnswerIsComing`). The capsule's going away excepts the pointer resting on a notice, where the
  code waits for the user by design.
* `session_run` assumes the program's own timers and synchronous steps only. A hung accessibility call
  and a silent provider may stay so for ever: `RunEnds` holds by the deadlines of the code
  (`DEFAULT_REQUEST_TIMEOUT_MS`, the context deadline, the socket's finish timeout).
* `hotkey_service` assumes that the main process serves the dialog's messages and that the dialog hears
  its own, and neither the watchdog (every key arms it anew) nor the user.
* `observation` assumes the observer's timeout timer (at most `MAX_TIMEOUT_MS`), and neither its polls nor
  the writes: `PendingEnds` excepts the entries that are `lost`.
* `editor` and `history` assume the timers and both ends of the IPC; `panel` the handling of messages,
  the timers and the clock. None assumes anything of the user.
* `library`, `app_life`, `voice_runtime` and `text_injection` check safety only.

### Finding

**A late start failure leaves the newer session unanswered** (`late_start_failure`). Session A is
cancelled while its microphone opens, session B begins, and then A's start fails. The catch of
`beginCapture` empties `captureRef` whatever session it holds by now (`useCaptureDriver.ts:260`).
B's finish then finds no capture and sends nothing, and the controller's slot stays taken. The comment on
`cancelCapture` (`useCaptureDriver.ts:316-318`) describes the guard against this very crossing, which
the catch lacks. The other runs set `StartFaults = {}`.

### Known deviations

The following claims were met while modelling and are refuted by the models, each by the change of a
configuration or the definition named. The definitions stay in their modules, no run expects them to
hold, and the passing properties state the exception.

| claim | where it fails |
|---|---|
| `MuteHeldWhileListening` (`VoiceRuntime`): a listening session keeps its mute | the `finally` of `onCaptureAudio` unmutes for every run that ends, also an overtaken one (`sessionController.ts:585`) |
| `NextPressStarts` (`VoiceRuntime`): after a capture error the next press is a clean start | `onCaptureError` empties the slot and leaves the toggle on (`sessionController.ts:548`) |
| `MicClosedWhenIdle` with start fault `graph` | the catch drops the only reference to a granted microphone (`useCaptureDriver.ts:260`) |
| `CueGateRests` (`CaptureSystem`): the cue gate rests between sessions | a session cancelled while its microphone opens still sounds the start cue, and nothing closes the gate after it (`useCaptureDriver.ts:255`) |
| `NextPressIsSeen` with two keys of one family | left and right of a modifier share the flag that tells down from up (`koffiBridge.ts:323`) |
| `EveryReleaseIsHeard` (`HotkeyService`): a key the dialog takes for held is down, or its release will be heard | the effect ends one capture and asks for another when its callbacks change, and a key released in between goes to the runtime; the chord then waits for a key that is up (`captureDialog.ts:123-153`, with `ModesPage.tsx:166`, `:313` and `BindingModal.tsx:79-97`) |
| `ObservesNewest` (`PostInsertObservation`): a new session ends every observation | a run overtaken while it pastes starts its own after that (`runVoiceSession.ts:276`) |
| `WritesAreChecked` (`TextInjection`): a failed clipboard write is noticed | on Windows the bridge drops the result (`koffiBridge.ts:466`) |
| `HoverKeepsNotice` (`CapsulePanel`): hovering keeps the notice (`bootstrap/index.ts:739`) | an exit that has begun runs on under the pointer (`capsuleOverlay.ts:93`) |
| `NeverReadyInVain` (`ModelLibrary`): ready means a session resolves (`sessionRuntime.ts:88-89`) | the answer of a test stamps a row that was deleted and saved again meanwhile (`handlers.ts:361-385`) |
| `ConcurrentChangeKept` (`ModelLibrary`): crossing settings writes keep both changes | each spreads the snapshot it had (`appResources.tsx:72-82`) |
| `SwitchKeepsEdits` (`ModeEditor`): leaving a card drops no edit of it | an edit made while the switch flushes is dropped (`modeEditorController.ts:340-361`, comment 83-86) |
| `FrameIsVisible` (`AppLife`): a restored window lies on a display | a frame larger than every display (`windowState.pure.ts:85`) |
| `NoSilentDeath` (`AppLife`): a boot that cannot read its data ends in the repair modal | `getSettings` is called outside the `try` (`bootstrap/index.ts:698`, `:704`) |
| `DockIconRestores` (`AppLife`): "clicking the Dock icon restores/focuses the last window (or makes a new one if it was closed)" (`bootstrap/index.ts:770-771`) | a stored mode that does not parse throws out of `setupPermissionGate` (`hotkeyService.ts:271`) before the handler is registered; the menu's Preferences still opens the window |
| `NeverFlashesBack` (`HistoryPage`): a deleted row never shows again (`HistoryPage.tsx:77`) | a slow refresh read the records before the delete and lands after it (`resources.ts:72`) |

`UserClipboardKept` excepts, on Windows, a clipboard somebody wrote to *during* a paste: there
the restore does not look whether the clipboard is still the lease's. On macOS it does,
and the exception is not needed.

Smaller remarks, seen on the way and not stated as properties: quitting or closing the window drops
deletes that still wait for their undo (`HistoryPage.tsx:185`); day groups are keyed without the year
(`derive.ts:167`), so that `DaysKeepOrder` speaks of records within one year; a mode that loses its chord to
another keeps showing it until the next refresh; a transcript that is a single full stop injects
an empty text (`runVoiceSession.ts:156`); a context may pair the application of the start with a
later title (`acquireTargetContext.ts:199`); the observer polls for its whole time when the paste's
field could not be read; steady speech with brief peaks may be refused as too quiet (`voicedActivity.ts:169`);
seed repairs of a profile can leave two modes with overlapping chords (`store.ts:171-220`); the window's
address is asked for and no native library fills it.

## 4. The proofs

The theorems of the runtime hold for every `Modes`, `MaxSessions`, `UiCommands` and
`MuteDisturbances` that satisfy the named assumptions: `SessionAssumption` (a positive number of sessions),
`ModesAssumption` (`NoMode` is not a mode), `UiCommandsAssumption` and
`MuteDisturbancesAssumption` (subsets of the known ones). TLC evaluates these too.

1. `VoiceRuntimeProofs!TypeCorrect`: `Spec => []TypeOK`, one lemma per module, one
   step per action.
2. `VoiceRuntimeProofs!Inductive`: `Spec => []RuntimeInv`. `RuntimeInv`, which the run checks, is
   `TypeOK` and eleven others, inductive *together*. They need each other: that
   a terminal of an old run cannot hide the newest capsule needs `SlotConsistent`
   (an active session is the newest, and has no run yet); that the face is the newest
   session's needs that every writer of it has passed `~Superseded`; that a transport is
   owned needs that the dispose slot names a run still going. Each conjunct has a
   lemma `...Step` whose hypotheses name the conjuncts it uses; most lean on two
   general facts, that a pipeline step moves only its own run and that what
   it leaves alone is unchanged. From `Inductive` follow the theorems for single
   properties, `UserMuteRestored`, and the action properties `OutcomeIsFinal` and
   `InsertsOnlyNewest`, which are steps from a state in which `RuntimeInv` holds.
3. `VoiceRuntimeProofs!Refines`: `Spec => ImplementsLifecycle`. `Stage` maps a run's
   wait to a stage. Each action is shown either to leave every stage alone, or to move one
   session the way one abstract action does (`Moves`). The step that leaves a floor
   needs that the wait kept an event to tell (`FloorHasEvent`), the one fact `RuntimeInv` does not
   hold, proved inductive beside it.
4. `ObservationProofs`, for any number of sessions (`MaxSessionsAssumption`), any requests and any screens. The
   invariant is one of single entries, `Tended`: a watching observer has claimed nothing, and a pending row is
   watched or lost. It needs beside it that a watching entry is the active handle's (a start cancels
   nothing else) and that a session without a record has no row (an append meets no
   terminal status). `RowKept` is carried through every call on an entry; `TerminalIsFinal` is that fact
   of a step. `CapturedIsTheEdit` is about a single poll: what it captures
   contains what was injected, differs from the text before, and was read of the element and the process the
   dictation began with.
5. The first half of `InjectionAndEditorProofs`, about `TextInjection`, for any number of sessions, copies and applications, on either platform.
   `UserClipboardKept` says nothing of the time within a paste; `Consistent` adds where the
   user's content is then: in the snapshot, or back on the clipboard once somebody wrote. On macOS it
   needs that one injection pastes at a time, which follows from the pending snapshot and not
   from the lease's `active`, since every session has a lease of its own. `TargetKnown` carries the
   focus check over the two awaits to the keystroke. `PastesCases` splits the codes a native call
   may answer into the outcomes the bridge makes of them.
6. The first half of `ShellProofs`, about `CapsulePanel`, for all times in the code's order (`PanelTimesAssumption`, `PanelAssumption`), any
   endings, sessions and messages in flight. What is on screen is right because of what is on its way,
   so the invariant is about the messages: a notice of an earlier session is allowed while a will-show
   that wipes it out is behind it, and an ending arms a hide longer than what the ending still
   in flight will show. `EndingsAlwaysAgree` is the pure fact under it: the four functions that read an
   ending agree about every one. `PanelSafe`, `NoticeOutlived` (no window goes from under its
   notice) and `OverlayImplemented` follow. The clock of `CapsulePanel` stands still while a message
   travels: `NoticeOutlived` assumes that the margin between the two timers covers the messages.
7. `SessionRunProofs`, for any number of runs, screens, settings and any width of the window around a
   selection. First the arithmetic of a capture: what was read is the window around the clamped
   selection, and its parts fit together (`CaptureIsTheWindow`, given screens whose ranges are of
   numbers: `ScreensAssumption`). Then what a request tells: with names kept out it is the request of
   a screen without names (`NamesLeaveNoTrace`). The inductive `RunInd` has a part for each stage a
   run waits in: a stage waits for the accessibility call it made and no other, a request was made of the
   context the session acquired, the realtime socket is awaited by a run that still goes, the answer
   of the language model is stamped, a record was written once. Each part is
   shown of two accounts of a step, `AcqEffects` (what a step makes of an acquisition) and `Moves`
   (what it makes of a pipeline). `ContextFixed` and `RequestPrivate` follow. The hypotheses
   of `SessionSafe`, `SegmentsAreFound` and `SpeechIsHeard`, are about the recordings among the
   constants alone; they are folds, and TLC evaluates them as parts of `SessionRunInv`.
8. `HotkeyProofs`, for any keys, modes, number of requests and any length of the hook's queue. Who owns the hook
   is a matter of messages in flight, so the invariant is about them. Requests for a capture, of new dialogs and of
   ones that ask anew, are answered in the order they were made, each once (`InOrder`); a capture session is known to one party at a time, by a reply,
   a dialog or a request to end it (`Tokens`); and a live one holds the hook, or
   the last message on the way to the dialog says that it ended (`LiveSessionOwns`). From this follow that the
   live chords are the stored ones, that capturing has the hook to itself, and `LateEndIgnored`.
   The other half follows keys: a press that is queued, held by the matcher or heard by the dialog
   is of a key that is down or has its release behind it. Of the dialog this is claimed of `Fresh`, the keys it heard
   in its present capture: what it held when it asked anew is excepted until heard again. That half needs `OwnFlags`: no two keys share a flag.
   Where left and right of a modifier do, it is false, the deviation above; the half about the
   hook is proved without it (`DialogInductive`).
9. `HistoryProofs`, for any records and any number of messages in flight. A delete is one request
   or one reply at a time from its call to the refresh after it (`OneCall`), which makes
   `HiddenWhileDeleted` and the action property `OnlyWantedDeletes` follow. That the page catches up is
   again a matter of messages (`CatchesUp`): while it lacks what is stored, a request that will bring it, a
   read on its way through the store or a reply is there, or the page knows that it is outdated. A
   stale reply is the difficulty, as it undoes what a fresh one brought; `RepliesCatchUp` says that such a
   reply has one of these behind it. `PageSafe` is given `ListsHold`: headers and chips are right for
   every set of records, which are sorts and folds over the constants, evaluated by TLC as part of `PageInv`.
10. The second half of `VoiceRuntimeProofs`, about `CaptureSystem`, for any number of sessions. A step of the joined
   system is a step of the runtime or none of it (`JoinedImplements`), so all of `RuntimeInv` holds
   here and is used. The rest is a protocol: controls travel by session and by kind, each once
   (`ControlsInOrder`); what the driver has not begun has its begin on the way (`BeginIsServed`); a
   capture told to end is held only while that is on the way (`EndIsServed`). From these
   `BeginFindsNone`: a begin never meets an earlier capture in the ref, so the teardown branch of
   `beginCapture` is a safeguard the controller never needs. `CapturesMatch` ties each microphone to the awaits of
   its three functions, `AcksAreTrue` an ack to a start that succeeded, `SlotIsServed` the controller's
   slot to a capture or an answer. The hypothesis `Joined` is that each session has a capture and `StartFaults = {}`:
   with either fault the promises are false, as the finding and the deviations show.
11. `LibraryProofs`, for any configurations, keys, pages and number of clicks
   (`ChromeAssumption`, `ClicksAssumption`; `RowsAssumption` and `ModelsAssumption` say that `None` is no row and
   no model). `LibraryInd` has a part for each place a call can be in: the call of a flow is in the
   inbox, with the main process or in the outbox, never in two (`OnePlace`, whence `CallsAnswered`); what a
   flow has left is one of the few rests its page can have put together (`FlowCalls`); ids on their way were
   handed out, and a first save brings a key (`Minted`); what travels with a call is of its kind (`Travels`). The
   store's part (`StoreInd`) adds to `LibraryInv` that a config saved without its key has been deleted
   and saved again, which is all `ReadyIsResolved` needs. `ChosenIsKept` speaks of windows at rest; `ChoiceInd`
   says what holds before they rest. One flow at most writes settings (`OneWriter`); what a page
   sends is the user's choice (`PagesSend`); the chain of themes sends one theme merged onto what is stored, and
   its last one is what the user chose (`ChainSends`, `ChainEnds`); a window whose snapshot is not what is
   stored has a reading under way or a save whose reading follows (`Seen`), and a reading that comes back stale has
   the reply of a save behind it (`RepliesFresh`). Its hypothesis, `~failed /\ ~overlapped`, is that of the property:
   without it the code loses choices, as `ConcurrentChangeKept` records.
12. The second half of `ShellProofs`, about `AppLife`, for any number of operations and any constants the assumptions
   admit: profiles that have the built-in modes once their flags are set (`ProfilesAssumption`), displays whose work
   areas do not overlap (`LayoutsAssumption`) and end no lower than their display (`PlaceAssumption`), frames of
   a positive size (`FramesAssumption`). `LifeInd` ties the Dock, taskbar and tray to the settings they were last
   told (`DockFits`), the settings in memory to the profile (`ProfileShown`), in a boot that stopped half-way
   too, where the capsule never came (`NoCapsuleHalf`) and the window, the menu or the tray is the way back; and a relaunch to the repair that
   asked for it (`RelaunchPending`); `AppInv` and the action property `BootKeepsUserData` are read off it, the
   latter with the facts of `Seeded`, repair by repair: each leaves what the user wrote. `CapsulePlaced` is pure: the nearest
   display is a minimum over a sequence, shown to exist since `<` is well-founded on the squared distance (`WFMin`).
   `FrameReturns` needs the code's clamping, axis by axis, and that at most one display is the host of a frame.
13. The second half of `InjectionAndEditorProofs`, about `ModeEditor`, for any modes, texts and hotkeys and any
   number of acts. A page whose calls are in flight is behind its store, and `EditorInd` says by how much: for a mode that
   lost no hotkey the last successful reply on its way tells what is stored (`LastEffect`), and where there is none
   the list already says it. A deletion ends a mode's replies (`DeletesLast`), a mode the page no
   longer lists was not saved since (`Absent`), and the reply that announces a created mode is the only one
   (`AnnouncedOnce`), before which nothing on the page can name it (`KnownCalls`). `FlowCounts` counts the saves a
   command waits for. The hotkeys stay disjoint because `save_mode` rejects or takes them in the handler that
   writes, before its own write, and what a failing write leaves has only lost hotkeys (`WithoutShape`); not because the page looked first: nothing is assumed of the page's list.
14. `EntriesKept`, the last part of that module, on top of `EditorInd`. Calls and replies are one first-in-first-out
   line (`Line`), and `KeptInd` says where in it the user's last entry is: in the draft of the open card, in what the
   page lists of a closed one, or in the dialog's save at the head (`Wished`). Saves of a closed card bring what is
   listed of it (`ClosedCards`); those of the open card bring ever newer versions of its draft (`VersionsInOrder`), and a draft
   that is not stored has a timer set or a save on its way (`DraftIsServed`). A dialog's save, a creation, a deletion
   and a command that waits for saves are each alone with what they could overtake (`DialogAlone`, `CreatesAlone`,
   `DeletesOne`, `CommandWaits`). Modes about to lose their hotkey to the save at the head (`Stealing`) are excepted, as
   robbed ones are. All of it holds under `~failed /\ ~crossed`, the exceptions the property itself names: a
   call failed, or a step of the user met a call that forgets it.

Only model-checked: the liveness properties (`SessionSettles`, `CapsuleGoesAway`, `RunEnds`,
`EditIsSaved`, `DeletesArrive`, `OverlayGoesAway`, `CaptureEndsWithDialog`, `DialogLearnsTheEnd`,
`PendingEnds`), since fairness and ENABLED are beyond the prover; and what the pure parts compute,
where the definitions are folds over their input and the proof an induction over data. Every safety
invariant and every action property of the passing runs that is not of that kind has a theorem.

## 5. Not modelled, and what would come next

Not modelled, for good: audio arithmetic over samples (floating point), the wording of prompts,
vendors' request bodies and the validation of payloads (text), interface components and
translations, menus but for their routes to the window, the looks of windows (calls into Electron), packaging scripts.

Left out of what is modelled: a capsule renderer that ends while a session records, since
the controller has no timer on that wait and the windows are not made again; the quit handler's
unmute; the overflow of the hook's queue (`HookBridge`, `HotkeyExports.swift:20`); learning from edits and
the hotword filter, pure functions of text; the statistics' counters.

What would add most from here:

1. A composition of `HotkeyService` with the controller's slot: a key capture or a save while a
   session records leaves the toggle and the slot apart (`hotkeyService.ts:202`, `:228`).
2. The mode handlers of `HotkeyService` and `ModeEditor` over one store.
