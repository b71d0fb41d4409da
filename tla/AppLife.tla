------------------------------ MODULE AppLife ------------------------------
(***************************************************************************)
(* The life of the process around the dictation: the single-instance lock,  *)
(* the boot, the startup-failure modal, the main window with its saved      *)
(* frame, the Dock icon, taskbar button and tray, the repair of a damaged   *)
(* profile, quitting and being killed.  whenReady's callback is synchronous,*)
(* so a boot is one step; a kill inside it leaves what the kill before it   *)
(* leaves, the seed being one transaction.                                  *)
(***************************************************************************)
EXTENDS StoreSeed, WindowFrame, CapsulePlace

CONSTANTS
  Profiles,  \* the database files a behaviour may start from
  Fronts,    \* what the native layer may tell of the window in front
  MaxOps     \* bound: user and environment operations in a behaviour

ASSUME MaxOpsAssumption == MaxOps \in Nat
ASSUME ProfilesAssumption == \A d \in Profiles : d \in Databases /\ HasBuiltIns(d)

VARIABLES
  platform,     \* process.platform
  proc,         \* "off", "modal" (the startup failure), "running", or where
                \* whenReady's promise was rejected and the process holds the
                \* lock: "dead" (nothing but the lock and second-instance) or
                \* "half" (all but the handlers of activate and before-quit)
  db,           \* the database file
  storeOpen,    \* the connection of the running process
  relaunch,     \* app.relaunch() was called: a fresh instance starts next
  main,         \* mainWindow: "none", "hidden", "shown" or "minimized"
  page,         \* the app model of its renderer: "loading", "ready", "error"
  dock,         \* DockPresenceController: what it was told and what it applied
  loginItem,    \* openAtLogin of the operating system
  displays,     \* the connected displays
  saved,        \* window-state.json
  frame,        \* the normal bounds of the main window
  saveArmed,    \* the 400 ms timer of trackWindowState
  ops           \* operations so far

frameVars == <<saved, frame, saveArmed>>
vars == <<platform, proc, db, storeOpen, relaunch, main, page, dock, loginItem,
          displays, saved, frame, saveArmed, ops>>

AppTypeOK ==
  /\ platform \in {"darwin", "win32"}
  /\ proc \in {"off", "modal", "running", "dead", "half"}
  /\ db \in Databases
  /\ storeOpen \in BOOLEAN
  /\ relaunch \in BOOLEAN
  /\ main \in {"none", "hidden", "shown", "minimized"}
  /\ page \in {"loading", "ready", "error"}
  /\ dock \in [hides : BOOLEAN, capsule : BOOLEAN, policy : {"regular", "accessory"},
               tray : BOOLEAN, taskbar : BOOLEAN]
  /\ loginItem \in BOOLEAN
  /\ displays \in Layouts
  /\ saved \in SavedFrames
  /\ saveArmed \in BOOLEAN
  /\ ops \in 0 .. MaxOps

(* resolveDockPresence: the policy is a matter of macOS only, the taskbar   *)
(* button belongs to the window.                                            *)
Presence(hides, capsule, window) ==
  [hides |-> hides, capsule |-> capsule,
   policy |-> IF platform = "darwin" /\ (hides \/ capsule) THEN "accessory" ELSE "regular",
   tray |-> IF platform = "darwin" THEN hides ELSE TRUE,
   taskbar |-> window # "none" /\ ~(platform = "win32" /\ hides)]

(* syncLaunchAtLogin of a packaged build.                                   *)
SyncLoginItem(login) == loginItem' = login

(* setHideIcon, setCapsuleAccessoryNeeded and refresh: take the new input   *)
(* and apply all of it.                                                     *)
Apply(hides, capsule, window) == dock' = Presence(hides, capsule, window)

NoDock == [hides |-> FALSE, capsule |-> FALSE, policy |-> "regular", tray |-> FALSE,
           taskbar |-> FALSE]

Op == ops < MaxOps /\ ops' = ops + 1

Init ==
  /\ platform \in {"darwin", "win32"}
  /\ proc = "off"
  /\ db \in Profiles
  /\ storeOpen = FALSE
  /\ relaunch = FALSE
  /\ main = "none"
  /\ page = "loading"
  /\ dock = NoDock
  /\ loginItem = FALSE
  /\ displays \in Layouts
  /\ saved \in Frames \cup {NoFrame}
  /\ frame = DefaultFrame
  /\ saveArmed = FALSE
  /\ ops = 0

-----------------------------------------------------------------------------
(* The main window.                                                         *)

WorkAreas(connected) == [i \in DOMAIN connected |-> connected[i].work]

(* createMainWindow: at the startup frame, tracked, shown when ready.       *)
CreateMain ==
  /\ main' = "shown"
  /\ frame' = StartupFrame(saved, WorkAreas(displays))
  /\ saveArmed' = FALSE
  /\ UNCHANGED saved

(* spawnMainWindow: the dock controller, if there is one, then gives the    *)
(* window its button.                                                       *)
SpawnMain == CreateMain /\ page' = "loading"

(* whenReady got as far as the handlers, the window, the menu and the tray. *)
HandlersRegistered == proc \in {"running", "half"}

(* The controller lives once buildRuntime returned, in a dead process too.  *)
HasDock == HandlersRegistered \/ storeOpen

(* restoreOrCreateMainWindow.                                               *)
SurfaceMain ==
  IF main = "none"
  THEN /\ SpawnMain
       /\ IF HasDock THEN Apply(dock.hides, dock.capsule, "shown")
          ELSE dock' = [dock EXCEPT !.taskbar = TRUE]
  ELSE main' = "shown" /\ UNCHANGED <<page, frameVars, dock>>

(* The frame is captured on close, before anything else.                    *)
CaptureFrame == saved' = frame /\ saveArmed' = FALSE /\ UNCHANGED frame

(* shouldHideMainWindowOnClose.                                             *)
HidesOnClose(isQuitting) == platform = "win32" /\ ~isQuitting

GoneWindow ==
  /\ main' = "none"
  /\ page' = "loading"
  /\ dock' = [dock EXCEPT !.taskbar = FALSE]

CloseMain ==
  /\ Op
  /\ main \in {"shown", "minimized"}
  /\ CaptureFrame
  /\ IF HidesOnClose(FALSE)
       THEN main' = "hidden" /\ UNCHANGED <<page, dock>>
       ELSE GoneWindow
  /\ UNCHANGED <<platform, proc, db, storeOpen, relaunch, loginItem, displays>>

MinimizeMain ==
  /\ Op
  /\ main = "shown"
  /\ main' = "minimized"
  /\ UNCHANGED <<platform, proc, db, storeOpen, relaunch, page, dock, loginItem, displays,
                 frameVars>>

(* resize and move arm the timer anew.                                      *)
MoveMain ==
  /\ Op
  /\ main = "shown"
  /\ frame' \in Frames
  /\ saveArmed' = TRUE
  /\ UNCHANGED <<platform, proc, db, storeOpen, relaunch, main, page, dock, loginItem,
                 displays, saved>>

SaveFrame ==
  /\ saveArmed
  /\ CaptureFrame
  /\ UNCHANGED <<platform, proc, db, storeOpen, relaunch, main, page, dock, loginItem,
                 displays, ops>>

(* A display is connected or unplugged while no window of ours is open.     *)
ChangeDisplays ==
  /\ Op
  /\ main = "none"
  /\ displays' \in Layouts
  /\ UNCHANGED <<platform, proc, db, storeOpen, relaunch, main, page, dock, loginItem,
                 frameVars>>

-----------------------------------------------------------------------------
(* Starting.                                                                *)

(* buildRuntime: the store is opened and seeded, everything else is built   *)
(* around it.                                                               *)
BuildRuntime ==
  /\ ~OpenFails(db)
  /\ db' = Seeded(db, platform)
  /\ storeOpen' = TRUE

(* It throws before any window: the modal.                                  *)
BootFails ==
  /\ OpenFails(db)
  /\ proc' = "modal"
  /\ UNCHANGED <<db, storeOpen, main, page, dock, loginItem, frameVars>>

(* The profile opens, but its settings do not parse: getSettings throws     *)
(* after the try that guards buildRuntime.                                  *)
BootDies ==
  /\ BuildRuntime
  /\ db.damage = "settings"
  /\ proc' = "dead"
  /\ UNCHANGED <<main, page, dock, loginItem, frameVars>>

(* The settings parse: the login item, the window, the Dock, the menu.      *)
BootShows ==
  /\ BuildRuntime
  /\ db.damage # "settings"
  /\ SyncLoginItem(db.launch_at_login)
  /\ SpawnMain
  /\ Apply(db.hide_app_icon, FALSE, "shown")

(* With a mode that does not parse, only where the gate does not install    *)
(* the hotkeys at once: no native bridge, or no trust yet (the installation *)
(* of a later poll then throws in its interval, which changes nothing).     *)
BootSucceeds == BootShows /\ proc' = "running"

(* The gate installs the hotkeys, and a mode that does not parse throws out *)
(* of applyBindings, past activate and before-quit.                         *)
BootStops ==
  /\ BootShows
  /\ db.damage = "modes"
  /\ proc' = "half"

Launch ==
  /\ proc = "off"
  /\ relaunch' = FALSE
  /\ BootFails \/ BootDies \/ BootStops \/ BootSucceeds
  /\ UNCHANGED <<platform, displays, ops>>

(* The lock is taken: the second process quits, the first shows its window. *)
(* So do the Dock icon's activate, the menu's Preferences and a click of    *)
(* the tray, each where it is there.                                        *)
SecondLaunch ==
  /\ Op
  /\ proc \in {"running", "half", "dead"}
  /\ SurfaceMain
  /\ UNCHANGED <<platform, proc, db, storeOpen, relaunch, loginItem, displays>>

(* get_app_model of the renderer's first load: it fails when no handler was *)
(* registered, when the store was closed, or when a row does not parse.     *)
ModelReadable == HandlersRegistered /\ storeOpen /\ db.damage = "none"

LoadModel ==
  /\ main # "none"
  /\ page = "loading"
  /\ page' = IF ModelReadable THEN "ready" ELSE "error"
  /\ UNCHANGED <<platform, proc, db, storeOpen, relaunch, main, dock, loginItem, displays,
                 frameVars, ops>>

-----------------------------------------------------------------------------
(* The repair.                                                              *)

(* deleteSotoDbFiles takes soto.db first, then its -wal and -shm.  Only     *)
(* Windows refuses a file somebody holds open; what is left of the journal  *)
(* is dropped by the next open, for its database is gone.                   *)
Wiped(ok) ==
  \/ ok /\ db' = EmptyDatabase
  \/ ~ok /\ platform = "win32" /\ db' \in {db, EmptyDatabase}

(* app.exit: the windows go without a close event.                          *)
Gone ==
  /\ proc' = "off"
  /\ storeOpen' = FALSE
  /\ main' = "none"
  /\ page' = "loading"
  /\ dock' = NoDock
  /\ saveArmed' = FALSE
  /\ UNCHANGED <<saved, frame>>

(* Mutant of RepairData: a file that cannot be deleted is passed over.      *)
RepairAnyway(onFailure) ==
  /\ \E ok \in BOOLEAN : Wiped(ok)
  /\ relaunch' = TRUE
  /\ Gone

(* repairData: close the store, delete the files, relaunch and exit.  A     *)
(* deletion that throws leaves the process where it was, its store closed.  *)
RepairData(onFailure) ==
  \/ Wiped(TRUE) /\ relaunch' = TRUE /\ Gone
  \/ /\ Wiped(FALSE)
     /\ proc' = onFailure
     /\ storeOpen' = FALSE
     /\ UNCHANGED <<relaunch, main, page, dock, frameVars>>

(* The modal's first button; there is no store, so nothing is closed, and a *)
(* deletion that throws rejects whenReady's promise.                        *)
RepairFromModal ==
  /\ proc = "modal"
  /\ RepairData("dead")
  /\ UNCHANGED <<platform, loginItem, displays, ops>>

QuitFromModal ==
  /\ proc = "modal"
  /\ Gone
  /\ UNCHANGED <<platform, db, relaunch, loginItem, displays, ops>>

(* The button of the error page, after the native confirmation. Without the *)
(* handlers the command is rejected.                                        *)
RepairFromPage ==
  /\ HandlersRegistered
  /\ main = "shown"
  /\ page = "error"
  /\ RepairData(proc)
  /\ UNCHANGED <<platform, loginItem, displays, ops>>

-----------------------------------------------------------------------------
(* The user's profile.                                                      *)

Usable == proc = "running" /\ storeOpen /\ main = "shown" /\ page = "ready"

(* save_app_settings: onSettingsSaved tells the dock and the login item.    *)
SaveSettings ==
  /\ Op
  /\ Usable
  /\ \E hide, login \in BOOLEAN :
       /\ db' = SettingsSaved(db, hide, login)
       /\ Apply(hide, dock.capsule, main)
       /\ SyncLoginItem(login)
  /\ UNCHANGED <<platform, proc, storeOpen, relaunch, main, page, displays, frameVars>>

EditProfile ==
  /\ Op
  /\ Usable
  /\ \/ \E m \in ModeIds, prompt \in {"empty", "own"}, chord \in Chords :
          /\ db.modes[m] # None
          /\ db' = ModeSaved(db, m, [db.modes[m] EXCEPT !.prompt = prompt, !.hotkey = chord])
     \/ db.modes["mine"] = None /\ db' = ModeCreated(db)
  /\ UNCHANGED <<platform, proc, storeOpen, relaunch, main, page, dock, loginItem, displays,
                 frameVars>>

(* The dictionary page: confirmAdd, and deleteEntry once it was confirmed.  *)
EditDictionary ==
  /\ Op
  /\ Usable
  /\ \E t \in Terms : db' \in {TermAdded(db, t), TermDeleted(db, t)}
  /\ UNCHANGED <<platform, proc, storeOpen, relaunch, main, page, dock, loginItem, displays,
                 frameVars>>

(* setOverlayActivation, at the capsule's reveal and when it is hidden: over *)
(* a full-screen space it needs the accessory policy.                       *)
CapsulePresence ==
  /\ proc = "running"
  /\ \E front \in Fronts :
       Apply(dock.hides, platform = "darwin" /\ FillsDisplay(front, displays), main)
  /\ UNCHANGED <<platform, proc, db, storeOpen, relaunch, main, page, loginItem, displays,
                 frameVars, ops>>

CapsuleLeaves ==
  /\ proc = "running"
  /\ Apply(dock.hides, FALSE, main)
  /\ UNCHANGED <<platform, proc, db, storeOpen, relaunch, main, page, loginItem, displays,
                 frameVars, ops>>

-----------------------------------------------------------------------------
(* Stopping.                                                                *)

(* app.quit, of the system or the menu: before-quit marks the quit, where a *)
(* boot registered it; or of the tray, whose item marks it itself.  A       *)
(* window that hides on close stops a quit that is not marked.              *)
Quit ==
  /\ Op
  /\ proc \in {"running", "half", "dead"}
  /\ \E tray \in {FALSE, dock.tray} :
       IF main # "none" /\ HidesOnClose(tray \/ proc = "running")
       THEN CaptureFrame /\ main' = "hidden" /\ UNCHANGED <<proc, storeOpen, page, dock>>
       ELSE /\ proc' = "off"
            /\ storeOpen' = FALSE
            /\ main' = "none"
            /\ page' = "loading"
            /\ dock' = NoDock
            /\ IF main # "none" THEN CaptureFrame ELSE UNCHANGED frameVars
  /\ UNCHANGED <<platform, db, relaunch, loginItem, displays>>

Kill ==
  /\ Op
  /\ proc # "off"
  /\ Gone
  /\ UNCHANGED <<platform, db, relaunch, loginItem, displays>>

(* A disk fault, or the file of another version, between two runs.          *)
DamageFile ==
  /\ Op
  /\ proc = "off" /\ ~relaunch
  /\ db.damage = "none"
  /\ \E kind \in {"file", "settings", "modes", "rows"} : db' = [db EXCEPT !.damage = kind]
  /\ UNCHANGED <<platform, proc, storeOpen, relaunch, main, page, dock, loginItem, displays,
                 frameVars>>

AppNext ==
  \/ Launch \/ SecondLaunch \/ LoadModel
  \/ CloseMain \/ MinimizeMain \/ MoveMain \/ SaveFrame \/ ChangeDisplays
  \/ RepairFromModal \/ QuitFromModal \/ RepairFromPage
  \/ SaveSettings \/ EditProfile \/ EditDictionary \/ CapsulePresence \/ CapsuleLeaves
  \/ Quit \/ Kill \/ DamageFile

AppSpec == Init /\ [][AppNext]_vars

-----------------------------------------------------------------------------
WindowOnScreen == main = "shown" \/ (main = "minimized" /\ dock.taskbar)

(* A click of the Dock icon arrives at activate.                            *)
DockIconHeard == proc = "running" /\ platform = "darwin" /\ dock.policy = "regular"

(* The application menu of macOS and its Preferences stay without a window. *)
MenuStands == HandlersRegistered /\ platform = "darwin" /\ dock.policy = "regular"

(* The app the user started can be reached: its window is on screen, or the *)
(* Dock icon or the tray brings it back; where the boot stopped before the  *)
(* Dock icon had its handler, the menu's Preferences does.  Only while the  *)
(* capsule stands over a full-screen space may all of them be gone.  And    *)
(* what the dock and the login item show is what the profile says,          *)
(* whichever route changed it and however often the window was closed.      *)
UserCanReachApp ==
  /\ proc = "running" => WindowOnScreen \/ DockIconHeard \/ dock.tray \/ dock.capsule
  /\ proc = "half" => WindowOnScreen \/ MenuStands \/ dock.tray
  /\ HandlersRegistered =>
       /\ storeOpen => dock.hides = db.hide_app_icon /\ loginItem = db.launch_at_login
       /\ main # "none" /\ ~dock.hides => dock.taskbar

(* The app restarts itself only into an empty profile: a repair that could  *)
(* not delete the database never comes back to the same broken one.         *)
RelaunchIsClean == relaunch => db = EmptyDatabase

(* Together: the type of every variable, the reach of the user, the repair, *)
(* the place of the capsule.                                                *)
AppInv == AppTypeOK /\ UserCanReachApp /\ RelaunchIsClean /\ CapsuleIsPlaced

(* A boot keeps what the user made: his own mode, prompts he wrote, the     *)
(* settings; and once this version has seeded the profile, a further boot   *)
(* changes nothing at all, so a default term he deleted stays deleted.      *)
BootKeepsUserData ==
  [][proc = "off" /\ proc' # "off" => KeepsUserData(db, db', platform)]_vars

(* A main window opens where the user left it when the display it lay in is *)
(* connected; and on some display whatever was unplugged, if the frame is   *)
(* no larger than any of them.                                              *)
FrameComesBack ==
  [][main = "none" /\ main' # "none" /\ saved # NoFrame =>
       /\ (\E i \in DOMAIN displays : Inside(saved, displays[i].work)) => frame' = saved
       /\ (\A i \in DOMAIN displays : NoLarger(saved, displays[i].work)) =>
            OnScreen(frame', WorkAreas(displays))]_vars

(* "Surface a native repair-or-quit modal instead of a silent dead process" *)
(* (bootstrap/index.ts): a boot that cannot read its data ends in the modal.*)
NoSilentDeath == proc # "dead"

(* "clicking the Dock icon restores/focuses the last window (or makes a new *)
(* one if it was closed)" (bootstrap/index.ts): not where the boot stopped. *)
DockIconRestores ==
  HandlersRegistered /\ platform = "darwin" /\ dock.policy = "regular" /\ main = "none" =>
    DockIconHeard

(* "restores onto a display that is still connected, clamped to a visible   *)
(* work area" (windowState.ts).                                             *)
FrameIsVisible ==
  main # "none" /\ ~saveArmed /\ saved # NoFrame /\ frame = StartupFrame(saved, WorkAreas(displays))
    => OnScreen(frame, WorkAreas(displays))
=============================================================================
