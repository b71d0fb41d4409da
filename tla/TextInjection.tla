--------------------------- MODULE TextInjection ---------------------------
(***************************************************************************)
(* How the text reaches the target application: the platform injector, its  *)
(* clipboard lease and the native clipboard of macOS or Windows, for the    *)
(* sessions of SessionLifecycle.  An older session that is still inserting  *)
(* does so beside a newer one, and the user copies and switches             *)
(* applications at any moment.                                             *)
(***************************************************************************)
EXTENDS SessionLifecycle

CONSTANTS
  Platforms,   \* the native libraries considered
  Apps,        \* the applications that may be in front
  NoApp,       \* frontmostApp could not tell
  MaxCopies    \* bounds how often the user copies

ASSUME MaxSessionsAssumption == MaxSessions \in Nat
ASSUME PlatformsAssumption == Platforms \subseteq {"macos", "windows"}
ASSUME AppsAssumption == NoApp \notin Apps
ASSUME MaxCopiesAssumption == MaxCopies \in Nat

VARIABLES
  platform,
  board,     \* the clipboard and the native snapshot of it
  copied,    \* what the user put on the clipboard last
  front,     \* the application in front
  saved,     \* per session, the application in front at its start
  at,        \* per session, the await at which its injection stands
  outcome,   \* per session, what the injection reports
  moved,     \* the injections whose target lost the front after they checked it
  disturbed  \* another writer used the clipboard during a paste

injectionVars == <<platform, board, copied, front, saved, at, outcome, moved, disturbed>>
vars == <<lifecycleVars, injectionVars>>

User(n) == [by |-> "user", n |-> n]
Text(s) == [by |-> "session", n |-> s]
Nothing == [by |-> "nobody", n |-> 0]
NoSnapshot == [by |-> "none", n |-> 0]
Contents ==
  {User(n) : n \in 0 .. MaxCopies} \cup {Text(s) : s \in Ids} \cup {Nothing}

Boards ==
  [clip : Contents,
   pending : Contents \cup {NoSnapshot},  \* pendingSnapshot, capturedFormats
   replaced : BOOLEAN,   \* written to since the snapshot was taken
   spoiled : BOOLEAN]    \* a native write failed after it had cleared

Waits == {"idle", "probing", "activating", "focused", "ready", "settling", "done"}
Outcomes == {"none", "no_op", "manual_copy_required", "focus_lost", "paste_sent"}

InjectionTypeOK ==
  /\ platform \in Platforms
  /\ board \in Boards
  /\ copied \in {User(n) : n \in 0 .. MaxCopies}
  /\ front \in Apps
  /\ saved \in [Ids -> Apps \cup {NoApp}]
  /\ at \in [Ids -> Waits]
  /\ outcome \in [Ids -> Outcomes]
  /\ moved \subseteq Ids
  /\ disturbed \in BOOLEAN
  /\ newest \in 0 .. MaxSessions
  /\ stage \in [Ids -> Stages]

Init ==
  /\ LifecycleInit
  /\ platform \in Platforms
  /\ board = [clip |-> User(0), pending |-> NoSnapshot, replaced |-> FALSE, spoiled |-> FALSE]
  /\ copied = User(0)
  /\ front \in Apps
  /\ saved = [s \in Ids |-> NoApp]
  /\ at = [s \in Ids |-> "idle"]
  /\ outcome = [s \in Ids |-> "none"]
  /\ moved = {} /\ disturbed = FALSE

Pasting == {s \in Ids : at[s] = "settling"}

(* What the native library answers: to the question what the clipboard      *)
(* holds (a rich content it cannot put back only on Windows), and to the    *)
(* paste keystroke.                                                        *)
SnapshotCodes == IF platform = "windows" THEN {0, 1, 2} ELSE {0, 1}
SnapshotKind(code) == CASE code = 0 -> "empty" [] code = 1 -> "text" [] OTHER -> "rich"

NoFunction == -98     \* symbol_unavailable: also the library without the function
NativeException == -100
PasteCodes == (-12 .. 0) \cup {NoFunction, NativeException}
KeystrokeSent(code) == code = 0

(* tierPlanFor: paste, or leave the text to be copied by hand.              *)
PlanPastes(kind) == kind # "rich"

-----------------------------------------------------------------------------
(* The native clipboard: what each call may leave of the board b.           *)

Holding(b, c) == [b EXCEPT !.clip = c]
Emptied(b) == [b EXCEPT !.clip = Nothing, !.spoiled = TRUE]
Released(b) == [b EXCEPT !.pending = NoSnapshot]
Leased(b, s) == [b EXCEPT !.pending = b.clip, !.clip = Text(s), !.replaced = FALSE]

(* Mutant of MacPrepares: a second snapshot while one is pending.           *)
MacPreparesTwice(b, s) == {Leased(b, s)}
(* macOS: prepare_paste_text takes the snapshot and writes the text.        *)
MacPrepares(b, s) ==
  IF b.pending = NoSnapshot THEN {Leased(b, s)} ELSE {}

(* Busy, or nothing restorable, or a failed write that it takes back.       *)
MacRefuses(b) ==
  IF b.pending = NoSnapshot THEN {b, Emptied(b)} ELSE {b}

(* Mutant of MacRestores: the change count is not looked at.                *)
MacRestoresBlindly(b) ==
  IF b.pending = NoSnapshot THEN {b} ELSE {Released(Holding(b, b.pending))}
(* restore_after_paste leaves what somebody else wrote in the meantime.     *)
MacRestores(b) ==
  CASE b.pending = NoSnapshot -> {b}
    [] b.pending # NoSnapshot /\ b.replaced -> {Released(b)}
    [] OTHER -> {Released(Holding(b, b.pending)), Released(Emptied(b))}

(* Windows: a write may be refused, or fail after it emptied the clipboard, *)
(* and the bridge drops its result.                                        *)
WinPrepares(b, s) ==
  LET taken == [b EXCEPT !.pending = b.clip, !.replaced = FALSE]
  IN {Holding(taken, Text(s)), taken, Holding(taken, Nothing)}
(* A capture that fails has already dropped the snapshot before it.         *)
WinRefuses(b) == {b, Released(b)}
WinRestores(b) ==
  IF b.pending = NoSnapshot THEN {b}
  ELSE {Holding(b, b.pending), [b EXCEPT !.spoiled = TRUE], Emptied(b)}

Prepares(s) == IF platform = "macos" THEN MacPrepares(board, s) ELSE WinPrepares(board, s)
Refuses == IF platform = "macos" THEN MacRefuses(board) ELSE WinRefuses(board)
Restores(b) == IF platform = "macos" THEN MacRestores(b) ELSE WinRestores(b)

(* Somebody writes c beside the injector.                                   *)
WrittenBeside(b, c) == [b EXCEPT !.clip = c, !.replaced = TRUE, !.spoiled = FALSE]

-----------------------------------------------------------------------------
(* The user.                                                               *)

Copies(c) ==
  /\ copied' = c
  /\ board' = WrittenBeside(board, c)
  /\ disturbed' = (Pasting # {})

UserCopies ==
  /\ copied.n < MaxCopies
  /\ Copies(User(copied.n + 1))
  /\ UNCHANGED <<lifecycleVars, platform, front, saved, at, outcome, moved>>

(* The notice's copy button has a lease of its own, never an active one.    *)
NoticeCopies ==
  /\ copied.n < MaxCopies
  /\ \E s \in Ids : stage[s] = "told" /\ outcome[s] \notin {"none", "no_op"}
  /\ \/ Copies(User(copied.n + 1))
     \/ /\ board' \in {[Emptied(board) EXCEPT !.replaced = TRUE]}
                        \cup {b \in {board} : platform = "windows"}
        /\ UNCHANGED <<copied, disturbed>>
  /\ UNCHANGED <<lifecycleVars, platform, front, saved, at, outcome, moved>>

(* Another application comes to the front: the injections between their     *)
(* check and their paste no longer know where they paste.                   *)
Fronts(app) ==
  /\ front' = app
  /\ moved' = moved \cup {s \in Ids : at[s] \in {"focused", "ready"} /\ saved[s] # app}

UserSwitches ==
  /\ \E app \in Apps \ {front} : Fronts(app)
  /\ UNCHANGED <<lifecycleVars, platform, board, copied, saved, at, outcome, disturbed>>

-----------------------------------------------------------------------------
(* The sessions.                                                           *)

SessionBegins(s) ==
  /\ Begin(s)
  /\ saved' \in {[saved EXCEPT ![s] = app] : app \in {front, NoApp}}
  /\ UNCHANGED <<platform, board, copied, front, at, outcome, moved, disturbed>>

Goes(s, wait) == at' = [at EXCEPT ![s] = wait]

InjectionStarts(s) ==
  /\ Insert(s)
  /\ Goes(s, "probing")
  /\ UNCHANGED <<platform, board, copied, front, saved, outcome, moved, disturbed>>

(* A session leaves its insertion when the injector has answered.           *)
SessionGoesOn(s) ==
  /\ Process(s) \/ Close(s) \/ Tell(s) \/ Drop(s)
  /\ stage[s] = "inserting" => at[s] = "done"
  /\ UNCHANGED injectionVars

-----------------------------------------------------------------------------
(* inject, one synchronous stretch after each of its awaits.                *)

Ends(s, how) ==
  /\ Goes(s, "done")
  /\ outcome' = [outcome EXCEPT ![s] = how]

(* frontmostApp may fail: without it nothing is pasted.                     *)
FrontUnknown(s) ==
  /\ at[s] \in {"probing", "activating"}
  /\ Ends(s, "manual_copy_required")
  /\ UNCHANGED <<front, moved>>

(* Nothing to insert, or nobody to insert it for.                           *)
NothingToPaste(s) ==
  /\ at[s] = "probing"
  /\ \/ Ends(s, "no_op")
     \/ saved[s] = NoApp /\ Ends(s, "manual_copy_required")
  /\ UNCHANGED <<front, moved>>

Focused(s) ==
  /\ Goes(s, "focused")
  /\ UNCHANGED <<outcome, front, moved>>

(* protectFocus: the saved application is in front, or it is called there,  *)
(* which may throw or do nothing.                                           *)
ProtectFocus(s) ==
  /\ at[s] = "probing" /\ saved[s] # NoApp
  /\ \/ front = saved[s] /\ Focused(s)
     \/ front # saved[s] /\ Ends(s, "focus_lost") /\ UNCHANGED <<front, moved>>
     \/ /\ front # saved[s]
        /\ Goes(s, "activating")
        /\ Fronts(saved[s]) \/ UNCHANGED <<front, moved>>
        /\ UNCHANGED outcome

(* Mutant of Activated: whatever is in front is taken for the target.       *)
ActivatedUnseen(s) == at[s] = "activating" /\ Focused(s)
Activated(s) ==
  /\ at[s] = "activating"
  /\ \/ front = saved[s] /\ Focused(s)
     \/ front # saved[s] /\ Ends(s, "focus_lost") /\ UNCHANGED <<front, moved>>

(* After the second probe the snapshot kind decides.                       *)
Planned(s) ==
  /\ at[s] = "focused"
  /\ \E code \in SnapshotCodes :
       IF PlanPastes(SnapshotKind(code))
       THEN Goes(s, "ready") /\ UNCHANGED outcome
       ELSE Ends(s, "manual_copy_required")
  /\ UNCHANGED <<front, moved>>

FocusStep(s) ==
  /\ FrontUnknown(s) \/ NothingToPaste(s) \/ ProtectFocus(s) \/ Activated(s) \/ Planned(s)
  /\ UNCHANGED <<lifecycleVars, platform, board, copied, saved, disturbed>>

Meets(s) == disturbed' = (disturbed \/ Pasting \ {s} # {})

(* attemptPaste up to its wait: the lease, and the keystroke, without which *)
(* the lease is returned at once.                                          *)
Pastes(s) ==
  /\ at[s] = "ready"
  /\ \/ \E b \in Prepares(s), code \in PasteCodes :
          IF KeystrokeSent(code)
          THEN board' = b /\ Goes(s, "settling") /\ UNCHANGED outcome
          ELSE board' \in Restores(b) /\ Ends(s, "manual_copy_required")
     \/ board' \in Refuses /\ Ends(s, "manual_copy_required")
  /\ Meets(s)
  /\ UNCHANGED <<lifecycleVars, platform, copied, front, saved, moved>>

(* The settle time is over.                                                *)
SettleEnds(s) ==
  /\ at[s] = "settling"
  /\ board' \in Restores(board)
  /\ Ends(s, "paste_sent")
  /\ UNCHANGED <<lifecycleVars, platform, copied, front, saved, moved, disturbed>>

-----------------------------------------------------------------------------
Next ==
  \/ UserCopies \/ NoticeCopies \/ UserSwitches
  \/ \E s \in Ids : \/ SessionBegins(s) \/ InjectionStarts(s) \/ SessionGoesOn(s)
                    \/ FocusStep(s) \/ Pastes(s) \/ SettleEnds(s)

Spec == Init /\ [][Next]_vars

-----------------------------------------------------------------------------
(* Outside a paste the clipboard holds what the user put there last, unless *)
(* a native write failed half way or, on Windows, somebody wrote to the     *)
(* clipboard during the paste.                                             *)
UserClipboardKept ==
  Pasting = {} /\ ~board.spoiled /\ (platform = "windows" => ~disturbed)
    => board.clip = copied

(* On macOS a snapshot is pending exactly while one injection settles: it   *)
(* cannot be stranded, which would refuse every later paste as busy.        *)
SnapshotHasOwner ==
  platform = "macos" =>
    /\ board.pending # NoSnapshot <=> Pasting # {}
    /\ \A s, t \in Pasting : s = t

(* While the target application may read the clipboard it finds the text of *)
(* the session that sent the keystroke, or what somebody wrote since.       *)
PasteFindsText ==
  platform = "macos" => \A s \in Pasting : board.clip = Text(s) \/ board.replaced

(* The keystroke goes to the application the session was dictated in,       *)
(* unless another one came to the front after the check.                    *)
PastesWhereDictated ==
  [][\A s \in Ids : at[s] = "ready" /\ at'[s] = "settling"
                      => front = saved[s] \/ s \in moved]_vars

(* "frontmostApp / clipboardGet / clipboardSet / activateApp throw on a     *)
(* platform error": whoever waits for a paste to settle has its text on the *)
(* clipboard, on every platform, when nobody else wrote to it.              *)
WritesAreChecked ==
  \A s \in Pasting : board.clip = Text(s) \/ board.replaced \/ disturbed
=============================================================================
