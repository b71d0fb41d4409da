----------------------------- MODULE StoreSeed -----------------------------
(***************************************************************************)
(* The database file of the data directory and what opening it does: the    *)
(* schema, the first seed and the one-time repairs of profiles that older   *)
(* versions left, each guarded by a flag of app_meta and all in one         *)
(* transaction.  Time stamps, display order and history are left out (the   *)
(* sweep of history at boot is in PostInsertObservation); a hotkey is the   *)
(* set of its modifiers, the empty set when the mode has none.             *)
(***************************************************************************)
EXTENDS FiniteSets

CONSTANTS
  Chords,  \* the hotkeys of a profile, sets of modifiers; {} for no hotkey
  Terms,   \* the default dictionary terms
  None

BuiltIns == {"default", "translate"}
ModeIds == BuiltIns \cup {"mine"}
Prompts == {"empty", "stock", "own"}
Sources == {"user_added", "auto_learned"}
Flags == {"seed", "dictionary", "chord", "windows_chord", "prompts"}

Rows == [stockName : BOOLEAN, prompt : Prompts, hotkey : Chords]

(* damage is what a reader of the file would trip over: the file is no      *)
(* database, the settings blob, the row of a mode or some other row does    *)
(* not parse.                                                               *)
Databases ==
  [modes : [ModeIds -> Rows \cup {None}],
   dictionary : [Terms -> Sources \cup {None}],
   done : SUBSET Flags,
   hide_app_icon : BOOLEAN,
   launch_at_login : BOOLEAN,
   damage : {"none", "file", "settings", "modes", "rows"}]

ASSUME ChordsAssumption == {{}, {"RightMeta"}, {"RightCtrl"}} \subseteq Chords
ASSUME NoneAssumption == None \notin Rows \cup Sources

(* A missing file opens as an empty database with the default settings.     *)
EmptyDatabase ==
  [modes |-> [m \in ModeIds |-> None], dictionary |-> [t \in Terms |-> None],
   done |-> {}, hide_app_icon |-> FALSE, launch_at_login |-> TRUE, damage |-> "none"]

Stock(m) ==
  [stockName |-> TRUE, prompt |-> "stock",
   hotkey |-> IF m = "default" THEN {"RightMeta"} ELSE {}]

(* validateDisjoint on two chords.                                          *)
Overlap(a, b) == a \cap b # {}

-----------------------------------------------------------------------------
(* INSERT OR IGNORE of the built-in modes, at every boot.                   *)
SeedModes(d) ==
  [d EXCEPT !.modes = [m \in ModeIds |->
      IF m \in BuiltIns /\ d.modes[m] = None THEN Stock(m) ELSE d.modes[m]],
            !.done = @ \cup {"seed"}]

(* Mutant of SeedDictionary: the default terms are inserted at every boot.  *)
SeedDictionaryAlways(d) ==
  [d EXCEPT !.dictionary = [t \in Terms |-> "user_added"], !.done = @ \cup {"dictionary"}]

(* Once: every default term becomes the user's, learned ones included.      *)
SeedDictionary(d) ==
  IF "dictionary" \in d.done THEN d
  ELSE [d EXCEPT !.dictionary = [t \in Terms |-> "user_added"],
                 !.done = @ \cup {"dictionary"}]

(* Once: the old default chord of an untouched default mode.                *)
RepairChord(d) ==
  IF "chord" \in d.done THEN d
  ELSE [d EXCEPT !.modes["default"] =
                   IF @.stockName /\ @.prompt = "empty" /\ @.hotkey = {"LeftMeta"}
                     THEN [@ EXCEPT !.hotkey = {"RightMeta"}] ELSE @,
                 !.done = @ \cup {"chord"}]

(* Once, on Windows: a default chord of any earlier version becomes         *)
(* RightCtrl, or nothing when another mode has exactly RightCtrl (the LIKE  *)
(* looks for the quoted token, so a longer chord that holds RightCtrl does  *)
(* not count).                                                              *)
WindowsDefaults == {{"LeftMeta"}, {"RightMeta"}, {"RightShift"}, {"RightAlt"}}

RepairWindowsChord(d, platform) ==
  IF platform # "win32" \/ "windows_chord" \in d.done THEN d
  ELSE LET taken == \E m \in ModeIds \ {"default"} :
                      d.modes[m] # None /\ d.modes[m].hotkey = {"RightCtrl"}
       IN [d EXCEPT !.modes["default"] =
                      IF @.stockName /\ @.prompt # "own" /\ @.hotkey \in WindowsDefaults
                        THEN [@ EXCEPT !.hotkey = IF taken THEN {} ELSE {"RightCtrl"}]
                        ELSE @,
                    !.done = @ \cup {"windows_chord"}]

(* Once: an empty prompt of a built-in mode becomes the stock prompt.       *)
RepairPrompts(d) ==
  IF "prompts" \in d.done THEN d
  ELSE [d EXCEPT !.modes = [m \in ModeIds |->
                   IF m \in BuiltIns /\ d.modes[m].prompt = "empty"
                     THEN [d.modes[m] EXCEPT !.prompt = "stock"] ELSE d.modes[m]],
                 !.done = @ \cup {"prompts"}]

(* seedIfNeeded, one transaction.                                           *)
Seeded(d, platform) ==
  RepairPrompts(RepairWindowsChord(RepairChord(SeedDictionary(SeedModes(d))), platform))

(* openStore throws: the file is no database.                               *)
OpenFails(d) == d.damage = "file"

(* A profile with every flag has the built-in modes: the transaction that   *)
(* set them inserted those, and no command deletes one.                     *)
HasBuiltIns(d) ==
  Flags \ {"windows_chord"} \subseteq d.done => \A m \in BuiltIns : d.modes[m] # None

FlagsOf(platform) == IF platform = "win32" THEN Flags ELSE Flags \ {"windows_chord"}

-----------------------------------------------------------------------------
(* What the user does to a profile through save_mode, create_mode and the   *)
(* dictionary page.                                                         *)

(* save_mode with the steal policy: every other mode whose chord overlaps   *)
(* loses its own.                                                           *)
ModeSaved(d, m, row) ==
  [d EXCEPT !.modes = [o \in ModeIds |->
     IF o = m THEN row
     ELSE IF d.modes[o] # None /\ Overlap(d.modes[o].hotkey, row.hotkey)
            THEN [d.modes[o] EXCEPT !.hotkey = {}]
            ELSE d.modes[o]]]

ModeCreated(d) ==
  [d EXCEPT !.modes["mine"] = [stockName |-> FALSE, prompt |-> "empty", hotkey |-> {}]]

(* save_dictionary_entry of a new entry.  A term is there once, whatever    *)
(* its entry's id: a second insert throws, also for a term the user let the *)
(* app learn.                                                              *)
TermTaken(d, t) == d.dictionary[t] # None
TermAdded(d, t) ==
  IF TermTaken(d, t) THEN d ELSE [d EXCEPT !.dictionary[t] = "user_added"]

TermDeleted(d, t) == [d EXCEPT !.dictionary[t] = None]

SettingsSaved(d, hide, login) ==
  [d EXCEPT !.hide_app_icon = hide, !.launch_at_login = login]

-----------------------------------------------------------------------------
(* A mode as an older version left it, or as the user made it since.        *)
Untouched(m, row) ==
  row = None \/ (m \in BuiltIns /\ row.stockName /\ row.prompt # "own")

(* What one boot may change in a profile: the user's own mode and a         *)
(* built-in mode with a prompt of the user's are left alone, no prompt of   *)
(* the user's is replaced, and once every flag is set nothing changes.      *)
KeepsUserData(old, new, platform) ==
  /\ new.modes["mine"] = old.modes["mine"]
  /\ \A m \in BuiltIns :
       old.modes[m] # None /\ old.modes[m].prompt = "own" => new.modes[m] = old.modes[m]
  /\ \A m \in BuiltIns :
       new.modes[m] # old.modes[m] => Untouched(m, old.modes[m]) \/ old.modes[m].prompt = "empty"
  /\ new.hide_app_icon = old.hide_app_icon /\ new.launch_at_login = old.launch_at_login
  /\ FlagsOf(platform) \subseteq old.done => new = old
=============================================================================
