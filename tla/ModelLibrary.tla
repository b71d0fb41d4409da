---------------------------- MODULE ModelLibrary ----------------------------
(***************************************************************************)
(* The main window over the store: AppResources, which holds a snapshot of  *)
(* the store and refreshes it, the settings controls and the models page,   *)
(* whose flows are sequences of IPC calls with a wait at each.  Requests    *)
(* and replies travel in order; a provider test and a microphone            *)
(* enumeration are answered later than what was asked after them.           *)
(*                                                                         *)
(* MaxClicks bounds the user, Pages the flows that run at once.             *)
(***************************************************************************)
EXTENDS AppStore, Sequences, SequencesExt

CONSTANTS
  Pages,      \* flows of the pages that may run at once
  Chrome,     \* the chain of theme and locale saves, chromePersistChain
  MaxClicks   \* bounds what the user does

ASSUME ChromeAssumption == Chrome \notin Pages
ASSUME ClicksAssumption == MaxClicks \in Nat

VARIABLES
  snapshot,   \* the renderer's AppModel, or None until it is ready
  todo,       \* per flow: the calls it still makes, the first one in flight
  payload,    \* per flow: what travels with its request or its reply
  origin,     \* per flow: the card it belongs to, "form", or None
  inbox,      \* flows whose request is on its way to the main process
  waiting,    \* flows whose call the main process is awaiting
  outbox,     \* replies on their way back
  form,       \* the add or edit form, or None
  clicks,
  intent,     \* the user's last choice for every setting
  overlapped, \* a settings click met another flow than the chain's own
  failed,     \* some call failed
  revived     \* ids deleted and then saved again

uiVars == <<snapshot, form, clicks, intent>>
historyVars == <<overlapped, failed, revived>>
flowVars == <<todo, payload, origin, inbox, waiting, outbox>>
vars == <<storeVars, uiVars, flowVars, historyVars>>

Flows == Pages \cup {Chrome}

(* get_app_model with its reason; two reasons enumerate the microphones.    *)
Get(reason) == [do |-> "get", reason |-> reason]
MicReasons == {"initial", "permissions"}
Set(field, value) == [do |-> "settings", field |-> field, value |-> value]
Save(id, req) == [do |-> "save", id |-> id, req |-> req]
Delete(id) == [do |-> "delete", id |-> id]
(* onError: the calls that follow a test that rejects.                      *)
Test(id, onError) == [do |-> "test", id |-> id, onError |-> onError]
Activate(cap) == [do |-> "activate", capability |-> cap]

(* get_app_model's answer; null is none, and no card's flow.                *)
Models == [settings : Settings, config : [Configs -> Rows \cup {None}]]
ModelNow == [settings |-> settings, config |-> config]

ASSUME ModelsAssumption == None \notin Models \cup {"form"}

LibraryTypeOK ==
  /\ StoreTypeOK
  /\ snapshot = None \/ snapshot \in Models
  /\ intent \in Settings
  /\ origin \in [Flows -> Configs \cup {"form", None}]
  /\ inbox \in Seq(Flows) /\ waiting \subseteq Flows
  /\ \A f \in Flows : todo[f] = <<>> => f \notin waiting
  /\ form = None \/ form.id \in Configs \cup {None}
  /\ clicks \in 0 .. MaxClicks
  /\ revived \subseteq minted

(* The form on a config, or on a new one; it keeps is_default as it is now. *)
Opened(id, is_default) == [id |-> id, is_default |-> is_default, flow |-> None]
EditForms(rs) == {Opened(c, rs[c].is_default) : c \in Existing(rs)}
AddForms == {Opened(None, is_default) : is_default \in BOOLEAN}

(* A window whose loadInitial is under way, or one that the user has loaded *)
(* and in which a form may be open.                                         *)
Init ==
  /\ StoreInit
  /\ clicks = 0 /\ intent = settings
  /\ \E f \in Pages :
       \/ /\ snapshot = None /\ form = None
          /\ todo = [g \in Flows |-> IF g = f THEN <<Get("initial")>> ELSE <<>>]
          /\ inbox = <<f>>
       \/ /\ snapshot = ModelNow /\ form \in {None} \cup EditForms(config) \cup AddForms
          /\ todo = [g \in Flows |-> <<>>]
          /\ inbox = <<>>
  /\ payload = [f \in Flows |-> None]
  /\ origin = [f \in Flows |-> None]
  /\ waiting = {} /\ outbox = <<>>
  /\ overlapped = FALSE /\ failed = FALSE /\ revived = {}

Idle(f) == todo[f] = <<>>
Busy == {f \in Flows : ~Idle(f)}
Rest == Busy = {}

-----------------------------------------------------------------------------
(* The main process.                                                        *)

Reply(f, ok) == outbox' = Append(outbox, [flow |-> f, ok |-> ok])

(* The call fails: an exception crosses IPC, nothing was stored.  A         *)
(* behaviour has one failure at most, a bound.                              *)
CallFails(f) ==
  /\ ~failed
  /\ Reply(f, FALSE)
  /\ failed' = TRUE
  /\ UNCHANGED <<storeVars, payload, revived>>

HandleSettings(f) ==
  /\ SaveSettings(payload[f])
  /\ Reply(f, TRUE)
  /\ UNCHANGED <<payload, waiting, failed, revived>>

HandleSave(f, call) ==
  \E c \in IF call.id = None THEN Configs \ minted ELSE {call.id} :
    /\ PersistConfig(c, call.req)
    /\ revived' = IF c \in minted /\ config[c] = None THEN revived \cup {c} ELSE revived
    /\ payload' = [payload EXCEPT ![f] = c]
    /\ Reply(f, TRUE)
    /\ UNCHANGED <<waiting, failed>>

HandleDelete(f, call) ==
  /\ DeleteConfig(call.id)
  /\ Reply(f, TRUE)
  /\ UNCHANGED <<payload, waiting, failed, revived>>

(* Mutant of HandleTest: a config that is gone is not answered.             *)
HandleTestIfThere(f, call) ==
  /\ payload' = [payload EXCEPT ![f] = [row |-> config[call.id], key |-> secret[call.id]]]
  /\ waiting' = IF config[call.id] = None THEN waiting ELSE waiting \cup {f}
  /\ UNCHANGED <<storeVars, outbox, failed, revived>>
(* test_provider_config, up to its wait: the row and the key as they are.   *)
HandleTest(f, call) ==
  /\ payload' = [payload EXCEPT ![f] = [row |-> config[call.id], key |-> secret[call.id]]]
  /\ waiting' = waiting \cup {f}
  /\ UNCHANGED <<storeVars, outbox, failed, revived>>

(* get_app_model: the store is read before the microphones are.  The first  *)
(* one of a window enumerates them, so that later ones find lastMicrophones.*)
HandleGet(f, call) ==
  /\ payload' = [payload EXCEPT ![f] = ModelNow]
  /\ IF call.reason \in MicReasons
       THEN waiting' = waiting \cup {f} /\ UNCHANGED outbox
       ELSE Reply(f, TRUE) /\ UNCHANGED waiting
  /\ UNCHANGED <<storeVars, failed, revived>>

MainReceives ==
  /\ inbox # <<>>
  /\ LET f == Head(inbox)
         call == Head(todo[f])
     IN /\ \/ call.do = "settings" /\ HandleSettings(f)
           \/ call.do = "save" /\ HandleSave(f, call)
           \/ call.do = "delete" /\ HandleDelete(f, call)
           \/ call.do = "test" /\ HandleTest(f, call)
           \/ call.do = "get" /\ HandleGet(f, call)
           \/ CallFails(f) /\ UNCHANGED waiting
        /\ inbox' = Tail(inbox)
  /\ UNCHANGED <<uiVars, todo, origin, overlapped>>

(* The provider answers: whatever row has the id now takes the stamp.       *)
TestEnds(f) ==
  /\ f \in waiting
  /\ LET call == Head(todo[f]) IN
     /\ call.do = "test"
     /\ \E status \in TestOutcomes(payload[f].row, payload[f].key) : StampConfig(call.id, status)
  /\ Reply(f, TRUE)
  /\ waiting' = waiting \ {f}
  /\ UNCHANGED <<uiVars, todo, payload, origin, inbox, historyVars>>

EnumerationEnds(f) ==
  /\ f \in waiting
  /\ Head(todo[f]).do = "get"
  /\ Reply(f, TRUE)
  /\ waiting' = waiting \ {f}
  /\ UNCHANGED <<storeVars, uiVars, todo, payload, origin, inbox, historyVars>>

AwaitFails(f) ==
  /\ f \in waiting
  /\ CallFails(f)
  /\ waiting' = waiting \ {f}
  /\ UNCHANGED <<uiVars, todo, origin, inbox, overlapped>>

-----------------------------------------------------------------------------
(* The renderer: a reply ends a wait and the flow makes its next call.      *)

(* What is left to do once the id of a saved config is known.               *)
WithSaved(calls, c) ==
  [i \in DOMAIN calls |->
     CASE calls[i].do = "test" -> [calls[i] EXCEPT !.id = c]
       [] calls[i].do = "activate" -> Set(calls[i].capability, c)
       [] OTHER -> calls[i]]

(* A failed settings save skips its refresh; a failed refresh is ignored.   *)
Following(f, reply) ==
  LET call == Head(todo[f])
      rest == Tail(todo[f])
  IN IF reply.ok THEN IF call.do = "save" THEN WithSaved(rest, payload[f]) ELSE rest
     ELSE CASE call.do = "get" -> rest
            [] call.do = "test" -> call.onError
            [] call.do = "settings" -> Tail(rest)
            [] OTHER -> <<>>

(* The calls of a flow, the first of which goes out.  mutateAppSettings     *)
(* sends the whole blob, its patch merged onto the snapshot.                *)
Run(f, calls) ==
  /\ todo' = [todo EXCEPT ![f] = calls]
  /\ payload' = [payload EXCEPT ![f] =
       IF calls # <<>> /\ Head(calls).do = "settings"
         THEN [snapshot'.settings EXCEPT ![Head(calls).field] = Head(calls).value]
         ELSE None]
  /\ inbox' = IF calls = <<>> THEN inbox ELSE Append(inbox, f)

(* The form of a finished verify is ready again, knows its config, and is   *)
(* closed by onSaved, as is any other form opened meanwhile.                *)
FormAfter(f, reply, calls) ==
  LET call == Head(todo[f]) IN
  IF form = None \/ origin[f] # "form" THEN form
  ELSE IF call.do = "get" /\ calls = <<>> THEN None
  ELSE IF form.flow # f THEN form
  ELSE IF call.do = "save" /\ reply.ok
    THEN [form EXCEPT !.id = payload[f], !.is_default = call.req.is_default]
  ELSE IF call.do \in {"save", "test"} THEN [form EXCEPT !.flow = None]
  ELSE form

RendererReceives ==
  /\ outbox # <<>>
  /\ LET reply == Head(outbox)
         f == reply.flow
         calls == Following(f, reply)
     IN /\ snapshot' = IF Head(todo[f]).do = "get" /\ reply.ok THEN payload[f] ELSE snapshot
        /\ Run(f, calls)
        /\ form' = FormAfter(f, reply, calls)
        /\ origin' = IF calls = <<>> THEN [origin EXCEPT ![f] = None] ELSE origin
        /\ intent' = IF origin[f] = "form" /\ calls # <<>> /\ Head(calls).do = "settings"
                       THEN [intent EXCEPT ![Head(calls).field] = Head(calls).value]
                       ELSE intent
  /\ outbox' = Tail(outbox)
  /\ UNCHANGED <<storeVars, waiting, clicks, historyVars>>

(* Thirty seconds: the form goes on without the answer, which is dropped    *)
(* when it comes.  A save that is late leaves nothing to activate.          *)
VerifyTimesOut(f, g) ==
  /\ origin[f] = "form" /\ Idle(g)
  /\ LET call == Head(todo[f]) IN
     /\ call.do \in {"save", "test"}
     /\ LET rest == IF call.do = "save" THEN <<Get("provider")>> ELSE Tail(todo[f])
            settingsNext == Head(rest).do = "settings"
        IN /\ todo' = [todo EXCEPT ![f] = <<call>>, ![g] = rest]
           /\ payload' = [payload EXCEPT ![g] =
                IF settingsNext
                  THEN [snapshot.settings EXCEPT ![Head(rest).field] = Head(rest).value]
                  ELSE None]
           /\ intent' = IF settingsNext
                          THEN [intent EXCEPT ![Head(rest).field] = Head(rest).value]
                          ELSE intent
           /\ inbox' = Append(inbox, g)
  /\ origin' = [origin EXCEPT ![f] = None, ![g] = "form"]
  /\ form' = IF form # None /\ form.flow = f THEN [form EXCEPT !.flow = None] ELSE form
  /\ UNCHANGED <<storeVars, snapshot, waiting, outbox, clicks, historyVars>>

-----------------------------------------------------------------------------
(* The user.                                                                *)

Click ==
  /\ snapshot # None
  /\ clicks < MaxClicks
  /\ clicks' = clicks + 1
  /\ UNCHANGED <<storeVars, snapshot, waiting, outbox, failed, revived>>

(* The flows whose saves or slow readings a settings change may cross.      *)
Unsettled ==
  {f \in Flows : \E i \in DOMAIN todo[f] :
     \/ todo[f][i].do \in {"settings", "activate"}
     \/ todo[f][i].do = "get" /\ todo[f][i].reason \in MicReasons \cup {"settings"}}
Crossing(others) == overlapped' = (overlapped \/ Unsettled \ others # {})

Start(f, calls, who) ==
  /\ Idle(f)
  /\ Run(f, calls)
  /\ origin' = [origin EXCEPT ![f] = who]

(* Mutant of ChangeTheme: the saves are not chained.                        *)
ChangeThemeAtOnce(t) ==
  /\ Click
  /\ t # intent.theme
  /\ intent' = [intent EXCEPT !.theme = t]
  /\ \E f \in Pages : Start(f, <<Set("theme", t), Get("settings")>>, None)
  /\ Crossing(Flows)
  /\ UNCHANGED form
(* setTheme, persistChrome: at the end of the chain.                        *)
ChangeTheme(t) ==
  /\ Click
  /\ t # intent.theme
  /\ intent' = [intent EXCEPT !.theme = t]
  /\ IF Idle(Chrome)
       THEN Start(Chrome, <<Set("theme", t), Get("settings")>>, None)
       ELSE /\ todo' = [todo EXCEPT ![Chrome] = @ \o <<Set("theme", t), Get("settings")>>]
            /\ UNCHANGED <<payload, inbox, origin>>
  /\ Crossing({Chrome})
  /\ UNCHANGED form

(* engineModeUsesCapability; the wiring the board and the cards show.       *)
Uses(mode, cap) == (mode = "omni") = (cap = "omni")
Wired(cap) ==
  IF cap = "omni" THEN ResolveActiveProvider(snapshot.settings, snapshot.config)
  ELSE ResolveSlot(snapshot.settings, snapshot.config, cap)

(* What the controls offer: the other engine mode, activating a card that   *)
(* is not active, clearing a slot unless the default would fill it again.   *)
Offered(field, value) ==
  IF field = "engine_mode" THEN value # snapshot.settings.engine_mode
  ELSE /\ Uses(snapshot.settings.engine_mode, field)
       /\ IF value # None THEN Wired(field) # value
          ELSE /\ Wired(field) # None /\ snapshot.settings[field] # None
               /\ field = "omni" =>
                    Wired(field) # ResolveActiveProvider([snapshot.settings EXCEPT !.omni = None],
                                                         snapshot.config)

(* mutateAppSettings from a control of a page.                              *)
ChangeSetting(f, field, value) ==
  /\ Click
  /\ Offered(field, value)
  /\ intent' = [intent EXCEPT ![field] = value]
  /\ Start(f, <<Set(field, value), Get("settings")>>, None)
  /\ Crossing({})
  /\ UNCHANGED form

(* The engine board: its mode and its clear buttons.                        *)
ChangeEngineMode(f) == \E mode \in EngineModes : ChangeSetting(f, "engine_mode", mode)
ClearSlot(f) == \E cap \in Capabilities : ChangeSetting(f, cap, None)

(* The card of c is being verified.                                         *)
Verifying(c) == \E f \in Flows : origin[f] = c
Cards == Existing(snapshot.config)

(* A card's activate button.                                                *)
SetActive(f, c) ==
  /\ snapshot # None
  /\ c \in Cards
  /\ ChangeSetting(f, snapshot.config[c].capability, c)

Reverify(f, c) ==
  /\ Click
  /\ c \in Cards /\ ~Verifying(c)
  /\ Start(f, <<Test(c, <<>>), Get("provider")>>, c)
  /\ UNCHANGED <<form, intent, overlapped>>

(* switchModel saves the row as the card shows it, with another model.      *)
SwitchModel(f, c) ==
  /\ Click
  /\ c \in Cards /\ ~Verifying(c)
  /\ LET row == snapshot.config[c]
         req == [capability |-> row.capability,
                 is_default |-> row.capability = "omni" /\ row.is_default, key |-> None]
     IN Start(f, <<Save(c, req), Test(c, <<Get("provider")>>), Get("provider")>>, c)
  /\ UNCHANGED <<form, intent, overlapped>>

RemoveConfig(f, c) ==
  /\ Click
  /\ c \in Cards
  /\ Start(f, <<Delete(c), Get("provider")>>, None)
  /\ UNCHANGED <<form, intent, overlapped>>

(* pickVendor, editConfig, closeAddFlow.                                    *)
TurnForm(forms) ==
  /\ Click
  /\ form' \in forms /\ form' # form
  /\ UNCHANGED <<intent, overlapped, todo, payload, origin, inbox>>

Minting == {f \in Flows : \E i \in DOMAIN todo[f] : todo[f][i].do = "save" /\ todo[f][i].id = None}

(* saveAndVerify: a new config needs a key; an edit may keep the old one.   *)
SaveForm(f, cap, key, activate) ==
  /\ Click
  /\ form # None
  /\ form.flow = None
  /\ form.id = None => key # None /\ Cardinality(minted) + Cardinality(Minting) < Cardinality(Configs)
  /\ activate => Uses(snapshot.settings.engine_mode, cap)
  /\ LET req == [capability |-> cap,
                 is_default |-> cap = "omni" /\ form.is_default, key |-> key]
     IN Start(f, <<Save(form.id, req), Test(form.id, <<>>)>>
                 \o (IF activate THEN <<Activate(cap), Get("settings")>> ELSE <<>>) \o <<Get("provider")>>, "form")
  /\ form' = [form EXCEPT !.flow = f]
  /\ IF activate THEN Crossing({}) ELSE UNCHANGED overlapped
  /\ UNCHANGED intent

(* A dictation that ended refreshes the model; so does a change of          *)
(* permissions, which enumerates the microphones again.                     *)
Refresh(f, reason) ==
  /\ Click
  /\ Start(f, <<Get(reason)>>, None)
  /\ IF reason \in MicReasons THEN Crossing({}) ELSE UNCHANGED overlapped
  /\ UNCHANGED <<form, intent>>

-----------------------------------------------------------------------------
UserStep ==
  \/ \E t \in Themes : ChangeTheme(t)
  \/ TurnForm({None} \cup AddForms)
  \/ snapshot # None /\ TurnForm(EditForms(snapshot.config))
  \/ \E f \in Pages :
       \/ ChangeEngineMode(f)
       \/ ClearSlot(f)
       \/ \E c \in Configs :
            \/ SetActive(f, c)
            \/ Reverify(f, c)
            \/ SwitchModel(f, c)
            \/ RemoveConfig(f, c)
       \/ \E cap \in Capabilities, key \in Keys \cup {None}, activate \in BOOLEAN :
            SaveForm(f, cap, key, activate)
       \/ \E reason \in {"voice-terminal", "permissions"} : Refresh(f, reason)

AwaitEnds(f) == TestEnds(f) \/ EnumerationEnds(f) \/ AwaitFails(f)

Next ==
  \/ MainReceives \/ RendererReceives
  \/ \E f \in Flows : AwaitEnds(f)
  \/ \E f, g \in Pages : VerifyTimesOut(f, g)
  \/ UserStep

Spec == Init /\ [][Next]_vars
-----------------------------------------------------------------------------
(* Properties.                                                              *)

(* However saves cross, at most one config is flagged as the default.       *)
SingleDefault ==
  \A c, d \in Existing(config) : config[c].is_default /\ config[d].is_default => c = d

(* No key outlives the config it was entered for.                           *)
KeysHaveOwners == \A c \in Configs : secret[c] # None => config[c] # None

(* What every crossing of saves, tests and deletes leaves of the stored     *)
(* configs: their types, one default, and no key without its config.        *)
LibraryInv == LibraryTypeOK /\ SingleDefault /\ KeysHaveOwners

(* readiness and makeResolveSession judge alike: what is shown as ready can *)
(* be dictated with, save for an id that was deleted and saved again.       *)
ReadyMeansResolved ==
  Ready(settings, config) /\ Needed(settings, config) \cap revived = {} => SessionResolves

(* The same without the exception: what the comment in sessionRuntime says. *)
NeverReadyInVain == Ready(settings, config) => SessionResolves

(* A setting the user chose is what the store and the window end up with,   *)
(* unless a call failed or two flows crossed; theme changes never cross     *)
(* each other.                                                              *)
ChosenIsKept ==
  Rest /\ ~failed /\ ~overlapped =>
    settings = intent /\ (snapshot # None => snapshot.settings = settings)

(* The same for flows that cross: what the comment in appStore says.        *)
ConcurrentChangeKept == Rest /\ ~failed => settings = intent

(* Every call a flow waits for is answered once: its request, the main      *)
(* process's wait or its reply is there, whatever fails or is deleted, so   *)
(* no card stays in "verifying".                                            *)
Pending(f) ==
  Cardinality({i \in DOMAIN inbox : inbox[i] = f})
    + Cardinality({f} \cap waiting)
    + Cardinality({i \in DOMAIN outbox : outbox[i].flow = f})
CallsAreAnswered == \A f \in Flows : Pending(f) = IF Idle(f) THEN 0 ELSE 1
=============================================================================
