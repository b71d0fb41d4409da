----------------------------- MODULE ModeEditor -----------------------------
(***************************************************************************)
(* The modes page: the editor controller with its draft, its list of modes  *)
(* and its two debounced autosaves, the binding dialog that commits         *)
(* hotkeys, and the mode handlers of the main process behind a FIFO of IPC  *)
(* calls.  Everything the user does may meet a call in flight.              *)
(***************************************************************************)
EXTENDS Naturals, Sequences, FiniteSets, SequencesExt

CONSTANTS
  BuiltIn, Custom,   \* mode ids
  Existing,          \* the custom modes there are at first
  Names, Bodies,     \* what the user may type
  Chords,            \* hotkeys, any two of which are disjoint
  None,
  NewName, NewBody,  \* a created mode's
  MaxActs            \* bounds what the user does

Modes == BuiltIn \cup Custom
Mode == [name : Names \cup {NewName}, chord : Chords \cup {None}, body : Bodies \cup {NewBody}]
Drafts == [id : Modes, name : Names \cup {NewName}, chord : Chords \cup {None},
           body : Bodies \cup {NewBody}]
Dialogs == [id : Modes, nr : Nat, saving : BOOLEAN, had : BOOLEAN]

(* What awaits flushAll: a command, the replies it waits for, a failure.    *)
Commands == [do : {"collapse", "create"}] \cup [do : {"expand"}, id : Modes, mode : Mode]
Flow == [command : Commands, left : Nat, broken : BOOLEAN]

ASSUME IdsAssumption == Existing \subseteq Custom /\ BuiltIn \cap Custom = {}
ASSUME NoneAssumption == None \notin Modes \cup Chords \cup Mode \cup Drafts \cup Dialogs \cup Flow
ASSUME ActsAssumption == MaxActs \in Nat

VARIABLES
  store,            \* the rows of `modes`: an id to a mode, or None
  minted,           \* the ids handed out
  current,          \* settings.current_mode_id
  list,             \* the controller's modes, by id
  draft,            \* modeDraft, or None; its id is selectedModeId
  persistedMode, persistedPrompt,
  modeTimer, promptTimer,
  promptReady,      \* promptStatus
  dialog,           \* the open binding dialog, or None
  asking,           \* the mode whose deletion is to be confirmed, or None
  flow,             \* a command that awaits flushAll, or None
  inbox, outbox,    \* calls and replies on their way
  acts,
  wish,             \* per mode, what the user last entered
  robbed,           \* modes that lost their hotkey to another's commit
  crossed,          \* a user's step met a call that forgets it
  failed            \* some call failed

storeVars == <<store, minted, current>>
timerVars == <<modeTimer, promptTimer>>
draftVars == <<draft, persistedMode, persistedPrompt, timerVars, promptReady>>
historyVars == <<wish, robbed, crossed, failed>>
editorVars == <<storeVars, list, draftVars, dialog, asking, flow, inbox, outbox, acts, historyVars>>

EditorTypeOK ==
  /\ store \in [Modes -> Mode \cup {None}] /\ list \in [Modes -> Mode \cup {None}]
  /\ \A m \in BuiltIn : store[m] # None
  /\ current # None => store[current] # None
  /\ draft \in Drafts \cup {None} /\ dialog \in Dialogs \cup {None}
  /\ draft = None => persistedMode = None /\ persistedPrompt = None
  /\ flow \in Flow \cup {None}
  /\ wish \in [Modes -> Mode \cup {None}]
  /\ acts \in 0 .. MaxActs

Drafted(m, mode) == [id |-> m, name |-> mode.name, chord |-> mode.chord, body |-> mode.body]
Undrafted(d) == [name |-> d.name, chord |-> d.chord, body |-> d.body]
Disjoint(modes) ==
  \A m, n \in Modes : m # n /\ modes[m] # None /\ modes[n] # None /\ modes[m].chord # None
    => modes[m].chord # modes[n].chord

(* A page just hydrated from the store; nothing is selected.                *)
EditorInit ==
  /\ minted = BuiltIn \cup Existing
  /\ current \in minted \cup {None}
  /\ store \in [Modes -> [name : {NewName}, chord : Chords \cup {None}, body : {NewBody}] \cup {None}]
  /\ \A m \in Modes : store[m] # None <=> m \in minted
  /\ Disjoint(store)
  /\ list = store /\ wish = store
  /\ draft = None /\ persistedMode = None /\ persistedPrompt = None
  /\ modeTimer = FALSE /\ promptTimer = FALSE /\ promptReady = FALSE
  /\ dialog = None /\ asking = None /\ flow = None
  /\ inbox = <<>> /\ outbox = <<>> /\ acts = 0
  /\ robbed = {} /\ crossed = FALSE /\ failed = FALSE

Selected == IF draft = None THEN None ELSE draft.id

-----------------------------------------------------------------------------
(* The main process.  A handler is synchronous; its writes are transactions *)
(* of their own, which matters where one of them fails.                     *)

Conflicting(chord, m) == {n \in Modes \ {m} : store[n] # None /\ store[n].chord = chord}

(* Mutant of SaveMode: "steal" leaves the other modes as they are.          *)
SaveModeOnly(call, conflicts) == [store EXCEPT ![call.id] = call.mode]
(* save_mode: the conflicting modes lose their hotkeys.                     *)
SaveMode(call, conflicts) ==
  [m \in Modes |-> CASE m = call.id -> call.mode
                     [] m \in conflicts -> [store[m] EXCEPT !.chord = None]
                     [] OTHER -> store[m]]

Answer(call, ok) == outbox' = Append(outbox, [call |-> call, ok |-> ok])

(* save_mode updates only, and "reject" throws on a conflict.               *)
HandleSave(call) ==
  LET conflicts == IF call.mode.chord = None THEN {} ELSE Conflicting(call.mode.chord, call.id)
      accepted == store[call.id] # None /\ (call.policy = "reject" => conflicts = {})
  IN /\ Answer(call, accepted)
     /\ store' = IF accepted THEN SaveMode(call, conflicts) ELSE store
     /\ robbed' = IF accepted THEN robbed \cup conflicts ELSE robbed
     /\ failed' = (failed \/ ~accepted)
     /\ UNCHANGED <<minted, current>>

HandleCreate(call) ==
  \E m \in Custom \ minted :
    /\ store' = [store EXCEPT ![m] = [name |-> NewName, chord |-> None, body |-> NewBody]]
    /\ minted' = minted \cup {m}
    /\ Answer([call EXCEPT !.id = m], TRUE)
    /\ UNCHANGED <<current, failed, robbed>>

(* delete_mode: the current mode is a built-in one before its own goes.     *)
HandleDelete(call) ==
  /\ IF current = call.id /\ call.id \in Custom THEN current' \in BuiltIn ELSE UNCHANGED current
  /\ store' = [store EXCEPT ![call.id] = IF call.id \in BuiltIn THEN @ ELSE None]
  /\ Answer(call, TRUE)
  /\ UNCHANGED <<minted, failed, robbed>>

(* Whose hotkeys save_mode clears, one write each, before its own write.    *)
Stolen(call) ==
  IF call.do = "save" /\ call.policy = "steal" /\ call.mode.chord # None /\ store[call.id] # None
    THEN Conflicting(call.mode.chord, call.id) ELSE {}
Without(cleared) ==
  [m \in Modes |-> IF m \in cleared THEN [store[m] EXCEPT !.chord = None] ELSE store[m]]

(* A call that fails for a reason of its own, a save with "steal" perhaps   *)
(* after it cleared some of the others; once in a behaviour.                *)
CallFails(call) ==
  /\ ~failed /\ failed' = TRUE
  /\ Answer(call, FALSE)
  /\ \E cleared \in SUBSET Stolen(call) :
       store' = Without(cleared) /\ robbed' = robbed \cup cleared
  /\ UNCHANGED <<minted, current>>

MainReceives ==
  /\ inbox # <<>>
  /\ inbox' = Tail(inbox)
  /\ LET call == Head(inbox) IN
       \/ call.do = "save" /\ HandleSave(call)
       \/ call.do = "create" /\ HandleCreate(call)
       \/ call.do = "delete" /\ HandleDelete(call)
       \/ CallFails(call)
  /\ UNCHANGED <<list, draftVars, dialog, asking, flow, acts, wish, crossed>>

-----------------------------------------------------------------------------
(* The controller.                                                          *)

PromptKey(d) == IF d = None THEN None ELSE [id |-> d.id, body |-> d.body]
ModeUnsaved == draft # None /\ draft # persistedMode
PromptUnsaved == draft # None /\ PromptKey(draft) # persistedPrompt
(* persistDraft throws before it calls: the open mode is gone.              *)
Gone == (ModeUnsaved \/ PromptUnsaved) /\ list[draft.id] = None

(* persistDraft, up to its await.                                           *)
SaveCall(d, policy, adopt, who) ==
  [do |-> "save", id |-> d.id, mode |-> Undrafted(d), policy |-> policy,
   adopt |-> adopt, who |-> who]
ModeSave(who) == SaveCall(draft, "reject", "same mode key", who)
PromptSave(who) == SaveCall(draft, "reject", "same prompt key", who)

(* The effects of a changed draft clear the timers and arm them again.      *)
Rearm ==
  /\ modeTimer' = (draft' # None /\ draft' # persistedMode')
  /\ promptTimer' =
       IF promptReady' THEN draft' # None /\ PromptKey(draft') # persistedPrompt' ELSE promptTimer

(* adoptSelection, deselect.                                                *)
Select(d) ==
  /\ draft' = d
  /\ persistedMode' = d /\ persistedPrompt' = PromptKey(d)

(* Mutant of AutosaveFires: the timer saves what was armed, once.           *)
AutosaveFiresNever ==
  /\ modeTimer /\ modeTimer' = FALSE
  /\ UNCHANGED <<inbox, promptTimer>>
(* An autosave's timer.                                                     *)
AutosaveFires ==
  \/ /\ modeTimer /\ modeTimer' = FALSE
     /\ inbox' = IF ModeUnsaved /\ ~Gone THEN Append(inbox, ModeSave("autosave")) ELSE inbox
     /\ UNCHANGED promptTimer
  \/ /\ promptTimer /\ promptTimer' = FALSE
     /\ inbox' = IF PromptUnsaved /\ ~Gone THEN Append(inbox, PromptSave("autosave")) ELSE inbox
     /\ UNCHANGED modeTimer
TimerFires ==
  /\ AutosaveFires
  /\ UNCHANGED <<storeVars, list, draft, persistedMode, persistedPrompt, promptReady, dialog, asking,
                 flow, outbox, acts, historyVars>>

(* flushAll: both timers cleared, what is unsaved goes out.                 *)
Flushed(who) ==
  IF Gone THEN <<>> ELSE
  (IF ModeUnsaved THEN <<ModeSave(who)>> ELSE <<>>)
    \o (IF PromptUnsaved THEN <<PromptSave(who)>> ELSE <<>>)

(* What a command does once everything is flushed.                          *)
Proceed(command) ==
  CASE command.do = "collapse" ->
         Select(None) /\ UNCHANGED promptReady /\ Rearm /\ dialog' = None
    [] command.do = "expand" ->
         Select(Drafted(command.id, command.mode)) /\ promptReady' = TRUE /\ Rearm /\ dialog' = None
    [] OTHER -> UNCHANGED <<draft, persistedMode, persistedPrompt, promptReady, dialog, timerVars>>
Follows(command) ==
  IF command.do = "create" THEN <<[do |-> "create", id |-> None, who |-> "page"]>> ELSE <<>>

(* A command flushes, and waits when there was something to flush.          *)
Command(command) ==
  /\ flow = None
  /\ LET saves == Flushed("flush") IN
     IF Gone
       THEN /\ modeTimer' = FALSE /\ promptTimer' = FALSE
            /\ UNCHANGED <<draft, persistedMode, persistedPrompt, promptReady, dialog, flow, inbox>>
     ELSE IF saves = <<>>
       THEN /\ Proceed(command)
            /\ inbox' = inbox \o Follows(command)
            /\ UNCHANGED flow
       ELSE /\ modeTimer' = FALSE /\ promptTimer' = FALSE
            /\ inbox' = inbox \o saves
            /\ flow' = [command |-> command, left |-> Len(saves), broken |-> FALSE]
            /\ UNCHANGED <<draft, persistedMode, persistedPrompt, promptReady, dialog>>

(* Mutant of Adopted: the reply always becomes the draft.                   *)
AdoptedAlways(call) == Selected = call.id
(* persistDraft: is the reply still what the draft was?                     *)
Adopted(call) ==
  /\ Selected = call.id
  /\ \/ call.adopt = "if selected"
     \/ call.adopt = "same mode key" /\ Undrafted(draft) = call.mode
     \/ call.adopt = "same prompt key" /\ draft.body = call.mode.body

(* replaceMode; a mode deleted meanwhile does not come back.                *)
Listed(call) == IF list[call.id] = None THEN list ELSE [list EXCEPT ![call.id] = call.mode]

(* persistDraft, after its await.                                           *)
SaveReplied(call) ==
  /\ list' = Listed(call)
  /\ IF list[call.id] = None THEN UNCHANGED <<draft, persistedMode, persistedPrompt>>
     ELSE LET saved == Drafted(call.id, call.mode) IN
       /\ persistedMode' = IF Selected = call.id THEN saved ELSE persistedMode
       /\ persistedPrompt' = IF Selected = call.id THEN PromptKey(saved) ELSE persistedPrompt
       /\ draft' = IF Adopted(call) THEN saved ELSE draft

DialogAfter(call, ok) ==
  IF dialog = None \/ dialog.nr # call.nr THEN dialog
  ELSE IF ok THEN None ELSE [dialog EXCEPT !.saving = FALSE]

(* The last of a command's saves was answered: go on, unless one failed.    *)
FlowReplied(ok) ==
  LET broken == flow.broken \/ ~ok IN
  IF flow.left > 1
    THEN flow' = [flow EXCEPT !.left = @ - 1, !.broken = broken] /\ UNCHANGED inbox
    ELSE flow' = None /\ inbox' = IF broken THEN inbox ELSE inbox \o Follows(flow.command)
Proceeds(ok) == flow.left = 1 /\ ~flow.broken /\ ok

SaveReply(call, ok) ==
  /\ call.do = "save"
  /\ UNCHANGED <<wish, robbed, crossed, failed>>
  /\ IF call.who = "flush" /\ Proceeds(ok) /\ flow.command.do \in {"collapse", "expand"}
       THEN /\ list' = Listed(call)
            /\ Proceed(flow.command)
            /\ FlowReplied(ok)
       ELSE /\ IF ok THEN SaveReplied(call)
                     ELSE UNCHANGED <<list, draft, persistedMode, persistedPrompt>>
            /\ UNCHANGED promptReady
            /\ IF ok /\ list[call.id] # None /\ Adopted(call) THEN Rearm ELSE UNCHANGED timerVars
            /\ dialog' = IF call.who = "dialog" THEN DialogAfter(call, ok) ELSE dialog
            /\ IF call.who = "flush" THEN FlowReplied(ok) ELSE UNCHANGED <<flow, inbox>>

CreateReply(call, ok) ==
  /\ call.do = "create"
  /\ IF ok THEN LET mode == [name |-> NewName, chord |-> None, body |-> NewBody] IN
               /\ list' = [list EXCEPT ![call.id] = mode]
               /\ wish' = [wish EXCEPT ![call.id] = mode]
               /\ Select(Drafted(call.id, mode)) /\ promptReady' = TRUE /\ Rearm
          ELSE UNCHANGED <<list, draftVars, wish>>
  /\ UNCHANGED <<dialog, flow, inbox, robbed, crossed, failed>>

(* deleteMode, after its await: `selected` was read before it.              *)
DeleteReply(call, ok) ==
  /\ call.do = "delete"
  /\ UNCHANGED promptReady
  /\ IF ok THEN /\ list' = [list EXCEPT ![call.id] = None]
                /\ wish' = [wish EXCEPT ![call.id] = None]
                /\ dialog' = IF dialog # None /\ dialog.id = call.id THEN None ELSE dialog
                /\ IF call.selected THEN Select(None) /\ Rearm
                                    ELSE UNCHANGED <<draft, persistedMode, persistedPrompt, timerVars>>
          ELSE UNCHANGED <<list, wish, dialog, draft, persistedMode, persistedPrompt, timerVars>>
  /\ UNCHANGED <<flow, inbox, robbed, crossed, failed>>

RendererReceives ==
  /\ outbox # <<>>
  /\ outbox' = Tail(outbox)
  /\ LET reply == Head(outbox) IN
       \/ SaveReply(reply.call, reply.ok)
       \/ CreateReply(reply.call, reply.ok)
       \/ DeleteReply(reply.call, reply.ok)
  /\ UNCHANGED <<storeVars, asking, acts>>

-----------------------------------------------------------------------------
(* The user.                                                                *)

InFlight == {inbox[i] : i \in DOMAIN inbox} \cup {outbox[i].call : i \in DOMAIN outbox}
Calls(do) == {call \in InFlight : call.do = do}
(* Saves whose reply replaces a draft that has another name since.          *)
Overwriting == {call \in Calls("save") : call.adopt # "same mode key"}
FromDialog == {call \in Calls("save") : call.who = "dialog"}

Act ==
  /\ acts < MaxActs /\ acts' = acts + 1
  /\ asking = None
  /\ UNCHANGED <<storeVars, outbox, failed>>
Crossing(condition) == crossed' = (crossed \/ condition)

(* What an edit may meet: a command or a call that replaces the draft, and  *)
(* a save in flight when it goes back to what is stored or on its way.      *)
EditCrosses(d, overwriting) ==
  Crossing(\/ overwriting # {} \/ flow # None \/ Calls("delete") # {} \/ Calls("create") # {}
           \/ \E call \in Calls("save") : d = persistedMode \/ Undrafted(d) = call.mode)

Edit(d) ==
  /\ draft' = d /\ draft' # draft
  /\ UNCHANGED <<persistedMode, persistedPrompt, promptReady>>
  /\ Rearm
  /\ UNCHANGED <<list, dialog, flow, inbox, robbed>>

(* updateName: only a custom mode's card has the field.                     *)
EditName(name) ==
  /\ Act /\ UNCHANGED asking
  /\ draft # None /\ draft.id \in Custom /\ list[draft.id] # None /\ dialog = None
  /\ Edit([draft EXCEPT !.name = name])
  /\ wish' = [wish EXCEPT ![draft.id].name = name]
  /\ EditCrosses([draft EXCEPT !.name = name], Overwriting)
EditBody(body) ==
  /\ Act /\ UNCHANGED asking
  /\ draft # None /\ list[draft.id] # None /\ dialog = None
  /\ Edit([draft EXCEPT !.body = body])
  /\ wish' = [wish EXCEPT ![draft.id].body = body]
  /\ EditCrosses([draft EXCEPT !.body = body], FromDialog)

(* toggleModeById: the record is the list's at the click.                   *)
Toggle(m) ==
  /\ Act /\ UNCHANGED asking
  /\ dialog = None
  /\ list[m] # None
  /\ Command(IF m = Selected THEN [do |-> "collapse"]
             ELSE [do |-> "expand", id |-> m, mode |-> list[m]])
  /\ Crossing(FromDialog # {} \/ Calls("delete") # {} \/ Calls("create") # {})
  /\ UNCHANGED <<list, wish, robbed>>

(* createMode.                                                              *)
Create ==
  /\ Act /\ UNCHANGED asking
  /\ dialog = None
  /\ Cardinality(minted) + Cardinality(Calls("create")) < Cardinality(Modes)
  /\ Command([do |-> "create"])
  /\ Crossing(FromDialog # {} \/ Calls("delete") # {} \/ Calls("create") # {})
  /\ UNCHANGED <<list, wish, robbed>>

(* The delete button asks in a modal window.                                *)
AskDelete ==
  /\ Act
  /\ draft # None /\ draft.id \in Custom /\ list[draft.id] # None
  /\ dialog = None
  /\ asking' = draft.id
  /\ UNCHANGED <<list, draftVars, dialog, flow, inbox, wish, robbed, crossed>>
Refuse ==
  /\ asking # None /\ asking' = None
  /\ UNCHANGED <<storeVars, list, draftVars, dialog, flow, inbox, outbox, acts, historyVars>>
(* deleteMode: a reply may have opened another card meanwhile.              *)
Delete(m) ==
  /\ asking = m /\ asking' = None
  /\ inbox' = Append(inbox, [do |-> "delete", id |-> m, selected |-> Selected = m])
  /\ Crossing(flow # None \/ Calls("create") # {} \/ Calls("delete") # {})
  /\ UNCHANGED <<storeVars, list, draftVars, dialog, flow, outbox, acts, wish, robbed, failed>>

(* The page is left: the dialog closes, everything is flushed.              *)
LeavePage ==
  /\ Act /\ UNCHANGED asking
  /\ ModeUnsaved \/ PromptUnsaved
  /\ dialog' = None
  /\ inbox' = inbox \o Flushed("leave")
  /\ modeTimer' = FALSE /\ promptTimer' = FALSE
  /\ UNCHANGED <<list, draft, persistedMode, persistedPrompt, promptReady, flow, wish, robbed, crossed>>

(* The binding dialog; it knows the hotkey the mode had when it opened.     *)
ChordOf(m) == IF m = Selected /\ draft.chord # None THEN draft.chord ELSE list[m].chord
OpenDialog(m) ==
  /\ Act /\ UNCHANGED asking
  /\ dialog = None /\ list[m] # None
  /\ dialog' = [id |-> m, nr |-> acts, saving |-> FALSE, had |-> ChordOf(m) # None]
  /\ UNCHANGED <<list, draftVars, flow, inbox, wish, robbed, crossed>>
CloseDialog ==
  /\ Act /\ UNCHANGED asking
  /\ dialog # None /\ dialog' = None
  /\ UNCHANGED <<list, draftVars, flow, inbox, wish, robbed, crossed>>

(* draftForMode: the live draft of the open mode, the record of another.    *)
BaseDraft(m) == IF m = Selected THEN draft ELSE Drafted(m, list[m])

(* Its save; a reply is told from another's by the number of the dialog.     *)
HotkeySave(d, policy, nr) ==
  [do |-> "save", id |-> d.id, mode |-> Undrafted(d), policy |-> policy,
   adopt |-> "if selected", who |-> "dialog", nr |-> nr]

(* commitHotkeyFor, clearHotkeyFor.  The dialog looks for conflicts in the   *)
(* controller's list.                                                       *)
DialogSaves(chord, policy) ==
  /\ ~dialog.saving
  /\ dialog' = [dialog EXCEPT !.saving = TRUE]
  /\ inbox' = Append(inbox,
       HotkeySave([BaseDraft(dialog.id) EXCEPT !.chord = chord], policy, dialog.nr))
  /\ Crossing(modeTimer \/ promptTimer \/ InFlight # {} \/ flow # None)
  /\ UNCHANGED <<list, draftVars, flow>>
Commit(chord) ==
  /\ Act /\ UNCHANGED asking
  /\ dialog # None /\ list[dialog.id] # None
  /\ LET others == {m \in Modes \ {dialog.id} : list[m] # None /\ list[m].chord = chord} IN
     /\ DialogSaves(chord, IF others = {} THEN "reject" ELSE "steal")
     /\ wish' = [m \in Modes |->
          CASE m = dialog.id -> [wish[m] EXCEPT !.chord = chord]
            [] m \in others -> [wish[m] EXCEPT !.chord = None]
            [] OTHER -> wish[m]]
  /\ UNCHANGED robbed
Clear ==
  /\ Act /\ UNCHANGED asking
  /\ dialog # None /\ dialog.had /\ list[dialog.id] # None
  /\ DialogSaves(None, "reject")
  /\ wish' = [wish EXCEPT ![dialog.id].chord = None]
  /\ UNCHANGED robbed

UserStep ==
  \/ \E name \in Names : EditName(name)
  \/ \E body \in Bodies : EditBody(body)
  \/ \E m \in Modes : Toggle(m) \/ OpenDialog(m) \/ Delete(m)
  \/ AskDelete \/ Refuse \/ Create \/ LeavePage \/ CloseDialog \/ Clear
  \/ \E chord \in Chords : Commit(chord)

EditorNext == MainReceives \/ RendererReceives \/ TimerFires \/ UserStep

(* Timers fire, both processes serve their queues.                          *)
EditorSpec ==
  /\ EditorInit /\ [][EditorNext]_editorVars
  /\ WF_editorVars(TimerFires) /\ WF_editorVars(MainReceives) /\ WF_editorVars(RendererReceives)
-----------------------------------------------------------------------------
(* Properties.                                                              *)

(* Two modes never share a hotkey in the store, whatever stale list or      *)
(* draft a save was made from.                                              *)
HotkeysDisjoint == Disjoint(store)

(* Once every call was answered the page's list is the store, but for modes *)
(* that lost their hotkey to another one's, which the page is not told.     *)
ListFollowsStore ==
  inbox = <<>> /\ outbox = <<>> => \A m \in Modes \ robbed : list[m] = store[m]

(* The state of the page and the two relations of its list and the store.   *)
EditorInv == EditorTypeOK /\ HotkeysDisjoint /\ ListFollowsStore

(* When timers and calls have come to rest, what the user entered last is   *)
(* stored, unless a call failed or the entry crossed a call.                *)
Quiet == inbox = <<>> /\ outbox = <<>> /\ ~modeTimer /\ ~promptTimer
EntriesAreKept ==
  Quiet /\ ~failed /\ ~crossed => \A m \in Modes \ robbed : store[m] = wish[m]

(* An unsaved draft does not stay unsaved: it is stored, or the user is     *)
(* told of a failure, with the same exceptions.                             *)
EditIsSaved == ModeUnsaved ~> (~ModeUnsaved \/ failed \/ crossed)

(* A toggle that waits for its flush drops no edit of the card it leaves:   *)
(* the comment on selectMode and toggleMode.                                *)
SwitchKeepsEdits ==
  [][flow # None /\ flow.command.do # "create" /\ Selected' # Selected /\ Head(outbox).call.do = "save"
       => Undrafted(draft) = Head(outbox).call.mode]_editorVars
=============================================================================
