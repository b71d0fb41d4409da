---------------------------- MODULE HistoryPage ----------------------------
(***************************************************************************)
(* The history page of the main window over the stored history records: the *)
(* optimistic delete with its undo window (pendingDeletes, HistoryPage, the *)
(* alert that offers the undo), "clear all", and the refreshes that bring   *)
(* the page the records (AppResources, get_app_model).                      *)
(*                                                                          *)
(* The page stays mounted while the window lives; quitting ends it, and on  *)
(* macOS closing the window does.  Requests and replies travel in order; a  *)
(* refresh that lists the microphones reads the records first and answers   *)
(* later.                                                                   *)
(***************************************************************************)
EXTENDS HistoryShape

CONSTANTS
  Old,     \* bound: the records stored at the start, which the user only clears
  InFlight, \* bound: with so many messages on their way, nothing new is asked for
  Faults   \* which calls may fail: "delete", "clear", "fetch"

ASSUME PageAssumption ==
  /\ Old \subseteq Records
  /\ {"voice", "permissions", "clear"} \cap Records = {}
  /\ InFlight \in Nat \ {0}
  /\ Faults \subseteq {"delete", "clear", "fetch"}

VARIABLES
  rows,         \* history_records
  made,         \* history: the records dictated so far
  model,        \* recentHistory of the model the page shows
  removed,      \* removedIds: the rows the page hides
  deletion,     \* per record: where its deferred delete stands
  offer,        \* the records with an undo alert
  clearing,     \* where clearAll stands
  toMain,       \* requests on their way
  toPage,       \* replies on their way
  enumerating,  \* what a slow refresh read, while main lists microphones
  wanted,       \* history: the user's last word on each record
  outdated      \* history: the model misses a change no later refresh brought

pageVars == <<model, removed, deletion, offer, clearing>>
wireVars == <<toMain, toPage, enumerating>>
vars == <<rows, made, pageVars, wireVars, wanted, outdated>>

Init ==
  /\ rows = Old /\ made = Old /\ model = Old /\ removed = {}
  /\ deletion = [r \in Records |-> "none"]
  /\ offer = {}
  /\ clearing = "none"
  /\ toMain = <<>> /\ toPage = <<>> /\ enumerating = {}
  /\ wanted = [r \in Records |-> "keep"]
  /\ outdated = FALSE

Shown == model \ removed

Quiet == Len(toMain) + Len(toPage) + Cardinality(enumerating) < InFlight

Deletes(r, stage) == deletion' = [deletion EXCEPT ![r] = stage]
Ask(request) == toMain' = Append(toMain, request)
Asked(kind) == \E i \in DOMAIN toMain : toMain[i] = kind
Wants(r, word) == wanted' = [wanted EXCEPT ![r] = word]

-----------------------------------------------------------------------------
(* Dictation.                                                              *)

(* appendHistory; a session that was overtaken leaves its record without a  *)
(* terminal event, so nothing asks for a refresh.                           *)
Dictate(r) ==
  /\ r \notin made /\ \A s \in Records : CreatedAt[s] < CreatedAt[r] => s \in made
  /\ rows' = rows \cup {r}
  /\ made' = made \cup {r}
  /\ Quiet
  /\ \/ /\ ~Asked(<<"fetch", "voice">>)
        /\ Ask(<<"fetch", "voice">>)
        /\ UNCHANGED outdated
     \/ UNCHANGED toMain /\ outdated' = TRUE
  /\ UNCHANGED <<pageVars, toPage, enumerating, wanted>>

-----------------------------------------------------------------------------
(* The deferred delete.                                                    *)

(* deleteRecord and schedule: hide the row, arm the timer, offer the undo.  *)
DeleteRow(r) ==
  /\ r \in Shown \ Old /\ deletion[r] = "none"
  /\ Deletes(r, "undoable")
  /\ removed' = removed \cup {r}
  /\ offer' = offer \cup {r}
  /\ Wants(r, "delete")
  /\ UNCHANGED <<rows, made, model, clearing, wireVars, outdated>>

(* Mutant of Undo: the row is back, and its timer still runs.               *)
UndoKeepsTimer(r) ==
  /\ r \in offer
  /\ offer' = offer \ {r}
  /\ removed' = removed \ {r}
  /\ Wants(r, "keep")
  /\ UNCHANGED <<rows, made, model, deletion, clearing, wireVars, outdated>>

(* The alert's action: undo, which does nothing once the delete was sent,   *)
(* and dismiss the alert.                                                   *)
Undo(r) ==
  /\ r \in offer
  /\ offer' = offer \ {r}
  /\ \/ /\ deletion[r] = "undoable"
        /\ Deletes(r, "none")
        /\ removed' = removed \ {r}
        /\ Wants(r, "keep")
     \/ /\ deletion[r] # "undoable"
        /\ UNCHANGED <<deletion, removed, wanted>>
  /\ UNCHANGED <<rows, made, model, clearing, wireVars, outdated>>

(* Mutant of Expire: the timer forgets the record it was armed for.         *)
ExpireForgets(r) ==
  /\ deletion[r] = "undoable"
  /\ Deletes(r, "none")
  /\ UNCHANGED <<rows, made, model, removed, offer, clearing, wireVars,
                 wanted, outdated>>

(* The window ends: commit.                                                *)
Expire(r) ==
  /\ deletion[r] = "undoable"
  /\ Deletes(r, "calling")
  /\ Ask(<<"delete", r>>)
  /\ UNCHANGED <<rows, made, model, removed, offer, clearing, toPage,
                 enumerating, wanted, outdated>>

(* The alert goes before it is used: its TTL, the leftover TTL timer of an  *)
(* earlier alert with its id, or the user's dismissal.                      *)
AlertExpires(r) ==
  /\ r \in offer
  /\ offer' = offer \ {r}
  /\ UNCHANGED <<rows, made, model, removed, deletion, clearing, wireVars, wanted, outdated>>

-----------------------------------------------------------------------------
(* clearAll: the native confirmation, then the call.                       *)
AskToClear ==
  /\ clearing = "none" /\ Shown # {}
  /\ clearing' = "confirm"
  /\ UNCHANGED <<rows, made, model, removed, deletion, offer, wireVars,
                 wanted, outdated>>

AnswerClear ==
  /\ clearing = "confirm" /\ Quiet
  /\ \/ clearing' = "none" /\ UNCHANGED toMain
     \/ clearing' = "calling" /\ Ask(<<"clear", "clear">>)
  /\ UNCHANGED <<rows, made, model, removed, deletion, offer, toPage,
                 enumerating, wanted, outdated>>

(* A permission changed: its panel asks for a refresh that lists the        *)
(* microphones.                                                             *)
RefreshSlowly ==
  /\ Quiet /\ enumerating = {} /\ ~Asked(<<"fetch", "permissions">>)
  /\ \A i \in DOMAIN toPage : toPage[i].cause # "permissions"
  /\ Ask(<<"fetch", "permissions">>)
  /\ UNCHANGED <<rows, made, pageVars, toPage, enumerating, wanted, outdated>>

-----------------------------------------------------------------------------
(* The main process.                                                       *)
Reply(kind, cause, records) ==
  toPage' = Append(toPage, [kind |-> kind, cause |-> cause, rows |-> records])

MainDeletes ==
  /\ Head(toMain)[1] = "delete"
  /\ LET r == Head(toMain)[2]
     IN \/ rows' = rows \ {r} /\ Reply("done", r, {})
        \/ "delete" \in Faults /\ UNCHANGED rows /\ Reply("failed", r, {})
  /\ UNCHANGED enumerating

MainClears ==
  /\ Head(toMain)[1] = "clear"
  /\ \/ rows' = {} /\ Reply("done", "clear", {})
     \/ "clear" \in Faults /\ UNCHANGED rows /\ Reply("failed", "clear", {})
  /\ UNCHANGED enumerating

(* get_app_model: the records are read, then the microphones awaited.      *)
MainReads ==
  /\ Head(toMain)[1] = "fetch"
  /\ UNCHANGED rows
  /\ LET cause == Head(toMain)[2]
     IN \/ /\ cause # "permissions" /\ Reply("model", cause, rows)
           /\ UNCHANGED enumerating
        \/ /\ cause = "permissions" /\ enumerating' = {rows}
           /\ UNCHANGED toPage
        \/ /\ "fetch" \in Faults /\ Reply("noModel", cause, {})
           /\ UNCHANGED enumerating

MainHandles ==
  /\ toMain # <<>>
  /\ toMain' = Tail(toMain)
  /\ MainDeletes \/ MainClears \/ MainReads
  /\ UNCHANGED <<made, pageVars, wanted, outdated>>

MicrophonesListed ==
  /\ enumerating # {}
  /\ \E read \in enumerating : Reply("model", "permissions", read)
  /\ enumerating' = {}
  /\ UNCHANGED <<rows, made, pageVars, toMain, wanted, outdated>>

-----------------------------------------------------------------------------
(* The replies.                                                            *)

(* The mutation failed: un-hide the row and say so.                        *)
DeleteFailed(r) ==
  /\ Deletes(r, "none")
  /\ removed' = removed \ {r}
  /\ Wants(r, "keep")
  /\ UNCHANGED <<model, clearing, toMain, outdated>>

(* Mutant of Mutated: a mutation is over once it was answered.              *)
MutatedUnrefreshed(cause) ==
  /\ \/ cause = "clear" /\ clearing' = "none" /\ UNCHANGED <<deletion, removed>>
     \/ /\ cause \in Records /\ Deletes(cause, "none") /\ removed' = removed \ {cause}
        /\ UNCHANGED clearing
  /\ UNCHANGED <<model, wanted, outdated, toMain>>

(* mutate goes on to refresh; nothing is un-hidden before that has landed.  *)
Mutated(cause) ==
  /\ Ask(<<"fetch", cause>>)
  /\ UNCHANGED <<model, removed, deletion, clearing, wanted, outdated>>

(* fetchInto landed, or failed and keeps the model it had: whoever waited   *)
(* for the refresh goes on.                                                 *)
Landed(cause) ==
  /\ \/ cause \in Records /\ Deletes(cause, "none") /\ removed' = removed \ {cause}
     \/ cause \notin Records /\ UNCHANGED <<deletion, removed>>
  /\ clearing' = IF cause = "clear" THEN "none" ELSE clearing
  /\ UNCHANGED <<wanted, toMain>>

PageHandles ==
  /\ toPage # <<>>
  /\ toPage' = Tail(toPage)
  /\ LET reply == Head(toPage)
     IN \/ /\ reply.kind = "model"
           /\ model' = reply.rows
           /\ outdated' = (model' # rows /\ (outdated \/ reply.cause = "permissions"))
           /\ Landed(reply.cause)
        \/ /\ reply.kind = "noModel"
           /\ model' = model
           /\ outdated' = TRUE
           /\ Landed(reply.cause)
        \/ reply.kind = "done" /\ Mutated(reply.cause)
        \/ reply.kind = "failed" /\ reply.cause \in Records /\ DeleteFailed(reply.cause)
        \/ /\ reply.kind = "failed" /\ reply.cause = "clear"
           /\ clearing' = "none"
           /\ UNCHANGED <<model, removed, deletion, wanted, outdated, toMain>>
  /\ UNCHANGED <<rows, made, offer, enumerating>>

-----------------------------------------------------------------------------
(* The application quits or the window is closed, whatever the page had in  *)
(* mind: its timers are gone, and no effect commits what they held.  The    *)
(* next window loads the records again.                                     *)
PageEnds ==
  /\ model' = rows /\ removed' = {}
  /\ deletion' = [r \in Records |-> "none"]
  /\ offer' = {} /\ clearing' = "none"
  /\ toMain' = <<>> /\ toPage' = <<>> /\ enumerating' = {}
  /\ wanted' = [r \in Records |-> IF r \in rows THEN "keep" ELSE wanted[r]]
  /\ outdated' = FALSE
  /\ UNCHANGED <<rows, made>>

Next ==
  \/ \E r \in Records :
       Dictate(r) \/ DeleteRow(r) \/ Undo(r) \/ Expire(r) \/ AlertExpires(r)
  \/ AskToClear \/ AnswerClear \/ RefreshSlowly
  \/ MainHandles \/ MicrophonesListed \/ PageHandles
  \/ PageEnds

Spec == Init /\ [][Next]_vars

(* Both event loops run, and timers fire.                                  *)
FairSpec ==
  /\ Spec
  /\ WF_vars(MainHandles) /\ WF_vars(PageHandles) /\ WF_vars(MicrophonesListed)
  /\ \A r \in Records : WF_vars(Expire(r))

-----------------------------------------------------------------------------
Replied(cause) == \E i \in DOMAIN toPage : toPage[i].cause = cause

(* A row is hidden exactly while its delete is under way: no order of       *)
(* undo, expiry, failure and refresh leaves a row hidden for good, or shows *)
(* one that is about to go.                                                 *)
HiddenWhileDeleted ==
  \A r \in Records :
    /\ r \in removed <=> deletion[r] # "none"
    /\ deletion[r] = "calling" =>
         \/ Replied(r) \/ \E i \in DOMAIN toMain : toMain[i][2] = r

(* Once nothing is under way, the page shows the stored records, unless it  *)
(* was never told of a change.                                              *)
Settled ==
  /\ toMain = <<>> /\ toPage = <<>> /\ enumerating = {}
  /\ \A r \in Records : deletion[r] = "none"
ViewFollowsStore == Settled /\ ~outdated => Shown = rows

(* What the page derives from its rows, at any time of day.                *)
Queries == {Blank} \cup UNION {Says[r] : r \in Records}
Nows == {CreatedAt[r] + DayLength - 1 : r \in Records}

(* The days, their headers and the filter chips, computed over those rows;  *)
(* the home page counts the rows of the model, deleted ones included.       *)
ListIsFaithful ==
  /\ DaysKeepOrder(Shown, Nows, Queries)
  /\ HeadersTellTheDay(Shown, Nows)
  /\ ChipsCountRows(Shown)
  /\ HomeCountsToday(model, Nows)

(* The page never shows what it should not: its types, hidden rows, the view *)
(* of the store, and what the list derives from it.                         *)
PageInv ==
  /\ rows \subseteq Records /\ model \subseteq Records /\ removed \subseteq Records
  /\ deletion \in [Records -> {"none", "undoable", "calling"}]
  /\ offer \subseteq Records
  /\ clearing \in {"none", "confirm", "calling"}
  /\ HiddenWhileDeleted
  /\ ViewFollowsStore
  /\ ListIsFaithful

(* A record goes only because the user's last word on it was to delete it,  *)
(* or because everything was cleared: an undone delete never reaches the    *)
(* store.                                                                   *)
OnlyWantedDeletes ==
  [][\A r \in rows \ rows' : wanted[r] = "delete" \/ Head(toMain)[1] = "clear"]_vars

(* A delete that nobody undid is carried out, unless it fails (and the user *)
(* is told) or the page ends before.                                        *)
DeletesArrive ==
  \A r \in Records : (wanted[r] = "delete") ~> (r \notin rows \/ wanted[r] = "keep")

(* "A successful delete never flashes back" (HistoryPage.tsx:77).  No run   *)
(* checks it: it fails when a slow refresh read the records before the      *)
(* delete and lands after the refresh that confirmed it.                    *)
NeverFlashesBack ==
  [][\A r \in Records : r \in Shown' \ Shown => r \in rows \/ wanted'[r] = "keep"]_vars
=============================================================================
