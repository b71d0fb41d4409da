----------------------- MODULE PostInsertObservation -----------------------
(***************************************************************************)
(* What became of the inserted text: the history entries of the sessions,   *)
(* the coordinator of post-insert observers, and the native observer that   *)
(* polls the focused field.  The sessions are those of SessionLifecycle,    *)
(* which the voice runtime implements.                                      *)
(***************************************************************************)
EXTENDS SessionLifecycle, FieldWatch

ASSUME MaxSessionsAssumption == MaxSessions \in Nat

VARIABLES
  entry,   \* per session: its history row and its observation
  active   \* the session of the coordinator's active handle, or 0

observationVars == <<entry, active>>
vars == <<lifecycleVars, observationVars>>

NoHandle == 0
Rows == {"none", "pending", "captured", "unavailable", "deleted"}

Entries ==
  [row : Rows,          \* edited_text_status
   watching : BOOLEAN,  \* the observer's timers are armed
   polling : BOOLEAN,   \* pollInFlight
   stable : BOOLEAN,    \* lastStable holds a readable, related text
   claimed : BOOLEAN, closed : BOOLEAN,
   lost : BOOLEAN]      \* a write threw, or the process ended: nobody tries again

Blank == [row |-> "none", watching |-> FALSE, polling |-> FALSE, stable |-> FALSE,
          claimed |-> FALSE, closed |-> FALSE, lost |-> FALSE]
Appended == [Blank EXCEPT !.row = "pending"]

ObservationTypeOK ==
  /\ newest \in 0 .. MaxSessions
  /\ stage \in [Ids -> Stages]
  /\ recorded \subseteq Ids
  /\ entry \in [Ids -> Entries]
  /\ active \in {NoHandle} \cup Ids

Init ==
  /\ LifecycleInit
  /\ entry = [s \in Ids |-> Blank]
  /\ active = NoHandle

-----------------------------------------------------------------------------
(* What a call makes of an entry; `ok` says that the write did not throw.   *)

(* recordPostInsertObservation: only a pending row takes the status.        *)
Written(o, status, ok) ==
  [o EXCEPT !.row = IF ok /\ @ = "pending" THEN status ELSE @,
            !.lost = @ \/ ~ok]

(* The coordinator's onObservation: the first observation claims the end,   *)
(* and once its write is accepted the observation is closed.                *)
Observed(o, status, ok) ==
  IF o.closed \/ o.claimed THEN o
  ELSE [Written(o, status, ok) EXCEPT
          !.claimed = TRUE,
          !.closed = ok /\ o.row = "pending",
          !.watching = @ /\ ~(ok /\ o.row = "pending")]

(* Mutant of Cancelled: a cancelled observation leaves its row alone.       *)
CancelledSilently(o, ok) ==
  IF o.closed THEN o ELSE [o EXCEPT !.closed = TRUE, !.watching = FALSE]

(* The handle's cancel.                                                    *)
Cancelled(o, ok) ==
  IF o.closed THEN o
  ELSE [IF o.claimed THEN o ELSE Written(o, "unavailable", ok)
          EXCEPT !.closed = TRUE, !.watching = FALSE]

(* The observer's finish: nothing once it was cancelled or has finished.    *)
Finished(o, status, ok) ==
  IF o.watching THEN Observed([o EXCEPT !.watching = FALSE], status, ok) ELSE o

(* What the observer knows at its end.                                     *)
Verdict(o) == IF o.stable THEN "captured" ELSE "unavailable"

-----------------------------------------------------------------------------
AfterCancel(ok) ==
  [s \in Ids |-> IF s = active THEN Cancelled(entry[s], ok) ELSE entry[s]]

CancelActive ==
  \E ok \in BOOLEAN :
    /\ entry' = AfterCancel(ok)
    /\ active' = NoHandle

(* Mutant of Start: the observer before it goes on.                        *)
StartBeside(s) ==
  /\ entry' = [entry EXCEPT ![s] = [Appended EXCEPT !.watching = TRUE]]
  /\ active' = s

(* The row is appended and its observation started: the observer watches,   *)
(* or it answers at once (nothing was pasted, or the target has no          *)
(* identity), or it throws.  Which request a session made is not kept.      *)
Start(s) ==
  \E ok \in BOOLEAN, okNew \in BOOLEAN, request \in Requests :
    \/ /\ Observable(request)
       /\ entry' = [AfterCancel(ok) EXCEPT ![s] = [Appended EXCEPT !.watching = TRUE]]
       /\ active' = s
    \/ /\ ~Observable(request)
       /\ entry' = [AfterCancel(ok) EXCEPT ![s] = Observed(Appended, "unavailable", okNew)]
       /\ active' = IF okNew THEN NoHandle ELSE s
    \/ /\ entry' = [AfterCancel(ok) EXCEPT ![s] = Written(Appended, "unavailable", okNew)]
       /\ active' = NoHandle

-----------------------------------------------------------------------------
(* The sessions.                                                           *)

(* A press that only dismisses a notice cancels the observation too.        *)
NoticeDismissed == CancelActive /\ UNCHANGED lifecycleVars

SessionBegins(s) == Begin(s) /\ CancelActive

SessionGoesOn(s) ==
  /\ Process(s) \/ Insert(s) \/ Close(s) \/ Tell(s) \/ Drop(s)
  /\ recorded' = recorded
  /\ UNCHANGED observationVars

InsertionRecorded(s) ==
  /\ Close(s) \/ Tell(s) \/ Drop(s)
  /\ recorded' # recorded
  /\ Start(s)

(* Deleting one history entry; clearing deletes them all.                  *)
DeleteEntry(s) ==
  /\ entry[s].row \notin {"none", "deleted"}
  /\ entry' = [entry EXCEPT ![s].row = "deleted"]
  /\ UNCHANGED <<lifecycleVars, active>>

-----------------------------------------------------------------------------
(* The native observer.                                                    *)

Poll(s) ==
  /\ entry[s].watching /\ ~entry[s].polling
  /\ entry' = [entry EXCEPT ![s].polling = TRUE]
  /\ UNCHANGED <<lifecycleVars, active>>

(* The observation of s ended with what was seen.                          *)
Ends(s, o) ==
  \E ok \in BOOLEAN :
    /\ entry' = [entry EXCEPT ![s] = Finished(o, Verdict(o), ok)]
    /\ active' = IF active = s /\ ~o.closed /\ entry'[s].closed
                 THEN NoHandle ELSE active

(* A poll answers, also after the end: it read an edit of the text, nothing *)
(* to go by, or that the focus is elsewhere.                                *)
PollAnswers(s) ==
  /\ entry[s].polling
  /\ LET answered == [entry[s] EXCEPT !.polling = FALSE]
     IN \/ \E seen \in {r = "captured" : r \in Readings \ {"target_changed"}} :
             /\ entry' = [entry EXCEPT ![s] = [answered EXCEPT !.stable = @ \/ seen]]
             /\ UNCHANGED active
        \/ "target_changed" \in Readings /\ Ends(s, answered)
  /\ UNCHANGED lifecycleVars

(* Mutant of TimesOut: only a text that was seen is worth reporting.        *)
TimesOutIfSeen(s) ==
  /\ entry[s].watching /\ entry[s].stable
  /\ Ends(s, entry[s])
  /\ UNCHANGED lifecycleVars
TimesOut(s) ==
  /\ entry[s].watching
  /\ Ends(s, entry[s])
  /\ UNCHANGED lifecycleVars

-----------------------------------------------------------------------------
(* Mutant of Swept: every old row is a timed-out one.                       *)
SweptAll(o, old) ==
  IF old /\ o.row # "none" THEN [Blank EXCEPT !.row = "unavailable"]
  ELSE [Blank EXCEPT !.row = o.row, !.lost = o.row = "pending"]

(* What the start of the application leaves of an entry: an old row that is *)
(* still pending has timed out.                                             *)
Swept(o, old) ==
  IF o.row = "pending" /\ old THEN [Blank EXCEPT !.row = "unavailable"]
  ELSE [Blank EXCEPT !.row = o.row, !.lost = o.row = "pending"]

(* The application ends at any moment and is started again.                *)
Restart ==
  /\ \E old \in SUBSET Ids : entry' = [s \in Ids |-> Swept(entry[s], s \in old)]
  /\ active' = NoHandle
  /\ stage' = [s \in Ids |-> IF stage[s] \in {"unborn", "told"} THEN stage[s]
                                                                ELSE "dropped"]
  /\ UNCHANGED <<newest, recorded>>

-----------------------------------------------------------------------------
Next ==
  \/ NoticeDismissed
  \/ \E s \in Ids : \/ SessionBegins(s) \/ SessionGoesOn(s) \/ InsertionRecorded(s)
                    \/ DeleteEntry(s) \/ Poll(s) \/ PollAnswers(s) \/ TimesOut(s)
  \/ Restart

Spec == Init /\ [][Next]_vars

(* The observer's timeout is a timer of at most 45 seconds.                *)
FairSpec == Spec /\ \A s \in Ids : WF_vars(TimesOut(s))

-----------------------------------------------------------------------------
(* Whoever watches the focused field is the coordinator's active handle, so *)
(* at most one observer polls and the next start can cancel it, whatever    *)
(* the order in which sessions overtake each other.                         *)
ObserverIsActive == \A s \in Ids : entry[s].watching => active = s

(* A pending row has an observer that will end it, unless a write threw or  *)
(* the process died: no cancel, claim or refused write leaves it behind.    *)
PendingIsHandled ==
  \A s \in Ids : entry[s].row = "pending" => entry[s].watching \/ entry[s].lost

(* A row gets one terminal status; a poll, a cancel or a sweep that comes   *)
(* later does not change it, nor bring a deleted row back.                  *)
TerminalIsFinal ==
  [][\A s \in Ids :
       entry[s].row \notin {"none", "pending"} => entry'[s].row \in {entry[s].row, "deleted"}]_vars

(* Without restarts and failing writes no row stays pending.               *)
PendingEnds ==
  \A s \in Ids : (entry[s].row = "pending") ~> (entry[s].row # "pending" \/ entry[s].lost)

(* "Cancel any active post-insert observer when a new user session starts": *)
(* no observation of an older session runs beside a newer one.              *)
ObservesNewest == active = NoHandle \/ active = newest
=============================================================================
