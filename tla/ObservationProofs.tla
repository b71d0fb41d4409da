------------------------- MODULE ObservationProofs -------------------------
(***************************************************************************)
(* Proofs about PostInsertObservation, for every number of sessions.       *)
(***************************************************************************)
EXTENDS PostInsertObservation, TLAPS

Verdicts == {"captured", "unavailable"}

(* What every entry satisfies: a watching observer has claimed nothing, and *)
(* a pending row is watched over or lost.                                   *)
Tended(o) ==
  /\ o.watching => ~o.claimed /\ ~o.closed
  /\ o.row = "pending" => o.watching \/ o.lost

(* What every step after the append leaves of a row.                       *)
RowKept(o, p) ==
  /\ o.row \notin {"none", "pending"} => p.row \in {o.row, "deleted"}
  /\ o.row = "none" => p.row = "none"

(* The inductive invariant.  The last conjunct is what makes an append safe *)
(* for the terminal statuses: it never meets an entry that has one.         *)
IInv ==
  /\ ObservationTypeOK
  /\ ObserverIsActive
  /\ \A s \in Ids : Tended(entry[s])
  /\ \A s \in Ids \ recorded : entry[s].row = "none"

-----------------------------------------------------------------------------
(* A captured text is an edit of what was pasted, read from the field it    *)
(* was pasted into: the element and the process are those the dictation     *)
(* began with, although every identity of a request may be missing.         *)
THEOREM CapturedIsTheEdit ==
  ASSUME NEW request, NEW screen, Observable(request), Reading(request, screen) = "captured"
  PROVE  LET app == ReadOr(screen.app, NoApp)
             ax == ReadOr(screen.ax, NoAx)
         IN /\ request.ax.element # None /\ ax.element = request.ax.element
            /\ request.injected \subseteq ax.text /\ ax.text # request.ax.text
            /\ FirstOf(request.app.pid, request.ax.pid) # None =>
                 FirstOf(app.pid, ax.pid) = FirstOf(request.app.pid, request.ax.pid)
<1> DEFINE app == ReadOr(screen.app, NoApp)
           ax == ReadOr(screen.ax, NoAx)
           window == FirstOf(ReadOr(screen.title, None), ax.window)
<1>1. TargetStillMatches(request, app, ax, window) /\ TextCanBeCaptured(request, ax.text)
  BY DEF Reading
<1>2. request.ax.present /\ request.injected \subseteq ax.text /\ ax.text # request.ax.text
  BY <1>1 DEF TextCanBeCaptured, HasBaseline
<1>3. request.ax.element # None /\ ax.element = request.ax.element
  BY <1>1, <1>2 DEF TargetStillMatches, ExpectedElement
<1>4. FirstOf(request.app.pid, request.ax.pid) # None =>
        FirstOf(app.pid, ax.pid) = FirstOf(request.app.pid, request.ax.pid)
  <2>1. \A id \in {"bundle", "pid", "name"} :
          FirstOf(request.app[id], request.ax[id]) # None =>
            FirstOf(app[id], ax[id]) = FirstOf(request.app[id], request.ax[id])
    BY <1>1 DEF TargetStillMatches
  <2> QED
    BY <2>1
<1> QED
  BY <1>2, <1>3, <1>4

-----------------------------------------------------------------------------
(* What the four calls on an entry preserve.                               *)

(* The entry at its birth and at its append.                               *)
LEMMA BlankFacts ==
  /\ Blank \in Entries /\ Tended(Blank) /\ Blank.row = "none" /\ ~Blank.watching
  /\ Appended \in Entries /\ Appended.row = "pending"
  /\ ~Appended.watching /\ ~Appended.claimed /\ ~Appended.closed /\ ~Appended.lost
BY DEF Blank, Appended, Entries, Rows, Tended

(* A write changes the row of a pending entry, and nothing else but `lost`.*)
LEMMA WrittenFacts ==
  ASSUME NEW o \in Entries, NEW status \in Verdicts, NEW ok \in BOOLEAN
  PROVE  /\ Written(o, status, ok) \in Entries
         /\ Written(o, status, ok).watching = o.watching
         /\ Written(o, status, ok).claimed = o.claimed
         /\ Written(o, status, ok).closed = o.closed
         /\ Written(o, status, ok).row = IF ok /\ o.row = "pending" THEN status ELSE o.row
         /\ (Written(o, status, ok).lost <=> o.lost \/ ~ok)
BY DEF Written, Entries, Rows, Verdicts

(* Claiming the end keeps the row.                                        *)
LEMMA ClaimedFacts ==
  ASSUME NEW w \in Entries, NEW closed \in BOOLEAN, NEW watching \in BOOLEAN
  PROVE  LET v == [w EXCEPT !.claimed = TRUE, !.closed = closed, !.watching = watching]
         IN /\ v \in Entries /\ v.row = w.row /\ (v.lost <=> w.lost)
            /\ (v.watching <=> watching)
BY DEF Entries

(* An observation at the end of the timers leaves no unattended row.      *)
LEMMA ObservedFacts ==
  ASSUME NEW o \in Entries, NEW status \in Verdicts, NEW ok \in BOOLEAN,
         ~o.watching, o.row = "pending" => (~o.claimed /\ ~o.closed) \/ o.lost
  PROVE  /\ Observed(o, status, ok) \in Entries
         /\ ~Observed(o, status, ok).watching
         /\ Tended(Observed(o, status, ok))
         /\ RowKept(o, Observed(o, status, ok))
<1>1. CASE o.closed \/ o.claimed
  BY <1>1 DEF Observed, Tended, RowKept
<1>2. CASE ~(o.closed \/ o.claimed)
  <2> DEFINE w == Written(o, status, ok)
             accepted == ok /\ o.row = "pending"
             on == w.watching /\ ~accepted
             v == [w EXCEPT !.claimed = TRUE, !.closed = accepted, !.watching = on]
  <2>1. Observed(o, status, ok) = v
    BY <1>2 DEF Observed
  <2>2. w \in Entries /\ accepted \in BOOLEAN /\ on \in BOOLEAN /\ ~on
    BY WrittenFacts
  <2>3. v \in Entries /\ v.row = w.row /\ (v.lost <=> w.lost) /\ ~v.watching
    BY <2>2, ClaimedFacts
  <2>4. w.row = "pending" => w.lost
    BY WrittenFacts DEF Verdicts
  <2>5. RowKept(o, w)
    BY WrittenFacts DEF RowKept
  <2> HIDE DEF v, w
  <2> QED
    BY <2>1, <2>3, <2>4, <2>5 DEF Tended, RowKept
<1> QED BY <1>1, <1>2

(* Neither does a cancel,                                                 *)
LEMMA CancelledFacts ==
  ASSUME NEW o \in Entries, NEW ok \in BOOLEAN, Tended(o)
  PROVE  /\ Cancelled(o, ok) \in Entries
         /\ ~Cancelled(o, ok).watching
         /\ Tended(Cancelled(o, ok))
         /\ RowKept(o, Cancelled(o, ok))
<1>1. CASE o.closed
  BY <1>1 DEF Cancelled, Tended, RowKept
<1>2. CASE ~o.closed
  <2> DEFINE w == IF o.claimed THEN o ELSE Written(o, "unavailable", ok)
             v == [w EXCEPT !.closed = TRUE, !.watching = FALSE]
  <2>1. Cancelled(o, ok) = v
    BY <1>2 DEF Cancelled
  <2>2. w \in Entries /\ (w.row = "pending" => w.lost) /\ RowKept(o, w)
    <3>1. CASE o.claimed
      BY <3>1 DEF Tended, RowKept
    <3>2. CASE ~o.claimed
      BY <3>2, WrittenFacts DEF Verdicts, RowKept
    <3> QED BY <3>1, <3>2
  <2>3. v \in Entries /\ v.row = w.row /\ (v.lost <=> w.lost) /\ ~v.watching
    BY <2>2 DEF Entries
  <2> QED
    BY <2>1, <2>2, <2>3 DEF Tended, RowKept
<1> QED BY <1>1, <1>2

(* nor the observer's own end.                                            *)
LEMMA FinishedFacts ==
  ASSUME NEW o \in Entries, NEW status \in Verdicts, NEW ok \in BOOLEAN, Tended(o)
  PROVE  /\ Finished(o, status, ok) \in Entries
         /\ ~Finished(o, status, ok).watching
         /\ Tended(Finished(o, status, ok))
         /\ RowKept(o, Finished(o, status, ok))
<1>1. CASE ~o.watching
  BY <1>1 DEF Finished, RowKept
<1>2. CASE o.watching
  <2> DEFINE p == [o EXCEPT !.watching = FALSE]
  <2>1. p \in Entries /\ ~p.watching /\ p.row = o.row /\ ~p.claimed /\ ~p.closed
    BY <1>2 DEF Entries, Tended
  <2>2. Finished(o, status, ok) = Observed(p, status, ok)
    BY <1>2 DEF Finished
  <2> HIDE DEF p
  <2>3. /\ Observed(p, status, ok) \in Entries /\ ~Observed(p, status, ok).watching
        /\ Tended(Observed(p, status, ok)) /\ RowKept(p, Observed(p, status, ok))
    BY <2>1, ObservedFacts
  <2> QED
    BY <2>1, <2>2, <2>3 DEF RowKept
<1> QED BY <1>1, <1>2

(* A verdict is a terminal status.                                        *)
LEMMA VerdictType == ASSUME NEW o PROVE Verdict(o) \in Verdicts
BY DEF Verdict, Verdicts

-----------------------------------------------------------------------------
(* After the active observation was cancelled nothing watches.             *)
LEMMA AfterCancelFacts ==
  ASSUME IInv, NEW ok \in BOOLEAN
  PROVE  /\ AfterCancel(ok) \in [Ids -> Entries]
         /\ \A s \in Ids : /\ ~AfterCancel(ok)[s].watching
                           /\ Tended(AfterCancel(ok)[s])
                           /\ RowKept(entry[s], AfterCancel(ok)[s])
<1>1. ASSUME NEW s \in Ids
      PROVE  /\ AfterCancel(ok)[s] \in Entries
             /\ ~AfterCancel(ok)[s].watching
             /\ Tended(AfterCancel(ok)[s])
             /\ RowKept(entry[s], AfterCancel(ok)[s])
  <2>1. entry[s] \in Entries /\ Tended(entry[s])
    BY DEF IInv, ObservationTypeOK
  <2>2. CASE s = active
    BY <2>1, <2>2, CancelledFacts DEF AfterCancel
  <2>3. CASE s # active
    BY <2>1, <2>3 DEF AfterCancel, RowKept, IInv, ObserverIsActive, ObservationTypeOK
  <2> QED BY <2>2, <2>3
<1> QED BY <1>1 DEF AfterCancel

(* The lifecycle's part of a step.                                         *)
LEMMA LifecycleFacts ==
  ASSUME IInv, NEW s \in Ids,
         Begin(s) \/ Process(s) \/ Insert(s) \/ Close(s) \/ Tell(s) \/ Drop(s)
  PROVE  /\ newest' \in 0 .. MaxSessions
         /\ stage' \in [Ids -> Stages]
         /\ recorded' \in {recorded, recorded \cup {s}}
BY MaxSessionsAssumption
   DEF IInv, ObservationTypeOK, Begin, Process, Insert, Close, Tell, Drop, MayRecord,
       Becomes, Stages, Ids

(* A change of the entries that keeps the invariant, the recorded sessions  *)
(* only growing.                                                            *)
LEMMA KeepsIInv ==
  ASSUME IInv,
         newest' \in 0 .. MaxSessions, stage' \in [Ids -> Stages], recorded' \subseteq Ids,
         recorded \subseteq recorded',
         entry' \in [Ids -> Entries], active' \in {NoHandle} \cup Ids,
         \A s \in Ids : /\ entry'[s].watching => active' = s
                        /\ Tended(entry'[s])
                        /\ s \in recorded' \ recorded \/ RowKept(entry[s], entry'[s])
  PROVE  /\ IInv'
         /\ \A s \in Ids : RowKept(entry[s], entry'[s]) \/ entry[s].row = "none"
BY DEF IInv, ObservationTypeOK, ObserverIsActive, RowKept

(* A start keeps the invariant: it cancels whatever was active.           *)
LEMMA StartStep ==
  ASSUME IInv, NEW s \in Ids, InsertionRecorded(s)
  PROVE  /\ IInv'
         /\ \A t \in Ids : RowKept(entry[t], entry'[t]) \/ entry[t].row = "none"
<1>1. /\ newest' \in 0 .. MaxSessions /\ stage' \in [Ids -> Stages]
      /\ recorded' = recorded \cup {s} /\ s \notin recorded /\ recorded \subseteq Ids
  BY LifecycleFacts DEF InsertionRecorded, IInv, ObservationTypeOK
<1>2. PICK ok \in BOOLEAN, new \in Entries :
        /\ entry' = [AfterCancel(ok) EXCEPT ![s] = new]
        /\ Tended(new)
        /\ active' \in {NoHandle, s}
        /\ new.watching => active' = s
  <2>1. PICK ok \in BOOLEAN, okNew \in BOOLEAN :
          \/ /\ entry' = [AfterCancel(ok) EXCEPT ![s] = [Appended EXCEPT !.watching = TRUE]]
             /\ active' = s
          \/ /\ entry' = [AfterCancel(ok) EXCEPT ![s] = Observed(Appended, "unavailable", okNew)]
             /\ active' = IF okNew THEN NoHandle ELSE s
          \/ /\ entry' = [AfterCancel(ok) EXCEPT ![s] = Written(Appended, "unavailable", okNew)]
             /\ active' = NoHandle
    BY DEF InsertionRecorded, Start
  <2>2. "unavailable" \in Verdicts
    BY DEF Verdicts
  <2>3. LET new == [Appended EXCEPT !.watching = TRUE]
        IN new \in Entries /\ Tended(new)
    BY BlankFacts DEF Entries, Tended
  <2>4. LET new == Observed(Appended, "unavailable", okNew)
        IN new \in Entries /\ Tended(new) /\ ~new.watching
    BY <2>2, BlankFacts, ObservedFacts
  <2>5. LET new == Written(Appended, "unavailable", okNew)
        IN new \in Entries /\ Tended(new) /\ ~new.watching
    BY <2>2, BlankFacts, WrittenFacts DEF Tended
  <2> QED BY <2>1, <2>3, <2>4, <2>5
<1>3. entry' \in [Ids -> Entries] /\ entry'[s] = new
      /\ \A t \in Ids \ {s} : entry'[t] = AfterCancel(ok)[t]
  BY <1>2, AfterCancelFacts
<1>4. ASSUME NEW t \in Ids
      PROVE  /\ entry'[t].watching => active' = t
             /\ Tended(entry'[t])
             /\ t \in recorded' \ recorded \/ RowKept(entry[t], entry'[t])
  BY <1>1, <1>2, <1>3, AfterCancelFacts
<1> QED
  BY <1>1, <1>2, <1>3, <1>4, KeepsIInv

(* So does a cancel without a start.                                      *)
LEMMA CancelStep ==
  ASSUME IInv, CancelActive, UNCHANGED lifecycleVars \/ \E s \in Ids : Begin(s)
  PROVE  /\ IInv'
         /\ \A t \in Ids : RowKept(entry[t], entry'[t]) \/ entry[t].row = "none"
<1>1. /\ newest' \in 0 .. MaxSessions /\ stage' \in [Ids -> Stages]
      /\ recorded' = recorded /\ recorded \subseteq Ids
  <2>1. CASE UNCHANGED lifecycleVars
    BY <2>1 DEF lifecycleVars, IInv, ObservationTypeOK
  <2>2. CASE \E s \in Ids : Begin(s)
    BY <2>2, LifecycleFacts DEF Begin, IInv, ObservationTypeOK
  <2> QED BY <2>1, <2>2
<1>2. PICK ok \in BOOLEAN : entry' = AfterCancel(ok) /\ active' = NoHandle
  BY DEF CancelActive
<1> QED
  BY <1>1, <1>2, AfterCancelFacts, KeepsIInv

(* A step of one entry that leaves the sessions alone.                      *)
LEMMA EntryStep ==
  ASSUME IInv, NEW s \in Ids, NEW o \in Entries,
         UNCHANGED lifecycleVars,
         entry' = [entry EXCEPT ![s] = o],
         Tended(o), RowKept(entry[s], o),
         active' \in {active, NoHandle}, active' # active => active = s,
         o.watching => active' = s
  PROVE  /\ IInv'
         /\ \A t \in Ids : RowKept(entry[t], entry'[t]) \/ entry[t].row = "none"
<1>1. /\ newest' \in 0 .. MaxSessions /\ stage' \in [Ids -> Stages]
      /\ recorded' = recorded /\ recorded \subseteq Ids
      /\ entry' \in [Ids -> Entries] /\ active' \in {NoHandle} \cup Ids
  BY DEF lifecycleVars, IInv, ObservationTypeOK
<1>2. ASSUME NEW t \in Ids
      PROVE  /\ entry'[t].watching => active' = t
             /\ Tended(entry'[t])
             /\ RowKept(entry[t], entry'[t])
  <2>1. CASE t = s
    BY <2>1 DEF IInv, ObservationTypeOK
  <2>2. CASE t # s
    BY <2>2 DEF IInv, ObservationTypeOK, ObserverIsActive, RowKept
  <2> QED BY <2>1, <2>2
<1> QED
  BY <1>1, <1>2, KeepsIInv

(* The end of an observation is a step of its entry.                      *)
LEMMA EndsStep ==
  ASSUME IInv, NEW s \in Ids, NEW o \in Entries,
         Tended(o), o.row = entry[s].row,
         o.watching = entry[s].watching, Ends(s, o), UNCHANGED lifecycleVars
  PROVE  /\ IInv'
         /\ \A t \in Ids : RowKept(entry[t], entry'[t]) \/ entry[t].row = "none"
<1>1. PICK ok \in BOOLEAN :
        /\ entry' = [entry EXCEPT ![s] = Finished(o, Verdict(o), ok)]
        /\ active' = IF active = s /\ ~o.closed /\ entry'[s].closed
                     THEN NoHandle ELSE active
  BY DEF Ends
<1>2. LET f == Finished(o, Verdict(o), ok)
      IN f \in Entries /\ ~f.watching /\ Tended(f) /\ RowKept(entry[s], f)
  BY VerdictType, FinishedFacts DEF RowKept
<1> QED
  BY <1>1, <1>2, EntryStep

(* What the invariant says of one entry.                                  *)
LEMMA EntryFacts ==
  ASSUME IInv, NEW s \in Ids
  PROVE  /\ entry[s] \in Entries /\ Tended(entry[s])
         /\ entry[s].watching => active = s
BY DEF IInv, ObservationTypeOK, ObserverIsActive

(* A poll's answer is a step of its entry, also one that comes too late.  *)
LEMMA PollAnswersStep ==
  ASSUME IInv, NEW s \in Ids, PollAnswers(s)
  PROVE  /\ IInv'
         /\ \A t \in Ids : RowKept(entry[t], entry'[t]) \/ entry[t].row = "none"
<1> DEFINE answered == [entry[s] EXCEPT !.polling = FALSE]
<1>1. /\ answered \in Entries /\ answered.row = entry[s].row
      /\ answered.watching = entry[s].watching /\ Tended(answered)
  BY EntryFacts DEF Entries, Tended
<1>2. CASE Ends(s, answered)
  BY <1>1, <1>2, EndsStep DEF PollAnswers
<1>3. CASE \E seen \in BOOLEAN :
             /\ entry' = [entry EXCEPT ![s] = [answered EXCEPT !.stable = @ \/ seen]]
             /\ UNCHANGED active
  <2>1. PICK seen \in BOOLEAN :
          /\ entry' = [entry EXCEPT ![s] = [answered EXCEPT !.stable = @ \/ seen]]
          /\ UNCHANGED active
    BY <1>3
  <2>2. LET o == [answered EXCEPT !.stable = @ \/ seen]
        IN /\ o \in Entries /\ Tended(o) /\ RowKept(entry[s], o)
           /\ o.watching => active = s
    BY <1>1, EntryFacts DEF Entries, Tended, RowKept
  <2> QED
    BY <2>1, <2>2, EntryStep DEF PollAnswers
<1> QED
  BY <1>2, <1>3 DEF PollAnswers

(* An entry's row only moves on, except when it is first appended.         *)
RowsMoveOn == \A s \in Ids : RowKept(entry[s], entry'[s]) \/ entry[s].row = "none"

(* A restart keeps the invariant, whichever rows are old.                 *)
LEMMA RestartStep ==
  ASSUME IInv, Restart
  PROVE  IInv' /\ RowsMoveOn
<1>1. PICK old \in SUBSET Ids : entry' = [s \in Ids |-> Swept(entry[s], s \in old)]
  BY DEF Restart
<1>2. ASSUME NEW o \in Entries, NEW b \in BOOLEAN
      PROVE  /\ Swept(o, b) \in Entries /\ ~Swept(o, b).watching
             /\ Tended(Swept(o, b)) /\ RowKept(o, Swept(o, b))
  BY DEF Swept, Blank, Entries, Rows, Tended, RowKept
<1>3. \A s \in Ids : (s \in old) \in BOOLEAN
  OBVIOUS
<1>4. /\ entry' \in [Ids -> Entries]
      /\ \A s \in Ids : /\ ~entry'[s].watching /\ Tended(entry'[s])
                        /\ RowKept(entry[s], entry'[s])
  BY <1>1, <1>2, <1>3, EntryFacts
<1>5. /\ newest' \in 0 .. MaxSessions /\ stage' \in [Ids -> Stages]
      /\ recorded' = recorded /\ recorded \subseteq Ids /\ active' = NoHandle
  BY DEF Restart, IInv, ObservationTypeOK, Stages
<1> QED
  BY <1>4, <1>5, KeepsIInv DEF RowsMoveOn

(* The invariant is kept by every step, and every step moves rows on.      *)
LEMMA NextStep == IInv /\ [Next]_vars => IInv' /\ RowsMoveOn
<1> SUFFICES ASSUME IInv, [Next]_vars PROVE IInv' /\ RowsMoveOn
  OBVIOUS
<1>1. CASE NoticeDismissed
  BY <1>1, CancelStep DEF NoticeDismissed, RowsMoveOn
<1>2. ASSUME NEW s \in Ids, SessionBegins(s) PROVE IInv' /\ RowsMoveOn
  BY <1>2, CancelStep DEF SessionBegins, RowsMoveOn
<1>3. ASSUME NEW s \in Ids, SessionGoesOn(s) PROVE IInv' /\ RowsMoveOn
  <2>1. /\ newest' \in 0 .. MaxSessions /\ stage' \in [Ids -> Stages]
        /\ recorded' = recorded /\ entry' = entry /\ active' = active
    BY <1>3, LifecycleFacts DEF SessionGoesOn, observationVars
  <2> QED
    BY <2>1 DEF IInv, ObservationTypeOK, ObserverIsActive, RowsMoveOn, RowKept, Tended
<1>4. ASSUME NEW s \in Ids, InsertionRecorded(s) PROVE IInv' /\ RowsMoveOn
  BY <1>4, StartStep DEF RowsMoveOn
<1>5. ASSUME NEW s \in Ids, DeleteEntry(s) PROVE IInv' /\ RowsMoveOn
  <2> DEFINE o == [entry[s] EXCEPT !.row = "deleted"]
  <2>1. /\ o \in Entries /\ Tended(o) /\ RowKept(entry[s], o)
        /\ o.watching => active = s
    BY <1>5, EntryFacts DEF DeleteEntry, Entries, Rows, Tended, RowKept
  <2>2. entry' = [entry EXCEPT ![s] = o] /\ UNCHANGED <<lifecycleVars, active>>
    BY <1>5, EntryFacts DEF DeleteEntry, IInv, ObservationTypeOK
  <2> QED
    BY <2>1, <2>2, EntryStep DEF RowsMoveOn
<1>6. ASSUME NEW s \in Ids, Poll(s) PROVE IInv' /\ RowsMoveOn
  <2> DEFINE o == [entry[s] EXCEPT !.polling = TRUE]
  <2>1. /\ o \in Entries /\ Tended(o) /\ RowKept(entry[s], o)
        /\ o.watching => active = s
    BY EntryFacts DEF Entries, Tended, RowKept
  <2>2. entry' = [entry EXCEPT ![s] = o] /\ UNCHANGED <<lifecycleVars, active>>
    BY <1>6, EntryFacts DEF Poll, IInv, ObservationTypeOK
  <2> QED
    BY <2>1, <2>2, EntryStep DEF RowsMoveOn
<1>7. ASSUME NEW s \in Ids, PollAnswers(s) PROVE IInv' /\ RowsMoveOn
  BY <1>7, PollAnswersStep DEF RowsMoveOn
<1>8. ASSUME NEW s \in Ids, TimesOut(s) PROVE IInv' /\ RowsMoveOn
  BY <1>8, EntryFacts, EndsStep DEF TimesOut, RowsMoveOn
<1>9. CASE Restart
  BY <1>9, RestartStep
<1>10. CASE UNCHANGED vars
  BY <1>10 DEF vars, lifecycleVars, observationVars, IInv, ObservationTypeOK,
               ObserverIsActive, RowsMoveOn, RowKept, Tended
<1> QED
  BY <1>1, <1>2, <1>3, <1>4, <1>5, <1>6, <1>7, <1>8, <1>9, <1>10 DEF Next

(* No session has a row at first.                                         *)
LEMMA InitIInv == Init => IInv
<1> SUFFICES ASSUME Init PROVE IInv
  OBVIOUS
<1>1. entry \in [Ids -> Entries]
      /\ \A s \in Ids : ~entry[s].watching /\ Tended(entry[s]) /\ entry[s].row = "none"
  BY BlankFacts DEF Init
<1> QED
  BY <1>1, MaxSessionsAssumption
     DEF Init, LifecycleInit, IInv, ObservationTypeOK, ObserverIsActive, Stages, Ids

-----------------------------------------------------------------------------
(* The inductive invariant holds: no step of the sessions, the observers,   *)
(* the store or the user breaks it.                                         *)
THEOREM Inductive == Spec => []IInv
BY InitIInv, NextStep, PTL DEF Spec

(* Only the coordinator's active handle watches the field, for any number   *)
(* of sessions that overtake each other.                                    *)
THEOREM OneObserver == Spec => []ObserverIsActive
<1>1. IInv => ObserverIsActive
  BY DEF IInv
<1> QED BY <1>1, Inductive, PTL

(* No cancel, claim or refused write leaves a pending row behind.          *)
THEOREM PendingSafe == Spec => []PendingIsHandled
<1>1. IInv => PendingIsHandled
  BY DEF IInv, Tended, PendingIsHandled
<1> QED BY <1>1, Inductive, PTL

(* A terminal status stays, and a deleted row stays deleted.               *)
THEOREM StatusFinal == Spec => TerminalIsFinal
<1> DEFINE Kept == \A s \in Ids : entry[s].row \notin {"none", "pending"}
                                    => entry'[s].row \in {entry[s].row, "deleted"}
<1>1. IInv /\ [Next]_vars => [Kept]_vars
  BY NextStep DEF RowsMoveOn, RowKept
<1> QED BY <1>1, Inductive, PTL DEF Spec, TerminalIsFinal
=============================================================================
