---------------------- MODULE InjectionAndEditorProofs ----------------------
(***************************************************************************)
(* Proofs about the two places where the user's own text is at stake: the   *)
(* clipboard that a paste borrows (TextInjection) and the modes that the    *)
(* user edits while calls are in flight (ModeEditor).  They share no state; *)
(* the second half starts at "The modes page".                              *)
(*                                                                         *)
(* TextInjection: for every number of sessions, applications and copies, on *)
(* either platform.  ModeEditor: for any modes, names, bodies and hotkeys,  *)
(* and any number of the user's acts.                                       *)
(***************************************************************************)
EXTENDS TextInjection, ModeEditor, FiniteSetTheorems, TLAPS

(* Between its check and its paste an injection knows its target, or it was *)
(* taken from the front.                                                   *)
TargetKnown ==
  \A s \in Ids : at[s] \in {"focused", "ready"} => front = saved[s] \/ s \in moved

(* macOS: who holds the snapshot, and where the user's content is: on the   *)
(* clipboard, or in the snapshot that will be put back.                     *)
MacConsistent ==
  /\ board.pending # NoSnapshot <=> Pasting # {}
  /\ \A s, t \in Pasting : s = t
  /\ \A s \in Pasting : board.clip = Text(s) \/ board.replaced
  /\ ~board.spoiled =>
       IF board.pending = NoSnapshot \/ board.replaced THEN board.clip = copied
                                                       ELSE board.pending = copied

(* Windows, while nobody wrote beside the paste.                            *)
WinConsistent ==
  ~disturbed =>
    /\ \A s, t \in Pasting : s = t
    /\ ~board.spoiled => IF Pasting = {} THEN board.clip = copied
                                         ELSE board.pending = copied

(* Only a session that has got as far as inserting has an injection.        *)
Begun ==
  \A s \in Ids : at[s] # "idle" =>
    s <= newest /\ stage[s] \in {"inserting", "closing", "told", "dropped"}

Consistent == IF platform = "macos" THEN MacConsistent ELSE WinConsistent

(* The inductive invariant.  UserClipboardKept speaks only of the moments   *)
(* outside a paste; Consistent says where the user's content is within one. *)
IInv == InjectionTypeOK /\ TargetKnown /\ Begun /\ Consistent

-----------------------------------------------------------------------------
(* The contents of the clipboard are told apart by who put them there.      *)
LEMMA ContentFacts ==
  /\ \A n \in 0 .. MaxCopies : User(n) \in Contents
  /\ \A s \in Ids : Text(s) \in Contents
  /\ Nothing \in Contents
  /\ \A c \in Contents : c # NoSnapshot
<1>1. /\ \A n \in 0 .. MaxCopies : User(n) \in Contents
      /\ \A s \in Ids : Text(s) \in Contents
      /\ Nothing \in Contents
  BY DEF Contents
<1>2. ASSUME NEW c \in Contents PROVE c # NoSnapshot
  <2>1. \A n : User(n) # NoSnapshot /\ Text(n) # NoSnapshot
    BY DEF User, Text, NoSnapshot
  <2>2. Nothing # NoSnapshot
    BY DEF Nothing, NoSnapshot
  <2> QED BY <2>1, <2>2 DEF Contents
<1> QED BY <1>1, <1>2

(* Another copy of the user's is within the bound.                         *)
LEMMA NextCopy ==
  ASSUME InjectionTypeOK, copied.n < MaxCopies
  PROVE  \E n \in 0 .. MaxCopies : User(copied.n + 1) = User(n)
<1>1. PICK n \in 0 .. MaxCopies : copied = User(n)
  BY DEF InjectionTypeOK
<1>2. copied.n = n
  BY <1>1 DEF User
<1>3. n + 1 \in 0 .. MaxCopies
  BY <1>2, MaxCopiesAssumption
<1> QED BY <1>2, <1>3

(* The native calls keep the board's type.                                 *)
LEMMA BoardTypes ==
  ASSUME NEW b \in Boards, NEW s \in Ids
  PROVE  /\ MacPrepares(b, s) \subseteq Boards /\ MacRefuses(b) \subseteq Boards
         /\ WinPrepares(b, s) \subseteq Boards /\ WinRefuses(b) \subseteq Boards
         /\ MacRestores(b) \subseteq Boards /\ WinRestores(b) \subseteq Boards
<1>1. /\ Text(s) \in Contents /\ Nothing \in Contents /\ b.clip \in Contents
      /\ b.pending \in Contents \cup {NoSnapshot}
  BY ContentFacts DEF Boards
<1>2. MacPrepares(b, s) \subseteq Boards /\ MacRefuses(b) \subseteq Boards
  BY <1>1 DEF MacPrepares, MacRefuses, Leased, Emptied, Boards
<1>3. WinPrepares(b, s) \subseteq Boards /\ WinRefuses(b) \subseteq Boards
  BY <1>1 DEF WinPrepares, WinRefuses, Holding, Released, Boards
<1>4. MacRestores(b) \subseteq Boards
  BY <1>1 DEF MacRestores, Holding, Released, Emptied, Boards
<1>5. WinRestores(b) \subseteq Boards
  BY <1>1 DEF WinRestores, Holding, Emptied, Boards
<1> QED BY <1>2, <1>3, <1>4, <1>5

-----------------------------------------------------------------------------
(* A step that touches neither the clipboard nor who is pasting keeps       *)
(* Consistent.                                                             *)
LEMMA ConsistentFrame ==
  ASSUME Consistent, UNCHANGED <<platform, board, copied, disturbed>>, Pasting' = Pasting
  PROVE  Consistent'
BY DEF Consistent, MacConsistent, WinConsistent

(* A write beside the injector keeps the user's content findable.           *)
LEMMA CopiesStep ==
  ASSUME IInv, NEW n \in 0 .. MaxCopies, Copies(User(n)),
         UNCHANGED <<platform, at>>
  PROVE  /\ Consistent' /\ board' \in Boards
         /\ copied' \in {User(m) : m \in 0 .. MaxCopies} /\ disturbed' \in BOOLEAN
<1>1. /\ board' = WrittenBeside(board, User(n)) /\ board \in Boards
      /\ copied' = User(n) /\ disturbed' = (Pasting # {}) /\ User(n) \in Contents
  BY ContentFacts DEF Copies, IInv, InjectionTypeOK
<1>2. /\ board' \in Boards /\ board'.clip = User(n) /\ board'.replaced
      /\ board'.pending = board.pending
  BY <1>1 DEF WrittenBeside, Boards
<1>3. Pasting' = Pasting
  BY DEF Pasting
<1>4. Consistent'
  BY <1>1, <1>2, <1>3 DEF IInv, Consistent, MacConsistent, WinConsistent
<1> QED BY <1>1, <1>2, <1>4

(* The user's copy keeps the invariant,                                    *)
LEMMA UserCopiesStep == ASSUME IInv, UserCopies PROVE IInv'
<1>1. PICK n \in 0 .. MaxCopies : Copies(User(n))
  BY NextCopy DEF UserCopies, IInv
<1>2. /\ Consistent' /\ board' \in Boards
      /\ copied' \in {User(m) : m \in 0 .. MaxCopies} /\ disturbed' \in BOOLEAN
  BY <1>1, CopiesStep DEF UserCopies
<1> QED
  BY <1>2 DEF UserCopies, IInv, InjectionTypeOK, TargetKnown, Begun, lifecycleVars

(* and so does the notice's button, whether its write succeeds or not.      *)
LEMMA NoticeCopiesStep == ASSUME IInv, NoticeCopies PROVE IInv'
<1>1. /\ UNCHANGED <<lifecycleVars, platform, front, saved, at, outcome, moved>>
      /\ Pasting' = Pasting
  BY DEF NoticeCopies, Pasting
<1>2. CASE Copies(User(copied.n + 1))
  <2>1. PICK n \in 0 .. MaxCopies : Copies(User(n))
    BY <1>2, NextCopy DEF NoticeCopies, IInv
  <2>2. /\ Consistent' /\ board' \in Boards
        /\ copied' \in {User(m) : m \in 0 .. MaxCopies} /\ disturbed' \in BOOLEAN
    BY <1>1, <2>1, CopiesStep
  <2> QED BY <1>1, <2>2 DEF IInv, InjectionTypeOK, TargetKnown, Begun, lifecycleVars
<1>3. CASE /\ board' \in {[Emptied(board) EXCEPT !.replaced = TRUE]}
                           \cup {b \in {board} : platform = "windows"}
           /\ UNCHANGED <<copied, disturbed>>
  <2>1. board' \in Boards /\ Consistent'
    <3>1. CASE board' = board
      BY <1>1, <1>3, <3>1, ConsistentFrame DEF IInv, InjectionTypeOK
    <3>2. CASE board' = [Emptied(board) EXCEPT !.replaced = TRUE]
      <4>1. board \in Boards /\ Nothing \in Contents
        BY ContentFacts DEF IInv, InjectionTypeOK
      <4>2. /\ board' \in Boards /\ board'.spoiled /\ board'.replaced
            /\ board'.pending = board.pending
        BY <3>2, <4>1 DEF Emptied, Boards
      <4> QED
        BY <1>1, <1>3, <4>2 DEF IInv, Consistent, MacConsistent, WinConsistent
    <3> QED BY <1>3, <3>1, <3>2
  <2> QED BY <1>1, <1>3, <2>1 DEF IInv, InjectionTypeOK, TargetKnown, Begun, lifecycleVars
<1> QED BY <1>2, <1>3 DEF NoticeCopies

-----------------------------------------------------------------------------
(* Another application in front: whoever relied on its target is marked.    *)
LEMMA FrontsKeepsTargets ==
  ASSUME IInv, NEW app \in Apps, Fronts(app), UNCHANGED saved,
         \A s \in Ids : at'[s] \in {"focused", "ready"} => at[s] \in {"focused", "ready"}
  PROVE  TargetKnown' /\ front' \in Apps /\ moved' \subseteq Ids
BY DEF IInv, InjectionTypeOK, TargetKnown, Fronts

(* The user may switch applications at any moment.                         *)
LEMMA UserSwitchesStep == ASSUME IInv, UserSwitches PROVE IInv'
<1>1. /\ UNCHANGED <<lifecycleVars, platform, board, copied, saved, at, outcome, disturbed>>
      /\ \E app \in Apps : Fronts(app)
  BY DEF UserSwitches
<1>2. TargetKnown' /\ front' \in Apps /\ moved' \subseteq Ids
  BY <1>1, FrontsKeepsTargets
<1>3. Consistent'
  BY <1>1, ConsistentFrame DEF IInv, Pasting
<1> QED
  BY <1>1, <1>2, <1>3 DEF IInv, InjectionTypeOK, Begun, lifecycleVars

(* The lifecycle's part of a step.                                         *)
LEMMA LifecycleFacts ==
  ASSUME newest \in 0 .. MaxSessions, stage \in [Ids -> Stages], NEW s \in Ids,
         Begin(s) \/ Process(s) \/ Insert(s) \/ Close(s) \/ Tell(s) \/ Drop(s)
  PROVE  newest' \in 0 .. MaxSessions /\ stage' \in [Ids -> Stages]
BY MaxSessionsAssumption
   DEF Begin, Process, Insert, Close, Tell, Drop, Becomes, Stages, Ids

(* A session's start takes its target: it has no injection yet.             *)
LEMMA SessionBeginsStep ==
  ASSUME IInv, NEW s \in Ids, SessionBegins(s) PROVE IInv'
<1>1. /\ newest' \in 0 .. MaxSessions /\ stage' \in [Ids -> Stages]
      /\ s = newest + 1 /\ newest' = s /\ newest \in 0 .. MaxSessions
      /\ \A t \in Ids \ {s} : stage'[t] = stage[t]
  BY LifecycleFacts DEF SessionBegins, Begin, Becomes, IInv, InjectionTypeOK
<1>2. /\ UNCHANGED <<platform, board, copied, front, at, outcome, moved, disturbed>>
      /\ saved' \in [Ids -> Apps \cup {NoApp}]
      /\ \A t \in Ids \ {s} : saved'[t] = saved[t]
  BY DEF SessionBegins, IInv, InjectionTypeOK
<1>3. at[s] = "idle"
  BY <1>1 DEF IInv, Begun, Ids
<1>4. TargetKnown'
  BY <1>2, <1>3 DEF IInv, TargetKnown
<1>5. Begun'
  BY <1>1, <1>2, <1>3 DEF IInv, Begun, Ids
<1>6. Consistent'
  BY <1>2, ConsistentFrame DEF IInv, Pasting
<1> QED
  BY <1>1, <1>2, <1>4, <1>5, <1>6 DEF IInv, InjectionTypeOK

(* A move of one injection that neither starts nor ends a paste.            *)
LEMMA GoesFacts ==
  ASSUME IInv, NEW s \in Ids, NEW wait \in Waits \ {"settling"}, Goes(s, wait),
         at[s] # "settling"
  PROVE  /\ at' \in [Ids -> Waits] /\ at'[s] = wait
         /\ \A t \in Ids \ {s} : at'[t] = at[t]
         /\ Pasting' = Pasting
BY DEF Goes, IInv, InjectionTypeOK, Pasting

(* The insertion begins with a probe.                                      *)
LEMMA InjectionStartsStep ==
  ASSUME IInv, NEW s \in Ids, InjectionStarts(s) PROVE IInv'
<1>1. /\ newest' \in 0 .. MaxSessions /\ stage' \in [Ids -> Stages]
      /\ newest' = newest /\ s = newest /\ newest \in 0 .. MaxSessions
      /\ stage'[s] = "inserting" /\ stage[s] = "processing"
      /\ \A t \in Ids \ {s} : stage'[t] = stage[t]
  BY LifecycleFacts DEF InjectionStarts, Insert, Becomes, IInv, InjectionTypeOK
<1>2. /\ UNCHANGED <<platform, board, copied, front, saved, outcome, moved, disturbed>>
      /\ Goes(s, "probing") /\ at[s] # "settling"
  BY <1>1 DEF InjectionStarts, IInv, Begun
<1>3. /\ at' \in [Ids -> Waits] /\ at'[s] = "probing"
      /\ \A t \in Ids \ {s} : at'[t] = at[t]
      /\ Pasting' = Pasting
  BY <1>2, GoesFacts DEF Waits
<1>4. TargetKnown'
  BY <1>2, <1>3 DEF IInv, TargetKnown
<1>5. Begun'
  BY <1>1, <1>3 DEF IInv, Begun, Ids
<1>6. Consistent'
  BY <1>2, <1>3, ConsistentFrame DEF IInv
<1> QED
  BY <1>1, <1>2, <1>3, <1>4, <1>5, <1>6 DEF IInv, InjectionTypeOK

(* The other steps of the sessions leave the injections alone.             *)
LEMMA SessionGoesOnStep ==
  ASSUME IInv, NEW s \in Ids, SessionGoesOn(s) PROVE IInv'
<1>1. /\ newest' \in 0 .. MaxSessions /\ stage' \in [Ids -> Stages] /\ newest' = newest
      /\ UNCHANGED injectionVars
  BY LifecycleFacts DEF SessionGoesOn, IInv, InjectionTypeOK, Process, Close, Tell, Drop
<1>2. \A t \in Ids : stage'[t] = stage[t] \/ (at[t] = "idle" \/ stage'[t] \in {"closing", "told", "dropped"})
  BY DEF SessionGoesOn, Process, Close, Tell, Drop, Becomes, IInv, Begun, InjectionTypeOK
<1>3. Begun'
  BY <1>1, <1>2 DEF IInv, Begun, injectionVars
<1>4. Consistent'
  BY <1>1, ConsistentFrame DEF IInv, Pasting, injectionVars
<1> QED
  BY <1>1, <1>3, <1>4 DEF IInv, InjectionTypeOK, TargetKnown, injectionVars

-----------------------------------------------------------------------------
(* A move before the paste keeps the invariant when it leaves for `focused` *)
(* or `ready` only with its target in front, or marked.                     *)
LEMMA FocusMove ==
  ASSUME IInv, NEW s \in Ids, NEW wait \in Waits \ {"settling", "idle"},
         Goes(s, wait), at[s] \notin {"settling", "idle"},
         UNCHANGED <<lifecycleVars, platform, board, copied, saved, disturbed>>,
         outcome' \in [Ids -> Outcomes],
         UNCHANGED <<front, moved>> \/ \E app \in Apps : Fronts(app),
         wait \in {"focused", "ready"} => front' = saved[s] \/ s \in moved'
  PROVE  IInv'
<1>1. /\ at' \in [Ids -> Waits] /\ at'[s] = wait
      /\ \A t \in Ids \ {s} : at'[t] = at[t]
      /\ Pasting' = Pasting
  BY GoesFacts
<1>2. front' \in Apps /\ moved' \subseteq Ids
  BY DEF IInv, InjectionTypeOK, Fronts
<1>3. TargetKnown'
  <2>1. ASSUME NEW t \in Ids \ {s}, at[t] \in {"focused", "ready"}
        PROVE  front' = saved[t] \/ t \in moved'
    BY <2>1 DEF IInv, TargetKnown, Fronts
  <2> QED BY <1>1, <2>1 DEF TargetKnown
<1>4. Begun'
  BY <1>1 DEF IInv, Begun, lifecycleVars
<1>5. Consistent'
  BY <1>1, ConsistentFrame DEF IInv
<1> QED
  BY <1>1, <1>2, <1>3, <1>4, <1>5 DEF IInv, InjectionTypeOK, lifecycleVars

(* An end is a move to `done`.                                             *)
LEMMA EndFacts ==
  ASSUME IInv, NEW s \in Ids, NEW how \in Outcomes, Ends(s, how)
  PROVE  Goes(s, "done") /\ outcome' \in [Ids -> Outcomes]
BY DEF Ends, IInv, InjectionTypeOK

(* Every step that finds and protects the focus is such a move.            *)
LEMMA FocusStepStep == ASSUME IInv, NEW s \in Ids, FocusStep(s) PROVE IInv'
<1> USE DEF FocusStep
<1>0. /\ UNCHANGED <<lifecycleVars, platform, board, copied, saved, disturbed>>
      /\ outcome \in [Ids -> Outcomes]
  BY DEF IInv, InjectionTypeOK
<1>1. ASSUME NEW how \in Outcomes, Ends(s, how), UNCHANGED <<front, moved>>,
             at[s] \notin {"settling", "idle"}
      PROVE  IInv'
  BY <1>0, <1>1, EndFacts, FocusMove DEF Waits
<1>2. ASSUME Focused(s), front = saved[s], at[s] \notin {"settling", "idle"}
      PROVE  IInv'
  BY <1>0, <1>2, FocusMove DEF Focused, Waits
<1>3. CASE FrontUnknown(s)
  BY <1>1, <1>3 DEF FrontUnknown, Outcomes
<1>4. CASE NothingToPaste(s)
  BY <1>1, <1>4 DEF NothingToPaste, Outcomes
<1>5. CASE ProtectFocus(s)
  <2>1. CASE front = saved[s] /\ Focused(s)
    BY <1>2, <1>5, <2>1 DEF ProtectFocus
  <2>2. CASE front # saved[s] /\ Ends(s, "focus_lost") /\ UNCHANGED <<front, moved>>
    BY <1>1, <1>5, <2>2 DEF ProtectFocus, Outcomes
  <2>3. CASE /\ Goes(s, "activating")
             /\ Fronts(saved[s]) \/ UNCHANGED <<front, moved>>
             /\ UNCHANGED outcome
    <3>1. saved[s] \in Apps /\ at[s] = "probing"
      BY <1>5 DEF ProtectFocus, IInv, InjectionTypeOK
    <3> QED BY <1>0, <2>3, <3>1, FocusMove DEF Waits
  <2> QED BY <1>5, <2>1, <2>2, <2>3 DEF ProtectFocus
<1>6. CASE Activated(s)
  BY <1>1, <1>2, <1>6 DEF Activated, Outcomes
<1>7. CASE Planned(s)
  <2>1. CASE Goes(s, "ready") /\ UNCHANGED outcome
    <3>1. at[s] = "focused" /\ UNCHANGED <<front, moved>>
      BY <1>7 DEF Planned
    <3>2. front' = saved[s] \/ s \in moved'
      BY <3>1 DEF IInv, TargetKnown
    <3> QED BY <1>0, <2>1, <3>1, <3>2, FocusMove DEF Waits
  <2>2. CASE Ends(s, "manual_copy_required")
    BY <1>1, <1>7, <2>2 DEF Planned, Outcomes
  <2>3. PICK code \in SnapshotCodes :
          IF PlanPastes(SnapshotKind(code))
          THEN Goes(s, "ready") /\ UNCHANGED outcome
          ELSE Ends(s, "manual_copy_required")
    BY <1>7 DEF Planned
  <2> QED BY <2>1, <2>2, <2>3
<1> QED BY <1>3, <1>4, <1>5, <1>6, <1>7

-----------------------------------------------------------------------------
(* The paste.                                                              *)

(* What a fresh lease looks like on macOS, and what its return leaves.      *)
LEMMA MacLease ==
  ASSUME NEW b \in Boards, NEW s \in Ids, NEW c \in MacPrepares(b, s)
  PROVE  /\ b.pending = NoSnapshot
         /\ c.clip = Text(s) /\ c.pending = b.clip /\ c.pending # NoSnapshot
         /\ ~c.replaced /\ (c.spoiled <=> b.spoiled)
BY ContentFacts DEF MacPrepares, Leased, Boards

(* Whatever holds the user's content at the return ends on the clipboard.   *)
LEMMA MacReturn ==
  ASSUME NEW b \in Boards, b.pending # NoSnapshot, NEW c \in MacRestores(b)
  PROVE  /\ c.pending = NoSnapshot
         /\ ~c.spoiled => /\ ~b.spoiled
                          /\ c.clip = IF b.replaced THEN b.clip ELSE b.pending
<1>1. CASE b.replaced
  BY <1>1 DEF MacRestores, Released, Boards
<1>2. CASE ~b.replaced
  BY <1>2 DEF MacRestores, Released, Holding, Emptied, Boards
<1> QED BY <1>1, <1>2

(* The same of Windows, where the lease may not have written its text.      *)
LEMMA WinLease ==
  ASSUME NEW b \in Boards, NEW s \in Ids, NEW c \in WinPrepares(b, s)
  PROVE  c.pending = b.clip /\ c.pending # NoSnapshot /\ (c.spoiled <=> b.spoiled)
BY ContentFacts DEF WinPrepares, Holding, Boards

(* Its return puts the snapshot back, or fails.                            *)
LEMMA WinReturn ==
  ASSUME NEW b \in Boards, b.pending # NoSnapshot, NEW c \in WinRestores(b)
  PROVE  ~c.spoiled => ~b.spoiled /\ c.clip = b.pending
BY DEF WinRestores, Holding, Emptied, Boards

(* What a step of a paste leaves alone, and the moves it may make.          *)
LEMMA PasteMove ==
  ASSUME IInv, NEW s \in Ids, NEW wait \in {"settling", "done"}, Goes(s, wait),
         at[s] \in {"ready", "settling"},
         UNCHANGED <<lifecycleVars, platform, copied, front, saved, moved>>,
         outcome' \in [Ids -> Outcomes], board' \in Boards, disturbed' \in BOOLEAN,
         Consistent'
  PROVE  IInv'
<1>1. /\ at' \in [Ids -> Waits] /\ at'[s] = wait
      /\ \A t \in Ids \ {s} : at'[t] = at[t]
  BY DEF Goes, IInv, InjectionTypeOK, Waits
<1>2. TargetKnown' /\ Begun'
  BY <1>1 DEF IInv, TargetKnown, Begun, lifecycleVars
<1> QED
  BY <1>1, <1>2 DEF IInv, InjectionTypeOK, lifecycleVars

(* Who pastes after such a step.                                           *)
LEMMA PastingAfter ==
  ASSUME InjectionTypeOK, NEW s \in Ids, NEW wait \in {"settling", "done"}, Goes(s, wait)
  PROVE  Pasting' = IF wait = "settling" THEN Pasting \cup {s} ELSE Pasting \ {s}
BY DEF InjectionTypeOK, Goes, Pasting

(* How a paste begins: it waits for its target, or it gives the lease back  *)
(* for want of a keystroke, or it got no lease.                            *)
LEMMA PastesCases ==
  ASSUME NEW s \in Ids, Pastes(s)
  PROVE  \/ board' \in Prepares(s) /\ Goes(s, "settling") /\ UNCHANGED outcome
         \/ \E b \in Prepares(s) : board' \in Restores(b) /\ Ends(s, "manual_copy_required")
         \/ board' \in Refuses /\ Ends(s, "manual_copy_required")
<1> SUFFICES ASSUME NEW b \in Prepares(s), NEW code \in PasteCodes,
                    IF KeystrokeSent(code)
                    THEN board' = b /\ Goes(s, "settling") /\ UNCHANGED outcome
                    ELSE board' \in Restores(b) /\ Ends(s, "manual_copy_required")
             PROVE  \/ board' \in Prepares(s) /\ Goes(s, "settling") /\ UNCHANGED outcome
                    \/ board' \in Restores(b) /\ Ends(s, "manual_copy_required")
  BY DEF Pastes
<1> QED OBVIOUS

(* A paste on macOS takes the snapshot only when nobody else pastes.        *)
LEMMA MacPastes ==
  ASSUME IInv, platform = "macos", NEW s \in Ids, Pastes(s)
  PROVE  Consistent' /\ board' \in Boards
<1> DEFINE b == board
<1>0. /\ board \in Boards /\ MacConsistent /\ s \notin Pasting /\ platform' = platform
      /\ copied' = copied /\ Text(s) \in Contents
  BY ContentFacts DEF IInv, InjectionTypeOK, Consistent, Pasting, Pastes
<1>1. CASE board' \in Prepares(s) /\ Goes(s, "settling")
  <2>1. board' \in MacPrepares(board, s) /\ board' \in Boards
    BY <1>0, <1>1, BoardTypes DEF Prepares
  <2>2. Pasting = {} /\ Pasting' = {s}
    BY <1>0, <1>1, <2>1, MacLease, PastingAfter DEF MacConsistent, IInv
  <2>3. MacConsistent'
    BY <1>0, <2>1, <2>2, MacLease DEF MacConsistent
  <2> QED BY <1>0, <2>1, <2>3 DEF Consistent
<1>2. CASE /\ \E c \in Prepares(s) : board' \in Restores(c)
           /\ Ends(s, "manual_copy_required")
  <2>1. PICK c \in MacPrepares(board, s) : board' \in MacRestores(c)
    BY <1>2 DEF Prepares, Restores
  <2>2. c \in Boards /\ board' \in Boards
    BY <1>0, <2>1, BoardTypes
  <2>3. Pasting = {} /\ Pasting' = {}
    BY <1>0, <1>2, <2>1, MacLease, PastingAfter DEF MacConsistent, IInv, Ends
  <2>4. MacConsistent'
    BY <1>0, <2>1, <2>2, <2>3, MacLease, MacReturn DEF MacConsistent
  <2> QED BY <1>0, <2>2, <2>4 DEF Consistent
<1>3. CASE board' \in Refuses /\ Ends(s, "manual_copy_required")
  <2>1. board' \in MacRefuses(board) /\ board' \in Boards
    BY <1>0, <1>3, BoardTypes DEF Refuses
  <2>2. Pasting' = Pasting
    BY <1>0, <1>3, PastingAfter DEF IInv, Ends
  <2>3. MacConsistent'
    <3>1. CASE board' = board
      BY <1>0, <2>2, <3>1 DEF MacConsistent
    <3>2. CASE board.pending = NoSnapshot /\ board' = Emptied(board)
      <4>1. board'.pending = NoSnapshot /\ board'.spoiled /\ Pasting = {}
        BY <1>0, <3>2 DEF Emptied, Boards, MacConsistent
      <4> QED BY <2>2, <4>1 DEF MacConsistent
    <3> QED BY <2>1, <3>1, <3>2 DEF MacRefuses
  <2> QED BY <1>0, <2>1, <2>3 DEF Consistent
<1> QED BY <1>1, <1>2, <1>3, PastesCases

(* On Windows a paste beside another is marked as disturbed.                *)
LEMMA WinPastes ==
  ASSUME IInv, platform # "macos", NEW s \in Ids, Pastes(s)
  PROVE  Consistent' /\ board' \in Boards
<1>0. /\ board \in Boards /\ WinConsistent /\ s \notin Pasting /\ platform' = platform
      /\ copied' = copied /\ Pasting \ {s} = Pasting
      /\ disturbed' = (disturbed \/ Pasting # {})
  BY DEF IInv, InjectionTypeOK, Consistent, Pasting, Pastes, Meets
<1>1. CASE board' \in Prepares(s) /\ Goes(s, "settling")
  <2>1. board' \in WinPrepares(board, s) /\ board' \in Boards
    BY <1>0, <1>1, BoardTypes DEF Prepares
  <2>2. Pasting' = Pasting \cup {s}
    BY <1>1, PastingAfter DEF IInv
  <2>3. WinConsistent'
    BY <1>0, <2>1, <2>2, WinLease DEF WinConsistent
  <2> QED BY <1>0, <2>1, <2>3 DEF Consistent
<1>2. CASE /\ \E c \in Prepares(s) : board' \in Restores(c)
           /\ Ends(s, "manual_copy_required")
  <2>1. PICK c \in WinPrepares(board, s) : board' \in WinRestores(c)
    BY <1>2 DEF Prepares, Restores
  <2>2. c \in Boards /\ board' \in Boards
    BY <1>0, <2>1, BoardTypes
  <2>3. Pasting' = Pasting
    BY <1>0, <1>2, PastingAfter DEF IInv, Ends
  <2>4. WinConsistent'
    BY <1>0, <2>1, <2>2, <2>3, WinLease, WinReturn DEF WinConsistent
  <2> QED BY <1>0, <2>2, <2>4 DEF Consistent
<1>3. CASE board' \in Refuses /\ Ends(s, "manual_copy_required")
  <2>1. board' \in WinRefuses(board) /\ board' \in Boards
    BY <1>0, <1>3, BoardTypes DEF Refuses
  <2>2. Pasting' = Pasting
    BY <1>0, <1>3, PastingAfter DEF IInv, Ends
  <2>3. board'.clip = board.clip /\ board'.spoiled = board.spoiled
    BY <1>0, <2>1 DEF WinRefuses, Released, Boards
  <2>4. WinConsistent'
    BY <1>0, <2>2, <2>3 DEF WinConsistent
  <2> QED BY <1>0, <2>1, <2>4 DEF Consistent
<1> QED BY <1>1, <1>2, <1>3, PastesCases

(* The paste keeps the invariant, on either platform.                      *)
LEMMA PastesStep == ASSUME IInv, NEW s \in Ids, Pastes(s) PROVE IInv'
<1>1. Consistent' /\ board' \in Boards
  BY MacPastes, WinPastes
<1>2. /\ at[s] = "ready" /\ disturbed' \in BOOLEAN
      /\ UNCHANGED <<lifecycleVars, platform, copied, front, saved, moved>>
  BY DEF Pastes, Meets
<1>3. /\ Goes(s, "settling") \/ Goes(s, "done")
      /\ outcome' \in [Ids -> Outcomes]
  BY DEF Pastes, Ends, IInv, InjectionTypeOK, Outcomes
<1> QED BY <1>1, <1>2, <1>3, PasteMove

(* So does the return of the lease.                                        *)
LEMMA SettleEndsStep == ASSUME IInv, NEW s \in Ids, SettleEnds(s) PROVE IInv'
<1>0. /\ board \in Boards /\ s \in Pasting /\ at[s] = "settling"
      /\ UNCHANGED <<lifecycleVars, platform, copied, front, saved, moved, disturbed>>
      /\ Goes(s, "done") /\ outcome' \in [Ids -> Outcomes]
      /\ Pasting' = Pasting \ {s} /\ disturbed \in BOOLEAN
  BY PastingAfter DEF IInv, InjectionTypeOK, Pasting, SettleEnds, Ends, Outcomes
<1>1. CASE platform = "macos"
  <2>1. board' \in MacRestores(board) /\ board' \in Boards /\ MacConsistent
    BY <1>0, <1>1, BoardTypes DEF SettleEnds, Restores, IInv, Consistent
  <2>2. board.pending # NoSnapshot /\ Pasting' = {}
    BY <1>0, <2>1 DEF MacConsistent
  <2>3. MacConsistent'
    BY <1>0, <2>1, <2>2, MacReturn DEF MacConsistent
  <2> QED BY <1>0, <1>1, <2>1, <2>3, PasteMove DEF Consistent
<1>2. CASE platform # "macos"
  <2>1. board' \in WinRestores(board) /\ board' \in Boards /\ WinConsistent
    BY <1>0, <1>2, BoardTypes DEF SettleEnds, Restores, IInv, Consistent
  <2>2. WinConsistent'
    <3> SUFFICES ASSUME ~disturbed, ~board'.spoiled
                 PROVE  Pasting' = {} /\ board'.clip = copied
      BY <1>0, <2>1 DEF WinConsistent
    <3>1. ~board.spoiled
      BY <1>0, <2>1 DEF WinRestores, Holding, Emptied, Boards
    <3>2. Pasting' = {} /\ board.pending = copied
      BY <1>0, <2>1, <3>1 DEF WinConsistent
    <3>3. board.pending # NoSnapshot
      BY <3>2, ContentFacts DEF IInv, InjectionTypeOK
    <3> QED BY <1>0, <2>1, <3>2, <3>3, WinReturn
  <2> QED BY <1>0, <1>2, <2>1, <2>2, PasteMove DEF Consistent
<1> QED BY <1>1, <1>2

-----------------------------------------------------------------------------
(* The invariant holds at first: the clipboard is the user's.              *)
LEMMA InitIInv == Init => IInv
<1> SUFFICES ASSUME Init PROVE IInv
  OBVIOUS
<1>1. 0 \in 0 .. MaxCopies /\ 0 \in 0 .. MaxSessions
  BY MaxCopiesAssumption, MaxSessionsAssumption
<1>2. User(0) \in Contents /\ copied \in {User(n) : n \in 0 .. MaxCopies}
  BY <1>1, ContentFacts DEF Init
<1>3. /\ board \in Boards /\ board.pending = NoSnapshot /\ board.clip = copied
      /\ ~board.spoiled
  BY <1>2 DEF Init, Boards
<1>4. Pasting = {}
  BY DEF Init, Pasting
<1>5. InjectionTypeOK
  BY <1>1, <1>2, <1>3 DEF Init, LifecycleInit, InjectionTypeOK, Waits, Outcomes, Stages
<1>6. TargetKnown /\ Begun
  BY DEF Init, TargetKnown, Begun
<1>7. Consistent
  BY <1>3, <1>4 DEF Consistent, MacConsistent, WinConsistent
<1> QED BY <1>5, <1>6, <1>7 DEF IInv

(* Every step keeps it.                                                    *)
LEMMA NextStep == IInv /\ [Next]_vars => IInv'
<1> SUFFICES ASSUME IInv, [Next]_vars PROVE IInv'
  OBVIOUS
<1>1. CASE UserCopies
  BY <1>1, UserCopiesStep
<1>2. CASE NoticeCopies
  BY <1>2, NoticeCopiesStep
<1>3. CASE UserSwitches
  BY <1>3, UserSwitchesStep
<1>4. ASSUME NEW s \in Ids, SessionBegins(s) PROVE IInv'
  BY <1>4, SessionBeginsStep
<1>5. ASSUME NEW s \in Ids, InjectionStarts(s) PROVE IInv'
  BY <1>5, InjectionStartsStep
<1>6. ASSUME NEW s \in Ids, SessionGoesOn(s) PROVE IInv'
  BY <1>6, SessionGoesOnStep
<1>7. ASSUME NEW s \in Ids, FocusStep(s) PROVE IInv'
  BY <1>7, FocusStepStep
<1>8. ASSUME NEW s \in Ids, Pastes(s) PROVE IInv'
  BY <1>8, PastesStep
<1>9. ASSUME NEW s \in Ids, SettleEnds(s) PROVE IInv'
  BY <1>9, SettleEndsStep
<1>10. CASE UNCHANGED vars
  <2>1. Consistent'
    BY <1>10, ConsistentFrame DEF vars, injectionVars, IInv, Pasting
  <2> QED
    BY <1>10, <2>1 DEF vars, injectionVars, lifecycleVars, IInv, InjectionTypeOK,
                       TargetKnown, Begun
<1> QED
  BY <1>1, <1>2, <1>3, <1>4, <1>5, <1>6, <1>7, <1>8, <1>9, <1>10 DEF Next

-----------------------------------------------------------------------------
(* The inductive invariant holds: whoever writes to the clipboard, the      *)
(* user's content is on it or in the snapshot that will be put back.        *)
THEOREM Inductive == Spec => []IInv
BY InitIInv, NextStep, PTL DEF Spec

(* Outside a paste the clipboard holds what the user put there last.        *)
THEOREM ClipboardSafe == Spec => []UserClipboardKept
<1>1. IInv => UserClipboardKept
  <2> SUFFICES ASSUME IInv, Pasting = {}, ~board.spoiled,
                      platform = "windows" => ~disturbed
               PROVE  board.clip = copied
    BY DEF UserClipboardKept
  <2>1. CASE platform = "macos"
    BY <2>1 DEF IInv, Consistent, MacConsistent
  <2>2. CASE platform # "macos"
    <3>1. platform = "windows"
      BY <2>2, PlatformsAssumption DEF IInv, InjectionTypeOK
    <3> QED BY <2>2, <3>1 DEF IInv, Consistent, WinConsistent
  <2> QED BY <2>1, <2>2
<1> QED BY <1>1, Inductive, PTL

(* On macOS no snapshot is stranded, and one injection pastes at a time.    *)
THEOREM SnapshotSafe == Spec => []SnapshotHasOwner
<1>1. IInv => SnapshotHasOwner
  BY DEF IInv, Consistent, MacConsistent, SnapshotHasOwner
<1> QED BY <1>1, Inductive, PTL

(* On macOS the target finds the text it is meant to paste.                *)
THEOREM PasteSafe == Spec => []PasteFindsText
<1>1. IInv => PasteFindsText
  BY DEF IInv, Consistent, MacConsistent, PasteFindsText
<1> QED BY <1>1, Inductive, PTL

(* The keystroke goes to the application the session was dictated in.       *)
THEOREM TargetSafe == Spec => PastesWhereDictated
<1> DEFINE Known == \A s \in Ids : at[s] = "ready" /\ at'[s] = "settling"
                                     => front = saved[s] \/ s \in moved
<1>1. IInv /\ [Next]_vars => [Known]_vars
  BY DEF IInv, TargetKnown
<1> QED BY <1>1, Inductive, PTL DEF Spec, PastesWhereDictated

-----------------------------------------------------------------------------
-----------------------------------------------------------------------------
(* The modes page.  Its calls and replies.                                  *)

Policies == {"reject", "steal"}
Saves ==
  [do : {"save"}, id : Modes, mode : Mode, policy : Policies,
   adopt : {"same mode key", "same prompt key"}, who : {"autosave", "flush", "leave"}]
DialogSaved ==
  [nr : Nat, do : {"save"}, id : Modes, mode : Mode, policy : Policies,
   adopt : {"if selected"}, who : {"dialog"}]
Creates == [do : {"create"}, id : Modes \cup {None}, who : {"page"}]
Deletes == [do : {"delete"}, id : Custom, selected : BOOLEAN]
AllCalls == Saves \cup DialogSaved \cup Creates \cup Deletes
Replies == [call : AllCalls, ok : BOOLEAN]

IsFlush(call) == call.do = "save" /\ call.who = "flush"

(* How many of the calls a command waits for.                               *)
Flushes(calls) == Cardinality({i \in DOMAIN calls : IsFlush(calls[i])})
CallsOf(replies) == [i \in DOMAIN replies |-> replies[i].call]
FlushCount == Flushes(inbox) + Flushes(CallsOf(outbox))

LEMMA CallShape ==
  ASSUME NEW c \in AllCalls
  PROVE  /\ c.do \in {"save", "create", "delete"}
         /\ c.do = "save" => /\ c.id \in Modes /\ c.mode \in Mode /\ c.policy \in Policies
                             /\ c.who \in {"autosave", "flush", "leave", "dialog"}
         /\ c.do = "create" => c \in Creates /\ c.id \in Modes \cup {None}
         /\ c.do = "delete" => c \in Deletes /\ c.id \in Custom /\ c.id \in Modes
BY DEF AllCalls, Saves, DialogSaved, Creates, Deletes, Modes

LEMMA AppendShape ==
  ASSUME NEW S, NEW s \in Seq(S), NEW x \in S
  PROVE  /\ Append(s, x) \in Seq(S) /\ Len(s) \in Nat /\ DOMAIN s = 1 .. Len(s)
         /\ DOMAIN Append(s, x) = 1 .. Len(s) + 1
         /\ Append(s, x)[Len(s) + 1] = x
         /\ \A i \in DOMAIN s : Append(s, x)[i] = s[i] /\ i # Len(s) + 1 /\ i < Len(s) + 1
OBVIOUS

LEMMA TailShape ==
  ASSUME NEW S, NEW s \in Seq(S), s # <<>>
  PROVE  /\ Tail(s) \in Seq(S) /\ Head(s) = s[1] /\ s[1] \in S /\ 1 \in DOMAIN s
         /\ DOMAIN s = 1 .. Len(s) /\ Len(s) \in Nat /\ Len(s) > 0
         /\ DOMAIN Tail(s) = 1 .. Len(s) - 1
         /\ \A i \in DOMAIN Tail(s) : i + 1 \in DOMAIN s /\ Tail(s)[i] = s[i + 1] /\ i >= 1
         /\ \A i \in DOMAIN s : i \in Nat /\ (i # 1 => i - 1 \in DOMAIN Tail(s) /\ i > 1)
         /\ \A i \in DOMAIN s : i # 1 => Tail(s)[i - 1] = s[i]
OBVIOUS

LEMMA FlushesNat ==
  ASSUME NEW s \in Seq(AllCalls)
  PROVE  /\ Flushes(s) \in Nat
         /\ IsFiniteSet({i \in DOMAIN s : IsFlush(s[i])})
<1> DEFINE P == {i \in DOMAIN s : IsFlush(s[i])}
<1>1. IsFiniteSet(1 .. Len(s)) /\ P \subseteq 1 .. Len(s)
  BY FS_Interval
<1>2. IsFiniteSet(P)
  BY <1>1, FS_Subset
<1> QED BY <1>2, FS_CardinalityType DEF Flushes

LEMMA FlushesAppend ==
  ASSUME NEW s \in Seq(AllCalls), NEW c \in AllCalls
  PROVE  Flushes(Append(s, c)) = Flushes(s) + (IF IsFlush(c) THEN 1 ELSE 0)
<1> DEFINE P == {i \in DOMAIN s : IsFlush(s[i])}
           Q == {i \in DOMAIN Append(s, c) : IsFlush(Append(s, c)[i])}
           n == Len(s) + 1
<1>1. IsFiniteSet(P) /\ Cardinality(P) = Flushes(s) /\ Flushes(s) \in Nat
  BY FlushesNat DEF Flushes
<1>2. n \notin P /\ Q = IF IsFlush(c) THEN P \cup {n} ELSE P
  BY AppendShape
<1>3. Cardinality(P \cup {n}) = Cardinality(P) + 1
  <2> HIDE DEF P, n
  <2> QED BY <1>1, <1>2, FS_AddElement
<1>4. Flushes(Append(s, c)) = Cardinality(Q)
  BY DEF Flushes
<1> HIDE DEF P, Q
<1> QED BY <1>1, <1>2, <1>3, <1>4

LEMMA FlushesTail ==
  ASSUME NEW s \in Seq(AllCalls), s # <<>>
  PROVE  Flushes(s) = Flushes(Tail(s)) + (IF IsFlush(s[1]) THEN 1 ELSE 0)
<1> DEFINE P == {i \in DOMAIN s : IsFlush(s[i])}
           Q == {i \in DOMAIN Tail(s) : IsFlush(Tail(s)[i])}
           f == [i \in Q |-> i + 1]
<1>0. Tail(s) \in Seq(AllCalls)
  BY TailShape
<1>1. /\ IsFiniteSet(P) /\ Cardinality(P) = Flushes(s)
      /\ IsFiniteSet(Q) /\ Cardinality(Q) = Flushes(Tail(s)) /\ Flushes(Tail(s)) \in Nat
  BY <1>0, FlushesNat DEF Flushes
<1>2. f \in Bijection(Q, P \ {1})
  <2>1. \A i \in Q : i + 1 \in P \ {1} /\ i \in Int
    BY TailShape
  <2>2. \A i \in P \ {1} : i - 1 \in Q /\ (i - 1) + 1 = i
    BY TailShape
  <2> HIDE DEF P, Q
  <2>3. f \in [Q -> P \ {1}] /\ \A a, b \in Q : f[a] = f[b] => a = b
    BY <2>1
  <2>4. \A i \in P \ {1} : \E q \in Q : f[q] = i
    BY <2>2
  <2> HIDE DEF f
  <2> QED BY <2>3, <2>4 DEF Bijection, Injection, Surjection, IsInjective
<1>3. IsFiniteSet(P \ {1}) /\ Cardinality(P \ {1}) = Cardinality(Q)
  <2> HIDE DEF P, Q, f
  <2>1. ExistsBijection(Q, P \ {1})
    BY <1>2 DEF ExistsBijection
  <2> QED BY <1>1, <2>1, FS_Bijection
<1>4. Cardinality(P \ {1}) = IF 1 \in P THEN Cardinality(P) - 1 ELSE Cardinality(P)
  <2> HIDE DEF P
  <2> QED BY <1>1, FS_RemoveElement
<1>5. 1 \in P <=> IsFlush(s[1])
  BY TailShape
<1>6. Cardinality(P) \in Nat
  BY <1>1, FlushesNat
<1> HIDE DEF P, Q
<1> QED BY <1>1, <1>3, <1>4, <1>5, <1>6

LEMMA CallsOfShape ==
  ASSUME NEW r \in Seq(Replies)
  PROVE  /\ CallsOf(r) \in Seq(AllCalls) /\ Len(CallsOf(r)) = Len(r)
         /\ \A x \in Replies : CallsOf(Append(r, x)) = Append(CallsOf(r), x.call)
         /\ r # <<>> => /\ CallsOf(Tail(r)) = Tail(CallsOf(r)) /\ CallsOf(r) # <<>>
                        /\ CallsOf(r)[1] = r[1].call
<1>1. \A i \in DOMAIN r : r[i].call \in AllCalls
  <2>1. \A i \in DOMAIN r : r[i] \in Replies
    OBVIOUS
  <2> QED BY <2>1 DEF Replies
<1>2. CallsOf(r) \in Seq(AllCalls) /\ Len(CallsOf(r)) = Len(r)
  BY <1>1 DEF CallsOf
<1>3. ASSUME NEW x \in Replies
      PROVE  CallsOf(Append(r, x)) = Append(CallsOf(r), x.call)
  BY <1>2 DEF CallsOf
<1>4. ASSUME r # <<>>
      PROVE  /\ CallsOf(Tail(r)) = Tail(CallsOf(r)) /\ CallsOf(r) # <<>>
             /\ CallsOf(r)[1] = r[1].call
  BY <1>2, <1>4 DEF CallsOf
<1> QED BY <1>2, <1>3, <1>4

-----------------------------------------------------------------------------
(* The inductive invariant.  The store runs ahead of the page by the        *)
(* replies on their way, and the last of them tells what a mode has become. *)

Effective(m) == {i \in DOMAIN outbox : outbox[i].ok /\ outbox[i].call.id = m}
Announced(m) == {i \in Effective(m) : outbox[i].call.do = "create"}

(* The page has heard of the mode, deleted since or not.                    *)
Known(m) == m \in minted /\ Announced(m) = {}
KnownCall(call) == call.do # "create" => Known(call.id)
KnownCalls(calls) == \A i \in DOMAIN calls : KnownCall(calls[i])

NewMode == [name |-> NewName, chord |-> None, body |-> NewBody]
Effect(call) ==
  CASE call.do = "save" -> call.mode [] call.do = "create" -> NewMode [] OTHER -> None

KnownCommand(command) ==
  command.do = "expand" => command.id \in Modes /\ command.mode \in Mode /\ Known(command.id)

AnnouncedOnce == \A m \in Modes : \A i, j \in Announced(m) : i = j

(* Nothing succeeds on a mode after its deletion.                           *)
DeletesLast ==
  \A m \in Modes : \A i \in Effective(m) : outbox[i].call.do = "delete" =>
     /\ store[m] = None
     /\ \A j \in Effective(m) : i < j => outbox[j].call.do = "delete"

(* What the page no longer lists is not stored, nor was it saved since.     *)
Absent ==
  \A m \in Modes :
    /\ Known(m) /\ list[m] = None => store[m] = None
    /\ \A i \in Effective(m) : outbox[i].call.do = "save" => list[m] # None

LastEffect ==
  \A m \in Modes \ robbed :
    /\ Effective(m) = {} => list[m] = store[m]
    /\ \A i \in Effective(m) :
         (\A j \in Effective(m) : j <= i) => store[m] = Effect(outbox[i].call)

StoreTypes ==
  /\ store \in [Modes -> Mode \cup {None}] /\ list \in [Modes -> Mode \cup {None}]
  /\ \A m \in BuiltIn : store[m] # None
  /\ current \in Modes \cup {None}
  /\ current # None => store[current] # None
  /\ minted \subseteq Modes /\ BuiltIn \subseteq minted

OnlyMinted ==
  /\ \A m \in Modes : list[m] # None => Known(m)
  /\ \A m \in Modes : store[m] # None => m \in minted

StoreInd ==
  /\ StoreTypes /\ OnlyMinted /\ Disjoint(store)
  /\ AnnouncedOnce /\ DeletesLast /\ Absent /\ LastEffect

CallsInd ==
  /\ inbox \in Seq(AllCalls) /\ outbox \in Seq(Replies)
  /\ KnownCalls(inbox) /\ KnownCalls(CallsOf(outbox))
  /\ \A i \in DOMAIN outbox :
       outbox[i].ok /\ outbox[i].call.do = "create" => outbox[i].call.id \in minted

PageInd ==
  /\ draft \in Drafts \cup {None} /\ dialog \in Dialogs \cup {None}
  /\ flow \in Flow \cup {None} /\ asking \in Custom \cup {None} /\ acts \in 0 .. MaxActs
  /\ wish \in [Modes -> Mode \cup {None}]
  /\ \A m \in Modes : wish[m] = None <=> list[m] = None
  /\ draft = None => persistedMode = None /\ persistedPrompt = None
  /\ draft # None => Known(draft.id)
  /\ dialog # None => Known(dialog.id)
  /\ asking # None => Known(asking)
  /\ flow # None => KnownCommand(flow.command)

FlowCounts ==
  /\ flow = None => FlushCount = 0
  /\ flow # None => flow.left = FlushCount /\ flow.left > 0

EditorInd == StoreInd /\ CallsInd /\ PageInd /\ FlowCounts

LEMMA OutboxShape ==
  ASSUME CallsInd, NEW i \in DOMAIN outbox
  PROVE  /\ outbox[i] \in Replies /\ outbox[i].call \in AllCalls /\ outbox[i].ok \in BOOLEAN
         /\ KnownCall(outbox[i].call)
         /\ DOMAIN outbox = 1 .. Len(outbox) /\ Len(outbox) \in Nat /\ i \in Nat
         /\ CallsOf(outbox)[i] = outbox[i].call
<1>1. outbox \in Seq(Replies)
  BY DEF CallsInd
<1>2. outbox[i] \in Replies /\ DOMAIN outbox = 1 .. Len(outbox) /\ Len(outbox) \in Nat /\ i \in Nat
  BY <1>1
<1>3. CallsOf(outbox)[i] = outbox[i].call /\ i \in DOMAIN CallsOf(outbox)
  BY DEF CallsOf
<1> QED BY <1>2, <1>3 DEF CallsInd, KnownCalls, Replies

(* A mode nobody minted has no replies.                                     *)
LEMMA EffectiveMinted ==
  ASSUME CallsInd, NEW m \in Modes, NEW i \in Effective(m)
  PROVE  m \in minted
<1>1. /\ i \in DOMAIN outbox /\ outbox[i].ok /\ outbox[i].call.id = m
  BY DEF Effective
<1>2. KnownCall(outbox[i].call)
  BY <1>1, OutboxShape
<1> QED BY <1>1, <1>2 DEF CallsInd, KnownCall, Known

LEMMA AnswerShape ==
  ASSUME CallsInd, NEW c \in AllCalls, NEW ok \in BOOLEAN, Answer(c, ok)
  PROVE  LET n == Len(outbox) + 1 IN
         /\ outbox' \in Seq(Replies) /\ n \in Nat
         /\ outbox'[n].call = c /\ outbox'[n].ok = ok
         /\ \A i \in DOMAIN outbox : outbox'[i] = outbox[i] /\ i < n
         /\ DOMAIN outbox' = 1 .. n /\ DOMAIN outbox = 1 .. n - 1
         /\ \A m : Effective(m)' = Effective(m) \cup (IF ok /\ c.id = m THEN {n} ELSE {})
         /\ \A m : Announced(m)' =
                     Announced(m) \cup (IF ok /\ c.id = m /\ c.do = "create" THEN {n} ELSE {})
         /\ CallsOf(outbox)' = Append(CallsOf(outbox), c)
<1> DEFINE n == Len(outbox) + 1
           r == [call |-> c, ok |-> ok]
<1>1. outbox \in Seq(Replies) /\ r \in Replies /\ outbox' = Append(outbox, r)
  BY DEF CallsInd, Answer, Replies
<1>2. r.call = c /\ r.ok = ok
  OBVIOUS
<1> HIDE DEF r
<1>3. /\ outbox' \in Seq(Replies) /\ n \in Nat /\ outbox'[n] = r
      /\ \A i \in DOMAIN outbox : outbox'[i] = outbox[i] /\ i < n
      /\ DOMAIN outbox' = 1 .. n /\ DOMAIN outbox = 1 .. n - 1
  BY <1>1, AppendShape
<1>4. DOMAIN outbox' = DOMAIN outbox \cup {n}
  BY <1>3
<1>5. outbox'[n].call = c /\ outbox'[n].ok = ok
  BY <1>2, <1>3
<1> HIDE DEF n
<1>6. ASSUME NEW m
      PROVE  Effective(m)' = Effective(m) \cup (IF ok /\ c.id = m THEN {n} ELSE {})
  BY <1>3, <1>4, <1>5 DEF Effective
<1>7. ASSUME NEW m
      PROVE  Announced(m)' =
                     Announced(m) \cup (IF ok /\ c.id = m /\ c.do = "create" THEN {n} ELSE {})
  <2>1. \A i \in Effective(m) : outbox'[i] = outbox[i]
    BY <1>3 DEF Effective
  <2> QED BY <1>5, <1>6, <2>1 DEF Announced
<1>8. CallsOf(outbox)' = Append(CallsOf(outbox), c)
  <2>1. CallsOf(outbox)' = CallsOf(Append(outbox, r))
    BY <1>1 DEF CallsOf
  <2> QED BY <1>1, <1>2, <2>1, CallsOfShape
<1> QED BY <1>3, <1>5, <1>6, <1>7, <1>8 DEF n

LEMMA KnownAppend ==
  ASSUME NEW s \in Seq(AllCalls), NEW c \in AllCalls, KnownCalls(s), KnownCall(c)
  PROVE  KnownCalls(Append(s, c))
<1> SUFFICES ASSUME NEW i \in DOMAIN Append(s, c) PROVE KnownCall(Append(s, c)[i])
  BY DEF KnownCalls
<1>1. i \in DOMAIN s \/ i = Len(s) + 1
  BY AppendShape
<1> QED BY <1>1, AppendShape DEF KnownCalls

LEMMA KnownTail ==
  ASSUME NEW s \in Seq(AllCalls), KnownCalls(s), s # <<>>
  PROVE  KnownCalls(Tail(s)) /\ KnownCall(s[1])
BY TailShape DEF KnownCalls

(* What the page knows it goes on knowing.                                  *)
KnownStays == \A m : Known(m) => Known(m)'

LEMMA KnownCallsStay ==
  ASSUME KnownStays
  PROVE  /\ KnownCalls(inbox') => KnownCalls(inbox)'
         /\ KnownCalls(CallsOf(outbox')) => KnownCalls(CallsOf(outbox))'
<1>1. \A m : m \in minted /\ Announced(m) = {} => m \in minted' /\ Announced(m)' = {}
  BY DEF KnownStays, Known
<1>2. KnownCalls(inbox') => KnownCalls(inbox)'
  BY <1>1 DEF KnownCalls, KnownCall, Known, Announced, Effective
<1>3. KnownCalls(CallsOf(outbox')) => KnownCalls(CallsOf(outbox))'
  BY <1>1 DEF KnownCalls, KnownCall, Known, Announced, Effective, CallsOf
<1> QED BY <1>2, <1>3

-----------------------------------------------------------------------------
(* Of the page and of the main process.                                     *)

LEMMA InitEditorInd == EditorInit => EditorInd
<1> SUFFICES ASSUME EditorInit PROVE EditorInd
  OBVIOUS
<1>1. /\ \A m : Effective(m) = {} /\ Announced(m) = {}
      /\ CallsOf(outbox) = <<>>
  BY DEF EditorInit, Effective, Announced, CallsOf
<1>2. /\ store \in [Modes -> Mode \cup {None}] /\ minted \subseteq Modes /\ BuiltIn \subseteq minted
  BY IdsAssumption DEF EditorInit, Mode, Modes
<1>3. StoreInd
  <2>1. StoreTypes
    BY <1>2 DEF EditorInit, StoreTypes, Modes
  <2>2. OnlyMinted
    BY <1>1 DEF EditorInit, OnlyMinted, Known
  <2>3. AnnouncedOnce /\ DeletesLast /\ Absent /\ LastEffect
    BY <1>1 DEF EditorInit, AnnouncedOnce, DeletesLast, Absent, LastEffect
  <2> QED BY <2>1, <2>2, <2>3 DEF StoreInd, EditorInit
<1>4. CallsInd
  BY <1>1 DEF CallsInd, EditorInit, KnownCalls
<1>5. PageInd
  BY <1>2, ActsAssumption DEF PageInd, EditorInit
<1>6. FlowCounts
  <2>1. Flushes(<<>>) = 0
    <3>1. {i \in DOMAIN <<>> : IsFlush(<<>>[i])} = {}
      OBVIOUS
    <3> QED BY <3>1, FS_EmptySet DEF Flushes
  <2> QED BY <1>1, <2>1 DEF FlowCounts, FlushCount, EditorInit
<1> QED BY <1>3, <1>4, <1>5, <1>6 DEF EditorInd

(* Clearing hotkeys leaves modes, and no two with one hotkey.               *)
LEMMA WithoutShape ==
  ASSUME StoreInd, NEW cleared, \A m \in cleared : m \in Modes /\ store[m] # None
  PROVE  LET new == Without(cleared) IN
         /\ new \in [Modes -> Mode \cup {None}]
         /\ Disjoint(new)
         /\ \A m \in Modes : new[m] = None <=> store[m] = None
         /\ \A m \in Modes : m \notin cleared => new[m] = store[m]
<1> DEFINE new == Without(cleared)
<1>1. store \in [Modes -> Mode \cup {None}]
  BY DEF StoreInd, StoreTypes
<1>2. ASSUME NEW m \in cleared
      PROVE  /\ new[m] \in Mode /\ new[m].chord = None /\ new[m] # None /\ store[m] # None
  <2>1. new[m] = [store[m] EXCEPT !.chord = None] /\ store[m] \in Mode
    BY <1>1 DEF Without
  <2>2. new[m] \in Mode /\ new[m].chord = None
    BY <2>1 DEF Mode
  <2> QED BY <2>1, <2>2, NoneAssumption
<1>3. \A m \in Modes : m \notin cleared => new[m] = store[m]
  BY DEF Without
<1>4. \A m \in Modes : new[m] \in Mode \cup {None}
  BY <1>1, <1>2, <1>3
<1>5. new \in [Modes -> Mode \cup {None}]
  <2>1. DOMAIN new = Modes /\ new = [m \in Modes |-> new[m]]
    BY DEF Without
  <2> HIDE DEF new
  <2> QED BY <1>4, <2>1
<1> HIDE DEF new
<1>6. Disjoint(new)
  <2> SUFFICES ASSUME NEW m \in Modes, NEW o \in Modes, m # o, new[m] # None, new[o] # None,
                      new[m].chord # None, new[m].chord = new[o].chord
               PROVE  FALSE
    BY DEF Disjoint
  <2>1. m \notin cleared /\ o \notin cleared
    BY <1>2
  <2> QED BY <2>1, <1>3 DEF StoreInd, Disjoint
<1>7. \A m \in Modes : new[m] = None <=> store[m] = None
  BY <1>2, <1>3
<1> QED BY <1>3, <1>5, <1>6, <1>7 DEF new

LEMMA NothingCleared ==
  ASSUME StoreInd
  PROVE  Without({}) = store
BY DEF StoreInd, StoreTypes, Without

(* A call that fails changes nothing, or has cleared some hotkeys.          *)
LEMMA AnswerFails ==
  ASSUME StoreInd, CallsInd, NEW c \in AllCalls, Answer(c, FALSE),
         NEW cleared, \A m \in cleared : m \in Modes /\ store[m] # None,
         store' = Without(cleared), robbed' = robbed \cup cleared,
         UNCHANGED <<minted, current, list>>
  PROVE  StoreInd' /\ KnownStays
<1>1. \A m : Effective(m)' = Effective(m) /\ Announced(m)' = Announced(m)
  BY AnswerShape
<1>2. \A m : \A i \in Effective(m) : outbox'[i] = outbox[i]
  BY AnswerShape DEF Effective
<1>3. \A m : Known(m)' <=> Known(m)
  BY <1>1 DEF Known
<1>4. /\ store' \in [Modes -> Mode \cup {None}] /\ Disjoint(store')
      /\ \A m \in Modes : store'[m] = None <=> store[m] = None
      /\ \A m \in Modes : m \notin cleared => store'[m] = store[m]
  BY WithoutShape
<1>5. StoreTypes'
  BY <1>4 DEF StoreInd, StoreTypes, Modes
<1>6. OnlyMinted'
  BY <1>3, <1>4 DEF StoreInd, OnlyMinted
<1>7. AnnouncedOnce' /\ DeletesLast' /\ Absent' /\ LastEffect'
  <2>1. AnnouncedOnce'
    BY <1>1 DEF StoreInd, AnnouncedOnce
  <2>2. DeletesLast'
    BY <1>1, <1>2, <1>4 DEF StoreInd, DeletesLast
  <2>3. Absent'
    BY <1>1, <1>2, <1>3, <1>4 DEF StoreInd, Absent
  <2>4. LastEffect'
    BY <1>1, <1>2, <1>4 DEF StoreInd, LastEffect, Effect
  <2> QED BY <2>1, <2>2, <2>3, <2>4
<1> QED BY <1>3, <1>4, <1>5, <1>6, <1>7 DEF StoreInd, KnownStays, Disjoint

(* What a reply that succeeded adds.                                        *)
LEMMA OneMore ==
  ASSUME CallsInd, NEW c \in AllCalls, Answer(c, TRUE)
  PROVE  LET n == Len(outbox) + 1 IN
         /\ Effective(c.id)' = Effective(c.id) \cup {n}
         /\ outbox'[n].call = c
         /\ \A m : m # c.id => Effective(m)' = Effective(m) /\ Announced(m)' = Announced(m)
         /\ c.do # "create" => Announced(c.id)' = Announced(c.id)
         /\ c.do = "create" => Announced(c.id)' = Announced(c.id) \cup {n}
         /\ \A m : \A i \in Effective(m) : outbox'[i] = outbox[i] /\ i < n /\ i # n /\ i \in Nat
         /\ n \in Nat
<1> DEFINE n == Len(outbox) + 1
<1>1. /\ \A m : Effective(m)' = Effective(m) \cup (IF TRUE /\ c.id = m THEN {n} ELSE {})
      /\ \A m : Announced(m)' =
                  Announced(m) \cup (IF TRUE /\ c.id = m /\ c.do = "create" THEN {n} ELSE {})
      /\ outbox'[n].call = c /\ n \in Nat
      /\ \A i \in DOMAIN outbox : outbox'[i] = outbox[i] /\ i < n
      /\ DOMAIN outbox = 1 .. n - 1
  BY AnswerShape
<1> HIDE DEF n
<1>2. \A m : \A i \in Effective(m) : i \in DOMAIN outbox
  BY DEF Effective
<1>3. \A i \in DOMAIN outbox : outbox'[i] = outbox[i] /\ i < n /\ i # n /\ i \in Nat
  BY <1>1
<1>4. \A m : m # c.id => Effective(m)' = Effective(m) /\ Announced(m)' = Announced(m)
  BY <1>1
<1>5. /\ Effective(c.id)' = Effective(c.id) \cup {n}
      /\ c.do # "create" => Announced(c.id)' = Announced(c.id)
      /\ c.do = "create" => Announced(c.id)' = Announced(c.id) \cup {n}
  BY <1>1
<1> QED BY <1>1, <1>2, <1>3, <1>4, <1>5 DEF n

LEMMA SaveModeShape ==
  ASSUME StoreInd, NEW c \in AllCalls, c.do = "save", store[c.id] # None,
         NEW conflicts,
         conflicts = IF c.mode.chord = None THEN {} ELSE Conflicting(c.mode.chord, c.id)
  PROVE  LET new == SaveMode(c, conflicts) IN
         /\ new \in [Modes -> Mode \cup {None}]
         /\ Disjoint(new)
         /\ \A m \in Modes : new[m] = None <=> store[m] = None
         /\ new[c.id] = c.mode
         /\ \A m \in Modes : m # c.id /\ m \notin conflicts => new[m] = store[m]
<1> DEFINE new == SaveMode(c, conflicts)
<1>1. c.id \in Modes /\ c.mode \in Mode /\ c.mode # None
  BY CallShape, NoneAssumption
<1>2. store \in [Modes -> Mode \cup {None}]
  BY DEF StoreInd, StoreTypes
<1>3. \A m \in conflicts : m \in Modes /\ m # c.id /\ store[m] \in Mode
  BY <1>2 DEF Conflicting
<1>4. ASSUME NEW m \in conflicts
      PROVE  /\ new[m] \in Mode /\ new[m].chord = None /\ new[m] # None /\ store[m] # None
  <2>1. new[m] = [store[m] EXCEPT !.chord = None] /\ store[m] \in Mode
    BY <1>3 DEF SaveMode
  <2>2. new[m] \in Mode /\ new[m].chord = None
    BY <2>1 DEF Mode
  <2> QED BY <2>1, <2>2, NoneAssumption
<1>5. new[c.id] = c.mode
  BY <1>1, <1>3 DEF SaveMode
<1>6. \A m \in Modes : m # c.id /\ m \notin conflicts => new[m] = store[m]
  BY DEF SaveMode
<1>7. \A m \in Modes : new[m] \in Mode \cup {None}
  BY <1>1, <1>2, <1>4, <1>5, <1>6
<1>8. new \in [Modes -> Mode \cup {None}]
  <2>1. DOMAIN new = Modes /\ new = [m \in Modes |-> new[m]]
    BY DEF SaveMode
  <2> HIDE DEF new
  <2> QED BY <1>7, <2>1
<1>9. \A m \in Modes : new[m] = None <=> store[m] = None
  BY <1>1, <1>4, <1>5, <1>6
<1> HIDE DEF new
<1>10. Disjoint(new)
  <2> SUFFICES ASSUME NEW m \in Modes, NEW o \in Modes, m # o, new[m] # None, new[o] # None,
                      new[m].chord # None, new[m].chord = new[o].chord
               PROVE  FALSE
    BY DEF Disjoint
  <2>1. m \notin conflicts /\ o \notin conflicts
    BY <1>4
  <2>2. CASE m = c.id
    <3>1. new[o] = store[o] /\ c.mode.chord = store[o].chord /\ c.mode.chord # None
      BY <2>1, <2>2, <1>5, <1>6
    <3> QED BY <2>1, <2>2, <3>1, <1>9 DEF Conflicting
  <2>3. CASE o = c.id
    <3>1. new[m] = store[m] /\ c.mode.chord = store[m].chord /\ c.mode.chord # None
      BY <2>1, <2>3, <1>5, <1>6
    <3> QED BY <2>1, <2>3, <3>1, <1>9 DEF Conflicting
  <2>4. CASE m # c.id /\ o # c.id
    BY <2>1, <2>4, <1>6 DEF StoreInd, Disjoint
  <2> QED BY <2>2, <2>3, <2>4
<1> QED BY <1>5, <1>6, <1>8, <1>9, <1>10 DEF new

(* save_mode took the mode.                                                 *)
LEMMA AnswerSaves ==
  ASSUME StoreInd, CallsInd, NEW c \in AllCalls, c.do = "save", KnownCall(c), store[c.id] # None,
         NEW conflicts,
         conflicts = IF c.mode.chord = None THEN {} ELSE Conflicting(c.mode.chord, c.id),
         store' = SaveMode(c, conflicts), robbed' = robbed \cup conflicts,
         Answer(c, TRUE), UNCHANGED <<minted, current, list>>
  PROVE  StoreInd' /\ KnownStays
<1> DEFINE n == Len(outbox) + 1
<1>1. /\ Effective(c.id)' = Effective(c.id) \cup {n}
      /\ outbox'[n].call = c
      /\ \A m : m # c.id => Effective(m)' = Effective(m)
      /\ \A m : Announced(m)' = Announced(m)
      /\ \A m : \A i \in Effective(m) : outbox'[i] = outbox[i] /\ i < n /\ i # n /\ i \in Nat
      /\ n \in Nat
  <2>1. c.do # "create"
    OBVIOUS
  <2> QED BY <2>1, OneMore
<1> HIDE DEF n
<1>2. /\ store' \in [Modes -> Mode \cup {None}] /\ Disjoint(store')
      /\ \A m \in Modes : store'[m] = None <=> store[m] = None
      /\ store'[c.id] = c.mode
      /\ \A m \in Modes : m # c.id /\ m \notin conflicts => store'[m] = store[m]
  BY SaveModeShape
<1>3. \A m : Known(m)' <=> Known(m)
  BY <1>1 DEF Known
<1>4. c.id \in Modes /\ Known(c.id) /\ list[c.id] # None
  <2>1. c.id \in Modes /\ Known(c.id)
    BY CallShape DEF KnownCall
  <2> QED BY <2>1 DEF StoreInd, Absent
<1>5. \A i \in Effective(c.id) : outbox[i].call.do # "delete"
  BY <1>4 DEF StoreInd, DeletesLast
<1>6. StoreTypes'
  BY <1>2 DEF StoreInd, StoreTypes, Modes
<1>7. OnlyMinted'
  BY <1>2, <1>3 DEF StoreInd, OnlyMinted
<1>8. AnnouncedOnce'
  BY <1>1 DEF StoreInd, AnnouncedOnce
<1>9. DeletesLast'
  <2> SUFFICES ASSUME NEW m \in Modes, NEW i \in Effective(m)', outbox'[i].call.do = "delete"
      PROVE  /\ store'[m] = None
             /\ \A j \in Effective(m)' : i < j => outbox'[j].call.do = "delete"
    BY DEF DeletesLast
  <2>1. m # c.id
    BY <1>1, <1>5
  <2>2. i \in Effective(m) /\ outbox[i].call.do = "delete"
    BY <1>1, <2>1
  <2>3. store[m] = None /\ \A j \in Effective(m) : i < j => outbox[j].call.do = "delete"
    BY <2>2 DEF StoreInd, DeletesLast
  <2> QED BY <1>1, <1>2, <2>1, <2>3
<1>10. Absent'
  <2>1. ASSUME NEW m \in Modes, NEW i \in Effective(m)', outbox'[i].call.do = "save"
        PROVE  list[m] # None
    <3>1. CASE m = c.id
      BY <1>4, <3>1
    <3>2. CASE m # c.id
      BY <1>1, <2>1, <3>2 DEF StoreInd, Absent
    <3> QED BY <3>1, <3>2
  <2> QED BY <1>2, <1>3, <2>1 DEF StoreInd, Absent
<1>11. LastEffect'
  <2> SUFFICES ASSUME NEW m \in Modes, m \notin robbed, m \notin conflicts
      PROVE  /\ Effective(m)' = {} => list[m] = store'[m]
             /\ \A i \in Effective(m)' :
                  (\A j \in Effective(m)' : j <= i) => store'[m] = Effect(outbox'[i].call)
    BY DEF LastEffect, Effect
  <2>1. CASE m = c.id
    <3>1. Effect(c) = c.mode
      BY DEF Effect
    <3>2. ASSUME NEW i \in Effective(m)', \A j \in Effective(m)' : j <= i PROVE i = n
      <4>1. n \in Effective(m)'
        BY <1>1, <2>1
      <4>2. n <= i
        BY <3>2, <4>1
      <4> QED BY <1>1, <2>1, <4>2
    <3>3. Effective(m)' # {}
      BY <1>1, <2>1
    <3> QED BY <1>1, <1>2, <2>1, <3>1, <3>2, <3>3
  <2>2. CASE m # c.id
    <3>1. Effective(m)' = Effective(m) /\ store'[m] = store[m]
      BY <1>1, <1>2, <2>2
    <3>2. \A i \in Effective(m) : outbox'[i] = outbox[i]
      BY <1>1
    <3> QED BY <3>1, <3>2 DEF StoreInd, LastEffect
  <2> QED BY <2>1, <2>2
<1> QED BY <1>2, <1>3, <1>6, <1>7, <1>8, <1>9, <1>10, <1>11 DEF StoreInd, KnownStays, Disjoint

(* create_mode mints an id nobody knows.                                    *)
LEMMA AnswerCreates ==
  ASSUME StoreInd, CallsInd, NEW m \in Custom \ minted, NEW c \in AllCalls, c.do = "create",
         c.id = m, Answer(c, TRUE),
         store' = [store EXCEPT ![m] = [name |-> NewName, chord |-> None, body |-> NewBody]],
         minted' = minted \cup {m}, UNCHANGED <<current, list, robbed>>
  PROVE  StoreInd' /\ KnownStays
<1> DEFINE n == Len(outbox) + 1
<1>1. /\ Effective(m)' = Effective(m) \cup {n}
      /\ outbox'[n].call = c
      /\ \A o : o # m => Effective(o)' = Effective(o) /\ Announced(o)' = Announced(o)
      /\ Announced(m)' = Announced(m) \cup {n}
      /\ \A o : \A i \in Effective(o) : outbox'[i] = outbox[i] /\ i < n /\ i # n /\ i \in Nat
      /\ n \in Nat
  BY OneMore
<1> HIDE DEF n
<1>2. m \in Modes /\ Effective(m) = {} /\ Announced(m) = {}
  <2>1. m \in Modes
    BY DEF Modes
  <2>2. Effective(m) = {}
    BY <2>1, EffectiveMinted
  <2> QED BY <2>1, <2>2 DEF Announced
<1>3. /\ store' \in [Modes -> Mode \cup {None}] /\ store'[m] = NewMode /\ NewMode \in Mode
      /\ \A o \in Modes : o # m => store'[o] = store[o]
  BY <1>2 DEF StoreInd, StoreTypes, NewMode, Mode
<1>4. ~Known(m) /\ ~Known(m)' /\ \A o : o # m => (Known(o)' <=> Known(o))
  BY <1>1 DEF Known
<1>5. list[m] = None /\ store[m] = None
  BY <1>2, <1>4 DEF StoreInd, OnlyMinted
<1>6. StoreTypes'
  BY <1>2, <1>3, <1>5, NoneAssumption DEF StoreInd, StoreTypes, Modes
<1>7. OnlyMinted'
  BY <1>3, <1>4, <1>5 DEF StoreInd, OnlyMinted
<1>8. Disjoint(store)'
  <2>1. NewMode.chord = None
    BY DEF NewMode
  <2>2. \A o \in Modes : o # m => store'[o] = store[o]
    BY <1>3
  <2>3. store'[m].chord = None
    BY <1>3, <2>1
  <2> QED BY <2>2, <2>3 DEF StoreInd, Disjoint
<1>9. AnnouncedOnce'
  BY <1>1, <1>2 DEF StoreInd, AnnouncedOnce
<1>10. DeletesLast'
  <2> SUFFICES ASSUME NEW o \in Modes, NEW i \in Effective(o)', outbox'[i].call.do = "delete"
      PROVE  /\ store'[o] = None
             /\ \A j \in Effective(o)' : i < j => outbox'[j].call.do = "delete"
    BY DEF DeletesLast
  <2>1. o # m
    BY <1>1, <1>2
  <2>2. i \in Effective(o) /\ outbox[i].call.do = "delete"
    BY <1>1, <2>1
  <2>3. store[o] = None /\ \A j \in Effective(o) : i < j => outbox[j].call.do = "delete"
    BY <2>2 DEF StoreInd, DeletesLast
  <2> QED BY <1>1, <1>3, <2>1, <2>3
<1>11. Absent'
  <2>1. ASSUME NEW o \in Modes, NEW i \in Effective(o)', outbox'[i].call.do = "save"
        PROVE  list[o] # None
    <3>1. o # m
      BY <1>1, <1>2, <2>1
    <3> QED BY <1>1, <2>1, <3>1 DEF StoreInd, Absent
  <2> QED BY <1>3, <1>4, <2>1 DEF StoreInd, Absent
<1>12. LastEffect'
  <2> SUFFICES ASSUME NEW o \in Modes \ robbed
      PROVE  /\ Effective(o)' = {} => list[o] = store'[o]
             /\ \A i \in Effective(o)' :
                  (\A j \in Effective(o)' : j <= i) => store'[o] = Effect(outbox'[i].call)
    BY DEF LastEffect, Effect
  <2>1. CASE o = m
    <3>1. Effect(c) = NewMode
      BY DEF Effect
    <3> QED BY <1>1, <1>2, <1>3, <2>1, <3>1
  <2>2. CASE o # m
    <3>1. Effective(o)' = Effective(o) /\ store'[o] = store[o]
      BY <1>1, <1>3, <2>2
    <3>2. \A i \in Effective(o) : outbox'[i] = outbox[i]
      BY <1>1
    <3> QED BY <3>1, <3>2 DEF StoreInd, LastEffect
  <2> QED BY <2>1, <2>2
<1> QED BY <1>4, <1>6, <1>7, <1>8, <1>9, <1>10, <1>11, <1>12 DEF StoreInd, KnownStays

(* delete_mode.                                                             *)
LEMMA AnswerDeletes ==
  ASSUME StoreInd, CallsInd, NEW c \in AllCalls, c.do = "delete", KnownCall(c),
         IF current = c.id /\ c.id \in Custom THEN current' \in BuiltIn ELSE UNCHANGED current,
         store' = [store EXCEPT ![c.id] = IF c.id \in BuiltIn THEN @ ELSE None],
         Answer(c, TRUE), UNCHANGED <<minted, list, robbed>>
  PROVE  StoreInd' /\ KnownStays
<1> DEFINE n == Len(outbox) + 1
<1>1. /\ Effective(c.id)' = Effective(c.id) \cup {n}
      /\ outbox'[n].call = c
      /\ \A m : m # c.id => Effective(m)' = Effective(m)
      /\ \A m : Announced(m)' = Announced(m)
      /\ \A m : \A i \in Effective(m) : outbox'[i] = outbox[i] /\ i < n /\ i # n /\ i \in Nat
      /\ n \in Nat
  <2>1. c.do # "create"
    OBVIOUS
  <2> QED BY <2>1, OneMore
<1> HIDE DEF n
<1>2. c.id \in Custom /\ c.id \in Modes /\ c.id \notin BuiltIn
  BY CallShape, IdsAssumption
<1>3. /\ store' \in [Modes -> Mode \cup {None}] /\ store'[c.id] = None
      /\ \A m \in Modes : m # c.id => store'[m] = store[m]
  BY <1>2 DEF StoreInd, StoreTypes
<1>4. \A m : Known(m)' <=> Known(m)
  BY <1>1 DEF Known
<1>5. StoreTypes'
  <2>1. current' \in Modes \cup {None} /\ (current' # None => store'[current'] # None)
    <3>1. CASE current = c.id
      BY <1>2, <1>3, <3>1 DEF StoreInd, StoreTypes, Modes
    <3>2. CASE current # c.id
      <4>1. current' = current
        BY <3>2
      <4>2. current \in Modes \cup {None} /\ (current # None => store[current] # None)
        BY DEF StoreInd, StoreTypes
      <4> QED BY <1>3, <3>2, <4>1, <4>2
    <3> QED BY <3>1, <3>2
  <2>2. \A m \in BuiltIn : store'[m] # None
    BY <1>2, <1>3 DEF StoreInd, StoreTypes, Modes
  <2> QED BY <1>3, <2>1, <2>2 DEF StoreInd, StoreTypes
<1>6. OnlyMinted'
  BY <1>3, <1>4 DEF StoreInd, OnlyMinted
<1>7. Disjoint(store)'
  BY <1>3 DEF StoreInd, Disjoint
<1>8. AnnouncedOnce'
  BY <1>1 DEF StoreInd, AnnouncedOnce
<1>9. DeletesLast'
  <2> SUFFICES ASSUME NEW m \in Modes, NEW i \in Effective(m)', outbox'[i].call.do = "delete"
      PROVE  /\ store'[m] = None
             /\ \A j \in Effective(m)' : i < j => outbox'[j].call.do = "delete"
    BY DEF DeletesLast
  <2>1. CASE m # c.id
    <3>1. Effective(m)' = Effective(m) /\ outbox[i].call.do = "delete"
      BY <1>1, <2>1
    <3>2. store[m] = None /\ \A j \in Effective(m) : i < j => outbox[j].call.do = "delete"
      BY <3>1 DEF StoreInd, DeletesLast
    <3> QED BY <1>1, <1>3, <2>1, <3>1, <3>2
  <2>2. CASE m = c.id
    <3>1. ASSUME NEW j \in Effective(m)', i < j PROVE outbox'[j].call.do = "delete"
      <4>1. CASE j = n
        BY <1>1, <4>1
      <4>2. CASE j # n
        <5>1. j \in Effective(m) /\ j < n /\ j \in Nat /\ n \in Nat
          BY <1>1, <2>2, <4>2
        <5>2. i # n
          BY <3>1, <5>1
        <5>3. i \in Effective(m) /\ outbox[i].call.do = "delete"
          BY <1>1, <2>2, <5>2
        <5>4. outbox[j].call.do = "delete"
          BY <3>1, <5>1, <5>3 DEF StoreInd, DeletesLast
        <5> QED BY <1>1, <5>1, <5>4
      <4> QED BY <4>1, <4>2
    <3> QED BY <1>3, <2>2, <3>1
  <2> QED BY <2>1, <2>2
<1>10. Absent'
  <2>1. ASSUME NEW m \in Modes, NEW i \in Effective(m)', outbox'[i].call.do = "save"
        PROVE  list[m] # None
    <3>1. i \in Effective(m) /\ outbox[i].call.do = "save"
      BY <1>1, <2>1
    <3> QED BY <3>1 DEF StoreInd, Absent
  <2> QED BY <1>3, <1>4, <2>1 DEF StoreInd, Absent
<1>11. LastEffect'
  <2> SUFFICES ASSUME NEW m \in Modes \ robbed
      PROVE  /\ Effective(m)' = {} => list[m] = store'[m]
             /\ \A i \in Effective(m)' :
                  (\A j \in Effective(m)' : j <= i) => store'[m] = Effect(outbox'[i].call)
    BY DEF LastEffect, Effect
  <2>1. CASE m = c.id
    <3>1. Effect(c) = None
      BY DEF Effect
    <3>2. ASSUME NEW i \in Effective(m)', \A j \in Effective(m)' : j <= i PROVE i = n
      <4>1. n \in Effective(m)'
        BY <1>1, <2>1
      <4>2. n <= i
        BY <3>2, <4>1
      <4> QED BY <1>1, <2>1, <4>2
    <3>3. Effective(m)' # {}
      BY <1>1, <2>1
    <3> QED BY <1>1, <1>3, <2>1, <3>1, <3>2, <3>3
  <2>2. CASE m # c.id
    <3>1. Effective(m)' = Effective(m) /\ store'[m] = store[m]
      BY <1>1, <1>3, <2>2
    <3>2. \A i \in Effective(m) : outbox'[i] = outbox[i]
      BY <1>1
    <3> QED BY <3>1, <3>2 DEF StoreInd, LastEffect
  <2> QED BY <2>1, <2>2
<1> QED BY <1>4, <1>5, <1>6, <1>7, <1>8, <1>9, <1>10, <1>11 DEF StoreInd, KnownStays

(* An answer takes one call from the inbox to the outbox.                   *)
LEMMA AnswerTravels ==
  ASSUME EditorInd, inbox # <<>>, inbox' = Tail(inbox), NEW c \in AllCalls, NEW ok \in BOOLEAN,
         c.do = Head(inbox).do, c.do # "create" => c = Head(inbox), Answer(c, ok),
         ok /\ c.do = "create" => c.id \in minted',
         minted \subseteq minted', KnownStays,
         UNCHANGED <<list, draftVars, dialog, asking, flow, acts, wish>>
  PROVE  CallsInd' /\ PageInd' /\ FlowCounts'
<1> DEFINE n == Len(outbox) + 1
<1>1. CallsInd /\ PageInd /\ FlowCounts
  BY DEF EditorInd
<1>2. /\ inbox \in Seq(AllCalls) /\ outbox \in Seq(Replies)
      /\ CallsOf(outbox) \in Seq(AllCalls)
      /\ KnownCalls(inbox) /\ KnownCalls(CallsOf(outbox))
  BY <1>1, CallsOfShape DEF CallsInd
<1>3. /\ inbox' \in Seq(AllCalls) /\ Head(inbox) = inbox[1] /\ KnownCall(inbox[1])
      /\ KnownCalls(Tail(inbox))
  BY <1>2, TailShape, KnownTail
<1>4. /\ outbox' \in Seq(Replies) /\ n \in Nat
      /\ outbox'[n].call = c /\ outbox'[n].ok = ok
      /\ \A i \in DOMAIN outbox : outbox'[i] = outbox[i] /\ i < n
      /\ DOMAIN outbox' = 1 .. n /\ DOMAIN outbox = 1 .. n - 1
      /\ CallsOf(outbox)' = Append(CallsOf(outbox), c)
  BY <1>1, AnswerShape
<1> HIDE DEF n
<1>5. KnownCall(c)
  BY <1>3 DEF KnownCall
<1>6. KnownCalls(inbox)'
  BY <1>3, KnownCallsStay
<1>7. KnownCalls(CallsOf(outbox))'
  <2>1. KnownCalls(Append(CallsOf(outbox), c))
    BY <1>2, <1>5, KnownAppend
  <2>2. CallsOf(outbox') = Append(CallsOf(outbox), c)
    BY <1>4 DEF CallsOf
  <2> QED BY <2>1, <2>2, KnownCallsStay
<1>8. \A i \in DOMAIN outbox' :
        outbox'[i].ok /\ outbox'[i].call.do = "create" => outbox'[i].call.id \in minted'
  <2> SUFFICES ASSUME NEW i \in DOMAIN outbox', outbox'[i].ok, outbox'[i].call.do = "create"
      PROVE outbox'[i].call.id \in minted'
    OBVIOUS
  <2>1. i = n \/ i \in DOMAIN outbox
    BY <1>4
  <2> QED BY <2>1, <1>1, <1>4 DEF CallsInd
<1>9. CallsInd'
  BY <1>3, <1>4, <1>6, <1>7, <1>8 DEF CallsInd
<1>10. PageInd'
  BY <1>1 DEF PageInd, KnownStays, KnownCommand, draftVars
<1>11. FlushCount' = FlushCount
  <2>1. Flushes(inbox) = Flushes(Tail(inbox)) + (IF IsFlush(inbox[1]) THEN 1 ELSE 0)
    BY <1>2, FlushesTail
  <2>2. Flushes(Append(CallsOf(outbox), c)) = Flushes(CallsOf(outbox)) + (IF IsFlush(c) THEN 1 ELSE 0)
    BY <1>2, FlushesAppend
  <2>3. IsFlush(inbox[1]) <=> IsFlush(c)
    BY <1>3 DEF IsFlush
  <2>4. /\ Flushes(inbox)' = Flushes(Tail(inbox))
        /\ Flushes(CallsOf(outbox))' = Flushes(Append(CallsOf(outbox), c))
    BY <1>4 DEF Flushes, IsFlush
  <2>5. /\ Flushes(inbox) \in Nat /\ Flushes(Tail(inbox)) \in Nat
        /\ Flushes(CallsOf(outbox)) \in Nat
    BY <1>2, <1>3, FlushesNat
  <2> QED BY <2>1, <2>2, <2>3, <2>4, <2>5 DEF FlushCount
<1>12. FlowCounts'
  BY <1>1, <1>11 DEF FlowCounts
<1> QED BY <1>9, <1>10, <1>12

LEMMA MainKeeps == EditorInd /\ MainReceives => EditorInd'
<1> SUFFICES ASSUME EditorInd, MainReceives PROVE EditorInd'
  OBVIOUS
<1> DEFINE c == Head(inbox)
<1>1. StoreInd /\ CallsInd /\ inbox # <<>> /\ inbox' = Tail(inbox)
  BY DEF EditorInd, MainReceives
<1>2. c \in AllCalls /\ KnownCall(c)
  <2>1. inbox \in Seq(AllCalls) /\ KnownCalls(inbox)
    BY <1>1 DEF CallsInd
  <2> QED BY <1>1, <2>1, TailShape, KnownTail
<1>3. UNCHANGED <<list, draftVars, dialog, asking, flow, acts, wish>>
  BY DEF MainReceives
<1> HIDE DEF c
<1>4. CASE CallFails(c)
  <2>1. PICK cleared \in SUBSET Stolen(c) :
          store' = Without(cleared) /\ robbed' = robbed \cup cleared
    BY <1>4 DEF CallFails
  <2>4. Answer(c, FALSE) /\ UNCHANGED <<minted, current, list>>
    BY <1>3, <1>4 DEF CallFails
  <2>5. \A m \in cleared : m \in Modes /\ store[m] # None
    BY DEF Stolen, Conflicting
  <2>2. StoreInd' /\ KnownStays
    BY <1>1, <1>2, <2>1, <2>4, <2>5, AnswerFails
  <2>3. CallsInd' /\ PageInd' /\ FlowCounts'
    BY <1>1, <1>2, <1>3, <2>4, <2>2, AnswerTravels DEF c
  <2> QED BY <2>2, <2>3 DEF EditorInd
<1>5. CASE c.do = "save" /\ HandleSave(c)
  <2> DEFINE conflicts == IF c.mode.chord = None THEN {} ELSE Conflicting(c.mode.chord, c.id)
             accepted == store[c.id] # None /\ (c.policy = "reject" => conflicts = {})
  <2>1. /\ Answer(c, accepted)
        /\ store' = IF accepted THEN SaveMode(c, conflicts) ELSE store
        /\ robbed' = IF accepted THEN robbed \cup conflicts ELSE robbed
        /\ UNCHANGED <<minted, current>>
    BY <1>5 DEF HandleSave
  <2>2. CASE accepted
    <3>1. Answer(c, TRUE) /\ store[c.id] # None
      BY <2>1, <2>2 DEF Answer
    <3>2. store' = SaveMode(c, conflicts) /\ robbed' = robbed \cup conflicts
      BY <2>1, <2>2
    <3> HIDE DEF accepted
    <3>3. conflicts = IF c.mode.chord = None THEN {} ELSE Conflicting(c.mode.chord, c.id)
      OBVIOUS
    <3> HIDE DEF conflicts
    <3>4. StoreInd' /\ KnownStays
      BY <1>1, <1>2, <1>3, <1>5, <2>1, <3>1, <3>2, <3>3, AnswerSaves
    <3>5. CallsInd' /\ PageInd' /\ FlowCounts'
      BY <1>1, <1>2, <1>3, <1>5, <2>1, <3>1, <3>4, AnswerTravels DEF c
    <3> QED BY <3>4, <3>5 DEF EditorInd
  <2>3. CASE ~accepted
    <3>1. Answer(c, FALSE) /\ UNCHANGED <<store, minted, current, list, robbed>>
      BY <1>3, <2>1, <2>3 DEF Answer
    <3> HIDE DEF accepted, conflicts
    <3>2. StoreInd' /\ KnownStays
      <4>1. PICK none : none = {}
        OBVIOUS
      <4>2. store' = Without(none) /\ robbed' = robbed \cup none
        <5>1. Without(none) = store
          BY <1>1, <4>1, NothingCleared
        <5> QED BY <3>1, <4>1, <5>1
      <4>3. \A m \in none : m \in Modes /\ store[m] # None
        BY <4>1
      <4>4. UNCHANGED <<minted, current, list>> /\ Answer(c, FALSE)
        BY <3>1
      <4>5. c \in AllCalls /\ StoreInd /\ CallsInd
        BY <1>1, <1>2
      <4> QED BY <4>2, <4>3, <4>4, <4>5, AnswerFails
    <3>3. CallsInd' /\ PageInd' /\ FlowCounts'
      BY <1>1, <1>2, <1>3, <3>1, <3>2, AnswerTravels DEF c
    <3> QED BY <3>2, <3>3 DEF EditorInd
  <2> QED BY <2>2, <2>3
<1>6. CASE c.do = "create" /\ HandleCreate(c)
  <2>1. PICK m \in Custom \ minted :
          /\ store' = [store EXCEPT ![m] = [name |-> NewName, chord |-> None, body |-> NewBody]]
          /\ minted' = minted \cup {m}
          /\ Answer([c EXCEPT !.id = m], TRUE)
          /\ UNCHANGED <<current, failed, robbed>>
    BY <1>6 DEF HandleCreate
  <2> DEFINE d == [c EXCEPT !.id = m]
  <2>2. d \in AllCalls /\ d.do = "create" /\ d.id = m
    <3>1. c \in Creates
      BY <1>2, <1>6, CallShape
    <3>2. d \in Creates /\ d.do = "create" /\ d.id = m
      BY <3>1 DEF Creates, Modes
    <3> QED BY <3>2 DEF AllCalls
  <2> HIDE DEF d
  <2>3. Answer(d, TRUE)
    BY <2>1 DEF d
  <2>4. StoreInd' /\ KnownStays
    BY <1>1, <1>3, <2>1, <2>2, <2>3, AnswerCreates
  <2>5. CallsInd' /\ PageInd' /\ FlowCounts'
    BY <1>1, <1>3, <1>6, <2>1, <2>2, <2>3, <2>4, AnswerTravels DEF c
  <2> QED BY <2>4, <2>5 DEF EditorInd
<1>7. CASE c.do = "delete" /\ HandleDelete(c)
  <2>1. /\ IF current = c.id /\ c.id \in Custom THEN current' \in BuiltIn ELSE UNCHANGED current
        /\ store' = [store EXCEPT ![c.id] = IF c.id \in BuiltIn THEN @ ELSE None]
        /\ Answer(c, TRUE)
        /\ UNCHANGED <<minted, failed, robbed>>
    BY <1>7 DEF HandleDelete
  <2>2. StoreInd' /\ KnownStays
    BY <1>1, <1>2, <1>3, <1>7, <2>1, AnswerDeletes
  <2>3. CallsInd' /\ PageInd' /\ FlowCounts'
    BY <1>1, <1>2, <1>3, <1>7, <2>1, <2>2, AnswerTravels DEF c
  <2> QED BY <2>2, <2>3 DEF EditorInd
<1> QED BY <1>4, <1>5, <1>6, <1>7 DEF MainReceives, c

-----------------------------------------------------------------------------
(* Of the page, that reads the replies in their order.                      *)

LEMMA PopShape ==
  ASSUME CallsInd, outbox # <<>>, outbox' = Tail(outbox)
  PROVE  LET r == Head(outbox) IN
         /\ r = outbox[1] /\ 1 \in DOMAIN outbox
         /\ r.call \in AllCalls /\ r.ok \in BOOLEAN /\ KnownCall(r.call)
         /\ outbox' \in Seq(Replies)
         /\ CallsOf(outbox') = Tail(CallsOf(outbox)) /\ KnownCalls(CallsOf(outbox'))
         /\ \A m : \A i \in Effective(m)' :
              /\ i + 1 \in Effective(m) /\ outbox'[i] = outbox[i + 1] /\ i \in Nat /\ i >= 1
         /\ \A m : \A i \in Effective(m) :
              i \in Nat /\ (i # 1 => i - 1 \in Effective(m)' /\ i > 1)
         /\ \A m : 1 \in Effective(m) <=> r.ok /\ r.call.id = m
<1>1. outbox \in Seq(Replies) /\ KnownCalls(CallsOf(outbox))
  BY DEF CallsInd
<1>2. /\ Tail(outbox) \in Seq(Replies) /\ Head(outbox) = outbox[1] /\ 1 \in DOMAIN outbox
      /\ outbox[1] \in Replies
      /\ \A i \in DOMAIN Tail(outbox) :
           i + 1 \in DOMAIN outbox /\ Tail(outbox)[i] = outbox[i + 1] /\ i >= 1
      /\ \A i \in DOMAIN Tail(outbox) : i \in Nat
      /\ \A i \in DOMAIN outbox : i \in Nat /\ (i # 1 => i - 1 \in DOMAIN Tail(outbox) /\ i > 1)
      /\ \A i \in DOMAIN outbox : i # 1 => Tail(outbox)[i - 1] = outbox[i]
  BY <1>1, TailShape
<1>3. /\ CallsOf(outbox) \in Seq(AllCalls) /\ CallsOf(outbox) # <<>>
      /\ CallsOf(outbox)[1] = outbox[1].call
      /\ CallsOf(Tail(outbox)) = Tail(CallsOf(outbox))
  BY <1>1, CallsOfShape
<1>4. KnownCalls(CallsOf(outbox')) /\ KnownCall(outbox[1].call)
  BY <1>1, <1>3, KnownTail
<1>5. ASSUME NEW m, NEW i \in Effective(m)'
      PROVE  /\ i + 1 \in Effective(m) /\ outbox'[i] = outbox[i + 1] /\ i \in Nat /\ i >= 1
  <2>1. i \in DOMAIN outbox' /\ outbox'[i].ok /\ outbox'[i].call.id = m
    BY DEF Effective
  <2> QED BY <1>2, <2>1 DEF Effective
<1>6. ASSUME NEW m, NEW i \in Effective(m)
      PROVE  i \in Nat /\ (i # 1 => i - 1 \in Effective(m)' /\ i > 1)
  <2>1. i \in DOMAIN outbox /\ outbox[i].ok /\ outbox[i].call.id = m
    BY DEF Effective
  <2>2. ASSUME i # 1 PROVE i - 1 \in Effective(m)'
    <3>1. i - 1 \in DOMAIN outbox' /\ outbox'[i - 1] = outbox[i]
      BY <1>2, <2>1, <2>2
    <3> QED BY <2>1, <3>1 DEF Effective
  <2> QED BY <1>2, <2>1, <2>2
<1>7. \A m : 1 \in Effective(m) <=> Head(outbox).ok /\ Head(outbox).call.id = m
  BY <1>2 DEF Effective
<1>8. outbox[1].call \in AllCalls /\ outbox[1].ok \in BOOLEAN
  BY <1>2 DEF Replies
<1> QED BY <1>2, <1>3, <1>4, <1>5, <1>6, <1>7, <1>8

(* A reply that is read: what it announced is known now.                    *)
LEMMA Heard ==
  ASSUME CallsInd, AnnouncedOnce, outbox # <<>>, outbox' = Tail(outbox), UNCHANGED minted,
         NEW r, r = Head(outbox)
  PROVE  LET news == r.ok /\ r.call.do = "create"
         IN /\ KnownStays
            /\ \A m \in Modes : Known(m)' => Known(m) \/ (news /\ r.call.id = m)
            /\ news /\ r.call.id \in Modes => Known(r.call.id)'
            /\ \A m \in Modes : \A i, j \in Announced(m)' : i = j
<1>1. /\ r = outbox[1] /\ 1 \in DOMAIN outbox
      /\ \A m : \A i \in Effective(m)' :
              /\ i + 1 \in Effective(m) /\ outbox'[i] = outbox[i + 1] /\ i \in Nat /\ i >= 1
      /\ \A m : \A i \in Effective(m) :
              i \in Nat /\ (i # 1 => i - 1 \in Effective(m)' /\ i > 1)
      /\ \A m : 1 \in Effective(m) <=> r.ok /\ r.call.id = m
  BY PopShape
<1>2. ASSUME NEW m, NEW i \in Announced(m)'
      PROVE  i + 1 \in Announced(m) /\ i \in Nat /\ i >= 1
  BY <1>1 DEF Announced
<1>3. ASSUME NEW m, NEW i \in Announced(m), i # 1
      PROVE  i - 1 \in Announced(m)'
  <2>1. i \in Effective(m) /\ outbox[i].call.do = "create"
    BY DEF Announced
  <2>2. i - 1 \in Effective(m)' /\ i \in Nat
    BY <1>1, <1>3, <2>1
  <2>3. outbox'[i - 1] = outbox[i]
    <3>1. (i - 1) + 1 = i
      BY <2>2
    <3> QED BY <1>1, <2>2, <3>1
  <2> QED BY <2>1, <2>2, <2>3 DEF Announced
<1>4. KnownStays
  BY <1>2 DEF KnownStays, Known
<1>5. ASSUME NEW m \in Modes, Known(m)'
      PROVE  Known(m) \/ (r.ok /\ r.call.do = "create" /\ r.call.id = m)
  <2>1. m \in minted /\ \A i \in Announced(m) : i = 1
    BY <1>3, <1>5 DEF Known
  <2>2. 1 \in Announced(m) => r.ok /\ r.call.id = m /\ r.call.do = "create"
    BY <1>1 DEF Announced
  <2> QED BY <2>1, <2>2 DEF Known
<1>6. ASSUME r.ok, r.call.do = "create", r.call.id \in Modes PROVE Known(r.call.id)'
  <2>0. PICK m : m = r.call.id
    OBVIOUS
  <2>1. 1 \in Announced(m)
    BY <1>1, <1>6, <2>0 DEF Announced
  <2>2. m \in minted'
    BY <1>1, <1>6, <2>0 DEF CallsInd
  <2>3. Announced(m)' = {}
    <3> SUFFICES ASSUME NEW i \in Announced(m)' PROVE FALSE
      OBVIOUS
    <3>1. i + 1 \in Announced(m) /\ i \in Nat /\ i >= 1
      BY <1>2
    <3>2. i + 1 = 1
      BY <1>6, <2>0, <2>1, <3>1 DEF AnnouncedOnce
    <3> QED BY <3>1, <3>2
  <2>4. Known(m)'
    BY <2>2, <2>3 DEF Known
  <2> QED BY <2>0, <2>4
<1>7. ASSUME NEW m \in Modes, NEW i \in Announced(m)', NEW j \in Announced(m)' PROVE i = j
  <2>1. i + 1 = j + 1 /\ i \in Nat /\ j \in Nat
    BY <1>2 DEF AnnouncedOnce
  <2> QED BY <2>1
<1> QED BY <1>4, <1>5, <1>6, <1>7

(* The page takes over what a reply says of a mode.                         *)
LEMMA ReadStore ==
  ASSUME StoreInd, CallsInd, outbox # <<>>, outbox' = Tail(outbox), NEW r, r = Head(outbox),
         UNCHANGED <<store, minted, current, robbed>>,
         list' \in [Modes -> Mode \cup {None}],
         \A m \in Modes : ~(r.ok /\ r.call.id = m) => list'[m] = list[m],
         \A m \in Modes : r.ok /\ r.call.id = m => list'[m] = Effect(r.call)
  PROVE  StoreInd'
<1> DEFINE touched(m) == r.ok /\ r.call.id = m
<1>1. /\ r = outbox[1] /\ r.call \in AllCalls /\ KnownCall(r.call)
      /\ \A m : \A i \in Effective(m)' :
              /\ i + 1 \in Effective(m) /\ outbox'[i] = outbox[i + 1] /\ i \in Nat /\ i >= 1
      /\ \A m : \A i \in Effective(m) :
              i \in Nat /\ (i # 1 => i - 1 \in Effective(m)' /\ i > 1)
      /\ \A m : 1 \in Effective(m) <=> touched(m)
  BY PopShape
<1>2. /\ KnownStays
      /\ \A m \in Modes : Known(m)' => Known(m) \/ (r.ok /\ r.call.do = "create" /\ r.call.id = m)
      /\ r.ok /\ r.call.do = "create" /\ r.call.id \in Modes => Known(r.call.id)'
      /\ \A m \in Modes : \A i, j \in Announced(m)' : i = j
  BY Heard DEF StoreInd
<1>3. r.call.do \in {"save", "create", "delete"}
  BY <1>1, CallShape
<1>4. /\ r.call.do = "save" => Effect(r.call) \in Mode /\ Effect(r.call) # None
      /\ r.call.do = "create" => Effect(r.call) # None
      /\ r.call.do = "delete" => Effect(r.call) = None
  <2>1. r.call.do = "save" => Effect(r.call) = r.call.mode /\ r.call.mode \in Mode
    BY <1>1, CallShape DEF Effect
  <2>2. r.call.do = "create" => Effect(r.call) = NewMode /\ NewMode \in Mode
    BY DEF Effect, NewMode, Mode
  <2>3. r.call.do = "delete" => Effect(r.call) = None
    BY DEF Effect
  <2> QED BY <2>1, <2>2, <2>3, NoneAssumption
<1> HIDE DEF touched
<1>5. \A m \in Modes : /\ ~touched(m) => list'[m] = list[m]
                       /\ touched(m) => list'[m] = Effect(r.call)
  BY DEF touched
<1>6. OnlyMinted'
  <2>1. ASSUME NEW m \in Modes, list'[m] # None PROVE Known(m)'
    <3>1. CASE ~touched(m)
      BY <1>2, <1>5, <2>1, <3>1 DEF StoreInd, OnlyMinted, KnownStays
    <3>2. CASE touched(m)
      <4>1. r.call.do # "delete" /\ r.ok /\ r.call.id = m
        BY <1>4, <1>5, <2>1, <3>2 DEF touched
      <4>2. r.call.do = "save" => Known(m)
        BY <1>1, <4>1 DEF KnownCall
      <4>3. r.call.do = "create" => Known(m)'
        BY <1>2, <4>1
      <4> QED BY <1>2, <1>3, <4>1, <4>2, <4>3 DEF KnownStays
    <3> QED BY <3>1, <3>2
  <2> QED BY <2>1 DEF StoreInd, OnlyMinted
<1>7. DeletesLast'
  <2> SUFFICES ASSUME NEW m \in Modes, NEW i \in Effective(m)', outbox'[i].call.do = "delete"
      PROVE  /\ store[m] = None
             /\ \A j \in Effective(m)' : i < j => outbox'[j].call.do = "delete"
    BY DEF DeletesLast
  <2>1. i + 1 \in Effective(m) /\ outbox[i + 1].call.do = "delete" /\ i \in Nat
    BY <1>1
  <2>2. /\ store[m] = None
        /\ \A j \in Effective(m) : i + 1 < j => outbox[j].call.do = "delete"
    BY <2>1 DEF StoreInd, DeletesLast
  <2>3. ASSUME NEW j \in Effective(m)', i < j PROVE outbox'[j].call.do = "delete"
    <3>1. j + 1 \in Effective(m) /\ outbox'[j] = outbox[j + 1] /\ j \in Nat
      BY <1>1
    <3>2. i + 1 < j + 1
      BY <2>1, <2>3, <3>1
    <3> QED BY <2>2, <3>1, <3>2
  <2> QED BY <2>2, <2>3
(* What was read was a deletion, and so are those behind it.                *)
<1>8. ASSUME NEW m \in Modes, touched(m), list'[m] = None
      PROVE  /\ store[m] = None
             /\ \A i \in Effective(m)' : outbox'[i].call.do = "delete"
  <2>1. 1 \in Effective(m) /\ outbox[1].call.do = "delete"
    BY <1>1, <1>3, <1>4, <1>5, <1>8
  <2>2. store[m] = None /\ \A j \in Effective(m) : 1 < j => outbox[j].call.do = "delete"
    BY <2>1 DEF StoreInd, DeletesLast
  <2>3. ASSUME NEW i \in Effective(m)' PROVE outbox'[i].call.do = "delete"
    <3>1. i + 1 \in Effective(m) /\ outbox'[i] = outbox[i + 1] /\ i \in Nat /\ i >= 1
      BY <1>1
    <3>2. 1 < i + 1
      BY <3>1
    <3> QED BY <2>2, <3>1, <3>2
  <2> QED BY <2>2, <2>3
<1>9. Absent'
  <2>1. ASSUME NEW m \in Modes, Known(m)', list'[m] = None PROVE store[m] = None
    <3>1. CASE touched(m)
      BY <1>8, <2>1, <3>1
    <3>2. CASE ~touched(m)
      <4>1. Known(m) /\ list[m] = None
        BY <1>2, <1>5, <2>1, <3>2 DEF touched
      <4> QED BY <4>1 DEF StoreInd, Absent
    <3> QED BY <3>1, <3>2
  <2>2. ASSUME NEW m \in Modes, NEW i \in Effective(m)', outbox'[i].call.do = "save"
        PROVE  list'[m] # None
    <3>1. i + 1 \in Effective(m) /\ outbox'[i] = outbox[i + 1]
      BY <1>1
    <3>2. list[m] # None
      BY <2>2, <3>1 DEF StoreInd, Absent
    <3>3. CASE touched(m)
      BY <1>8, <2>2, <3>3
    <3>4. CASE ~touched(m)
      BY <1>5, <3>2, <3>4
    <3> QED BY <3>3, <3>4
  <2> QED BY <2>1, <2>2 DEF Absent
<1>10. LastEffect'
  <2> SUFFICES ASSUME NEW m \in Modes, m \notin robbed
      PROVE  /\ Effective(m)' = {} => list'[m] = store[m]
             /\ \A i \in Effective(m)' :
                  (\A j \in Effective(m)' : j <= i) => store[m] = Effect(outbox'[i].call)
    BY DEF LastEffect, Effect
  <2>1. /\ Effective(m) = {} => list[m] = store[m]
        /\ \A i \in Effective(m) :
             (\A j \in Effective(m) : j <= i) => store[m] = Effect(outbox[i].call)
    BY DEF StoreInd, LastEffect
  <2>2. ASSUME Effective(m)' = {} PROVE list'[m] = store[m]
    <3>1. \A i \in Effective(m) : i = 1
      BY <1>1, <2>2
    <3>2. CASE touched(m)
      <4>1. 1 \in Effective(m) /\ \A j \in Effective(m) : j <= 1
        BY <1>1, <3>1, <3>2
      <4> QED BY <1>1, <1>5, <2>1, <3>2, <4>1
    <3>3. CASE ~touched(m)
      <4>1. Effective(m) = {}
        BY <1>1, <3>1, <3>3
      <4> QED BY <1>5, <2>1, <3>3, <4>1
    <3> QED BY <3>2, <3>3
  <2>3. ASSUME NEW i \in Effective(m)', \A j \in Effective(m)' : j <= i
        PROVE  store[m] = Effect(outbox'[i].call)
    <3>1. i + 1 \in Effective(m) /\ outbox'[i] = outbox[i + 1] /\ i \in Nat /\ i >= 1
      BY <1>1
    <3>2. ASSUME NEW j \in Effective(m) PROVE j <= i + 1
      <4>1. j \in Nat /\ (j # 1 => j - 1 \in Effective(m)')
        BY <1>1
      <4>2. j # 1 => j - 1 <= i
        BY <2>3, <4>1
      <4> QED BY <3>1, <4>1, <4>2
    <3> QED BY <2>1, <3>1, <3>2
  <2> QED BY <2>2, <2>3
<1>11. StoreTypes' /\ Disjoint(store)'
  BY DEF StoreInd, StoreTypes, Disjoint
<1>12. AnnouncedOnce'
  BY <1>2 DEF AnnouncedOnce
<1> QED BY <1>6, <1>7, <1>9, <1>10, <1>11, <1>12 DEF StoreInd

(* replaceMode finds the mode in the list.                                  *)
LEMMA SavedIsListed ==
  ASSUME StoreInd, CallsInd, outbox # <<>>, outbox' = Tail(outbox), NEW r, r = Head(outbox),
         r.ok, r.call.do = "save"
  PROVE  /\ list[r.call.id] # None /\ r.call.id \in Modes /\ r.call.mode \in Mode
         /\ Listed(r.call) = [list EXCEPT ![r.call.id] = r.call.mode]
<1>1. r = outbox[1] /\ r.call \in AllCalls /\ \A m : 1 \in Effective(m) <=> r.ok /\ r.call.id = m
  BY PopShape
<1>2. r.call.id \in Modes /\ r.call.mode \in Mode
  BY <1>1, CallShape
<1>3. list[r.call.id] # None
  BY <1>1, <1>2 DEF StoreInd, Absent
<1> QED BY <1>2, <1>3 DEF Listed

-----------------------------------------------------------------------------
(* The commands that flush, and their replies.                              *)

LEMMA CommandShape ==
  ASSUME NEW c \in Commands
  PROVE  /\ c.do \in {"collapse", "create", "expand"}
         /\ c.do = "expand" => c.id \in Modes /\ c.mode \in Mode
BY DEF Commands

LEMMA FlowShape ==
  ASSUME NEW f \in Flow
  PROVE  f.command \in Commands /\ f.left \in Nat /\ f.broken \in BOOLEAN /\ f # None
BY NoneAssumption DEF Flow

LEMMA DraftShape ==
  ASSUME NEW m \in Modes, NEW mode \in Mode
  PROVE  /\ Drafted(m, mode) \in Drafts /\ Drafted(m, mode) # None /\ Drafted(m, mode).id = m
BY NoneAssumption DEF Drafted, Drafts, Mode

LEMMA FollowsShape ==
  ASSUME NEW s \in Seq(AllCalls), KnownCalls(s), NEW command
  PROVE  LET t == s \o Follows(command) IN
         t \in Seq(AllCalls) /\ KnownCalls(t) /\ Flushes(t) = Flushes(s)
<1> DEFINE c == [do |-> "create", id |-> None, who |-> "page"]
<1>1. c \in AllCalls /\ KnownCall(c) /\ ~IsFlush(c)
  BY DEF AllCalls, Creates, KnownCall, IsFlush
<1> HIDE DEF c
<1>2. s \o Follows(command) = IF command.do = "create" THEN Append(s, c) ELSE s
  BY DEF Follows, c
<1>3. Append(s, c) \in Seq(AllCalls) /\ KnownCalls(Append(s, c)) /\ Flushes(s) \in Nat
  BY <1>1, AppendShape, KnownAppend, FlushesNat
<1>4. Flushes(Append(s, c)) = Flushes(s)
  BY <1>1, <1>3, FlushesAppend
<1> QED BY <1>2, <1>3, <1>4

(* What a reply leaves of calls and commands.                               *)
Served ==
  /\ inbox' \in Seq(AllCalls) /\ KnownCalls(inbox)'
  /\ flow' \in Flow \cup {None} /\ (flow # None => KnownCommand(flow.command))'
  /\ FlowCounts'

LEMMA PopCount ==
  ASSUME CallsInd, outbox # <<>>, outbox' = Tail(outbox), NEW r, r = Head(outbox)
  PROVE  /\ Flushes(CallsOf(outbox)) =
              Flushes(CallsOf(outbox)') + (IF IsFlush(r.call) THEN 1 ELSE 0)
         /\ Flushes(CallsOf(outbox)') \in Nat /\ Flushes(CallsOf(outbox)) \in Nat
         /\ Flushes(inbox) \in Nat
<1>1. r = outbox[1] /\ CallsOf(outbox') = Tail(CallsOf(outbox))
  BY PopShape
<1>2. /\ CallsOf(outbox) \in Seq(AllCalls) /\ CallsOf(outbox) # <<>>
      /\ CallsOf(outbox)[1] = outbox[1].call /\ inbox \in Seq(AllCalls)
  BY CallsOfShape DEF CallsInd
<1>3. Tail(CallsOf(outbox)) \in Seq(AllCalls)
  BY <1>2, TailShape
<1>4. CallsOf(outbox)' = Tail(CallsOf(outbox))
  BY <1>1 DEF CallsOf
<1> QED BY <1>1, <1>2, <1>3, <1>4, FlushesTail, FlushesNat

LEMMA CommandsStay ==
  ASSUME KnownStays, NEW g, KnownCommand(g)
  PROVE  KnownCommand(g)'
BY DEF KnownStays, KnownCommand

LEMMA FlowStays ==
  ASSUME EditorInd, KnownStays, NEW g, flow' = g, flow' # None => KnownCommand(g.command)
  PROVE  (flow # None => KnownCommand(flow.command))'
<1>1. g # None => KnownCommand(g.command)'
  <2>1. PICK h : h = g.command
    OBVIOUS
  <2> QED BY <2>1, CommandsStay
<1> QED BY <1>1 DEF KnownCommand, Known, Announced, Effective

LEMMA OtherReply ==
  ASSUME EditorInd, outbox # <<>>, outbox' = Tail(outbox), NEW r, r = Head(outbox),
         ~IsFlush(r.call), KnownStays, UNCHANGED <<inbox, flow>>
  PROVE  Served
<1>1. CallsInd /\ PageInd /\ FlowCounts
  BY DEF EditorInd
<1>2. FlushCount' = FlushCount
  <2>1. Flushes(CallsOf(outbox)) = Flushes(CallsOf(outbox)') + 0 /\ Flushes(CallsOf(outbox)') \in Nat
    BY <1>1, PopCount
  <2>2. Flushes(inbox)' = Flushes(inbox) /\ Flushes(CallsOf(outbox))' = Flushes(CallsOf(outbox)')
    BY DEF Flushes, IsFlush
  <2> QED BY <2>1, <2>2 DEF FlushCount
<1>3. FlowCounts'
  BY <1>1, <1>2 DEF FlowCounts
<1>4. inbox' \in Seq(AllCalls) /\ KnownCalls(inbox)'
  <2>1. inbox \in Seq(AllCalls) /\ KnownCalls(inbox)
    BY <1>1 DEF CallsInd
  <2>2. KnownCalls(inbox')
    BY <2>1 DEF KnownCalls
  <2> QED BY <2>1, <2>2, KnownCallsStay
<1>5. flow \in Flow \cup {None} /\ (flow # None => KnownCommand(flow.command))
  BY <1>1 DEF PageInd
<1>6. PICK g : g = flow
  OBVIOUS
<1>7. (flow # None => KnownCommand(flow.command))'
  BY <1>5, <1>6, FlowStays
<1> QED BY <1>3, <1>4, <1>5, <1>7 DEF Served

LEMMA FlowWaits ==
  ASSUME NEW f \in Flow, f.left > 1, NEW b \in BOOLEAN
  PROVE  LET g == [f EXCEPT !.left = @ - 1, !.broken = b] IN
         g \in Flow /\ g.left = f.left - 1 /\ g.command = f.command
<1> DEFINE h == [f EXCEPT !.left = @ - 1]
<1>1. f.command \in Commands /\ f.left \in Nat /\ f.left - 1 \in Nat
  BY DEF Flow
<1>2. h \in Flow /\ h.left = f.left - 1 /\ h.command = f.command
  BY <1>1 DEF Flow
<1>3. [h EXCEPT !.broken = b] \in Flow /\ [h EXCEPT !.broken = b].left = h.left
      /\ [h EXCEPT !.broken = b].command = h.command
  <2> HIDE DEF h
  <2> QED BY <1>2 DEF Flow
<1> QED BY <1>2, <1>3

(* A reply a command waits for.                                             *)
LEMMA FlowGoesOn ==
  ASSUME EditorInd, outbox # <<>>, outbox' = Tail(outbox), NEW r, r = Head(outbox),
         IsFlush(r.call), KnownStays, FlowReplied(r.ok)
  PROVE  Served /\ flow \in Flow /\ KnownCommand(flow.command)
<1>1. CallsInd /\ PageInd /\ FlowCounts /\ r.ok \in BOOLEAN
  BY PopShape DEF EditorInd
<1>2. /\ Flushes(CallsOf(outbox)) = Flushes(CallsOf(outbox)') + 1
      /\ Flushes(CallsOf(outbox)') \in Nat /\ Flushes(inbox) \in Nat
  BY <1>1, PopCount
<1>3. FlushCount > 0 /\ flow # None /\ flow.left = FlushCount
  BY <1>1, <1>2 DEF FlushCount, FlowCounts
<1>4. flow \in Flow /\ KnownCommand(flow.command)
  BY <1>1, <1>3 DEF PageInd
<1>5. flow.command \in Commands /\ flow.left \in Nat /\ flow.broken \in BOOLEAN
  BY <1>4, FlowShape
<1>6. inbox \in Seq(AllCalls) /\ KnownCalls(inbox)
  BY <1>1 DEF CallsInd
<1>7. Flushes(CallsOf(outbox))' = Flushes(CallsOf(outbox)')
  BY DEF Flushes, IsFlush
<1> DEFINE broken == flow.broken \/ ~r.ok
<1>8. CASE flow.left > 1
  <2> DEFINE g == [flow EXCEPT !.left = @ - 1, !.broken = broken]
  <2>1. flow' = g /\ inbox' = inbox
    BY <1>8 DEF FlowReplied
  <2>2. broken \in BOOLEAN
    BY <1>1, <1>5
  <2> HIDE DEF broken
  <2>3. g \in Flow /\ g.left = flow.left - 1 /\ g.command = flow.command
    BY <1>4, <1>8, <2>2, FlowWaits
  <2>4. PICK h : h = g
    OBVIOUS
  <2> HIDE DEF g
  <2>5. (flow # None => KnownCommand(flow.command))'
    <3>1. flow' = h /\ KnownCommand(h.command)
      BY <1>4, <2>1, <2>3, <2>4
    <3> QED BY <3>1, FlowStays
  <2>6. KnownCalls(inbox)'
    <3>1. KnownCalls(inbox')
      BY <1>6, <2>1 DEF KnownCalls
    <3> QED BY <3>1, KnownCallsStay
  <2>7. Flushes(inbox)' = Flushes(inbox)
    BY <2>1 DEF Flushes, IsFlush
  <2>8. FlushCount' = FlushCount - 1
    BY <1>2, <1>7, <2>7 DEF FlushCount
  <2>9. FlowCounts'
    <3>1. flow'.left = FlushCount' /\ flow'.left > 0 /\ flow' # None
      BY <1>3, <1>5, <1>8, <2>1, <2>3, <2>8, FlowShape
    <3> QED BY <3>1 DEF FlowCounts
  <2> QED BY <1>4, <1>6, <2>1, <2>3, <2>5, <2>6, <2>9 DEF Served
<1>9. CASE ~(flow.left > 1)
  <2>1. flow' = None /\ inbox' = IF broken THEN inbox ELSE inbox \o Follows(flow.command)
    BY <1>9 DEF FlowReplied
  <2> HIDE DEF broken
  <2>2. inbox' \in Seq(AllCalls) /\ KnownCalls(inbox') /\ Flushes(inbox') = Flushes(inbox)
    BY <1>6, <2>1, FollowsShape DEF KnownCalls
  <2>3. KnownCalls(inbox)'
    BY <2>2, KnownCallsStay
  <2>4. Flushes(inbox)' = Flushes(inbox')
    BY DEF Flushes, IsFlush
  <2>5. FlushCount' = 0
    BY <1>2, <1>3, <1>5, <1>7, <1>9, <2>2, <2>4 DEF FlushCount
  <2>6. FlowCounts'
    BY <2>1, <2>5 DEF FlowCounts
  <2> QED BY <1>4, <2>1, <2>2, <2>3, <2>6 DEF Served
<1> QED BY <1>8, <1>9

(* What is shown of the calls, after a reply.                               *)
LEMMA CallsServed ==
  ASSUME CallsInd, outbox # <<>>, outbox' = Tail(outbox), UNCHANGED minted, KnownStays, Served
  PROVE  CallsInd'
<1>1. outbox' \in Seq(Replies) /\ KnownCalls(CallsOf(outbox'))
  BY PopShape
<1>2. KnownCalls(CallsOf(outbox))'
  BY <1>1, KnownCallsStay
<1>3. \A i \in DOMAIN outbox' :
        outbox'[i].ok /\ outbox'[i].call.do = "create" => outbox'[i].call.id \in minted
  <2>1. outbox \in Seq(Replies)
    BY DEF CallsInd
  <2>2. \A i \in DOMAIN Tail(outbox) : i + 1 \in DOMAIN outbox /\ Tail(outbox)[i] = outbox[i + 1]
    BY <2>1, TailShape
  <2> QED BY <2>2 DEF CallsInd
<1> QED BY <1>1, <1>2, <1>3 DEF CallsInd, Served

LEMMA KnownOf ==
  ASSUME NEW m, Known(m)'
  PROVE  /\ draft'.id = m => Known(draft.id)'
         /\ dialog'.id = m => Known(dialog.id)'
         /\ asking' = m => Known(asking)'
BY DEF Known, Announced, Effective

LEMMA PageAfter ==
  ASSUME PageInd, KnownStays, Served, UNCHANGED <<asking, acts>>,
         wish' \in [Modes -> Mode \cup {None}], \A m \in Modes : wish'[m] = None <=> list'[m] = None,
         draft' \in Drafts \cup {None},
         draft' = None => persistedMode' = None /\ persistedPrompt' = None,
         NEW m, draft' # None => draft'.id = m /\ Known(m)',
         dialog' \in Dialogs \cup {None}, dialog' # None => dialog # None /\ dialog'.id = dialog.id
  PROVE  PageInd'
<1>1. draft' # None => Known(draft.id)'
  BY KnownOf
<1>2. dialog' # None => Known(dialog.id)'
  <2> SUFFICES ASSUME dialog' # None PROVE Known(dialog.id)'
    OBVIOUS
  <2>1. PICK o : o = dialog.id
    OBVIOUS
  <2>2. Known(o)'
    BY <2>1 DEF PageInd, KnownStays
  <2> QED BY <2>1, <2>2, KnownOf
<1>3. asking' # None => Known(asking)'
  <2> SUFFICES ASSUME asking' # None PROVE Known(asking)'
    OBVIOUS
  <2>1. PICK o : o = asking
    OBVIOUS
  <2>2. Known(o)'
    BY <2>1 DEF PageInd, KnownStays
  <2> QED BY <2>1, <2>2, KnownOf
<1> QED BY <1>1, <1>2, <1>3 DEF PageInd, Served

LEMMA DialogAfterShape ==
  ASSUME PageInd, NEW call, NEW ok
  PROVE  LET d == DialogAfter(call, ok) IN
         d \in Dialogs \cup {None} /\ (d # None => dialog # None /\ d.id = dialog.id)
<1>1. dialog \in Dialogs \cup {None}
  BY DEF PageInd
<1>2. dialog \in Dialogs => /\ [dialog EXCEPT !.saving = FALSE] \in Dialogs
                            /\ [dialog EXCEPT !.saving = FALSE].id = dialog.id
  BY DEF Dialogs
<1> QED BY <1>1, <1>2 DEF DialogAfter

LEMMA SaveReplyKeeps ==
  ASSUME EditorInd, outbox # <<>>, outbox' = Tail(outbox), NEW r, r = Head(outbox),
         UNCHANGED <<storeVars, asking, acts>>, SaveReply(r.call, r.ok)
  PROVE  EditorInd'
<1> DEFINE c == r.call
<1>1. StoreInd /\ CallsInd /\ PageInd /\ FlowCounts /\ UNCHANGED <<store, minted, current, robbed, wish>>
  BY DEF EditorInd, storeVars, SaveReply
<1>2. /\ c.do = "save" /\ c \in AllCalls /\ KnownCall(c) /\ r.ok \in BOOLEAN
      /\ c.id \in Modes /\ c.mode \in Mode
  <2>1. c.do = "save" /\ c \in AllCalls /\ KnownCall(c) /\ r.ok \in BOOLEAN
    BY <1>1, PopShape DEF SaveReply
  <2> QED BY <2>1, CallShape
<1>3. KnownStays
  BY <1>1, Heard DEF StoreInd
<1>4. r.ok => list[c.id] # None /\ Listed(c) = [list EXCEPT ![c.id] = c.mode]
  BY <1>1, <1>2, SavedIsListed
<1>5. Known(c.id)
  BY <1>2 DEF KnownCall
<1> HIDE DEF c
<1>6. list' = IF r.ok THEN [list EXCEPT ![c.id] = c.mode] ELSE list
  BY <1>2, <1>4 DEF SaveReply, SaveReplied, Proceeds, c
<1>7. list \in [Modes -> Mode \cup {None}] /\ c.mode # None
  BY <1>1, <1>2, NoneAssumption DEF StoreInd, StoreTypes
<1>8. /\ list' \in [Modes -> Mode \cup {None}]
      /\ \A m \in Modes : ~(r.ok /\ c.id = m) => list'[m] = list[m]
      /\ \A m \in Modes : r.ok /\ c.id = m => list'[m] = c.mode
      /\ \A m \in Modes : list'[m] = None <=> list[m] = None
  BY <1>2, <1>4, <1>6, <1>7
<1>9. StoreInd'
  <2>1. Effect(c) = c.mode
    BY <1>2 DEF Effect
  <2>2. \A m \in Modes : r.ok /\ r.call.id = m => list'[m] = Effect(r.call)
    BY <1>8, <2>1 DEF c
  <2>3. \A m \in Modes : ~(r.ok /\ r.call.id = m) => list'[m] = list[m]
    BY <1>8 DEF c
  <2> QED BY <1>1, <1>8, <2>2, <2>3, ReadStore
<1>10. /\ wish' \in [Modes -> Mode \cup {None}]
       /\ \A m \in Modes : wish'[m] = None <=> list'[m] = None
  BY <1>1, <1>8 DEF PageInd
<1>11. CASE c.who = "flush" /\ Proceeds(r.ok) /\ flow.command.do \in {"collapse", "expand"}
  <2>1. Proceed(flow.command) /\ FlowReplied(r.ok)
    BY <1>11 DEF SaveReply, c
  <2>2. IsFlush(r.call)
    BY <1>2, <1>11 DEF IsFlush, c
  <2>3. Served /\ flow \in Flow /\ KnownCommand(flow.command)
    BY <1>3, <2>1, <2>2, FlowGoesOn
  <2>4. PICK g : g = flow.command
    OBVIOUS
  <2>5. g \in Commands /\ KnownCommand(g) /\ Proceed(g) /\ g.do \in {"collapse", "expand"}
    BY <1>11, <2>1, <2>3, <2>4, FlowShape
  <2>6. CASE g.do = "collapse"
    <3>1. Select(None) /\ dialog' = None
      BY <2>5, <2>6 DEF Proceed
    <3>2. draft' = None /\ persistedMode' = None /\ persistedPrompt' = None
      BY <3>1 DEF Select, PromptKey
    <3>3. PageInd'
      BY <1>1, <1>3, <1>10, <2>3, <3>1, <3>2, PageAfter
    <3> QED BY <1>1, <1>3, <1>9, <2>3, <3>3, CallsServed DEF EditorInd, Served
  <2>7. CASE g.do = "expand"
    <3>1. Select(Drafted(g.id, g.mode)) /\ dialog' = None
      BY <2>5, <2>7 DEF Proceed
    <3>2. g.id \in Modes /\ g.mode \in Mode /\ Known(g.id)
      BY <2>5, <2>7 DEF KnownCommand
    <3>3. draft' \in Drafts /\ draft' # None /\ draft'.id = g.id
      BY <3>1, <3>2, DraftShape DEF Select
    <3>4. Known(g.id)'
      BY <1>3, <3>2 DEF KnownStays
    <3>5. PageInd'
      BY <1>1, <1>3, <1>10, <2>3, <3>1, <3>3, <3>4, PageAfter
    <3> QED BY <1>1, <1>3, <1>9, <2>3, <3>5, CallsServed DEF EditorInd, Served
  <2> QED BY <2>5, <2>6, <2>7
<1>12. CASE ~(c.who = "flush" /\ Proceeds(r.ok) /\ flow.command.do \in {"collapse", "expand"})
  <2>1. /\ IF r.ok THEN SaveReplied(c)
                   ELSE UNCHANGED <<list, draft, persistedMode, persistedPrompt>>
        /\ dialog' = IF c.who = "dialog" THEN DialogAfter(c, r.ok) ELSE dialog
        /\ IF c.who = "flush" THEN FlowReplied(r.ok) ELSE UNCHANGED <<flow, inbox>>
    BY <1>12 DEF SaveReply, c
  <2>2. Served
    <3>1. CASE c.who = "flush"
      BY <1>2, <1>3, <2>1, <3>1, FlowGoesOn DEF IsFlush, c
    <3>2. CASE c.who # "flush"
      BY <1>2, <1>3, <2>1, <3>2, OtherReply DEF IsFlush, c
    <3> QED BY <3>1, <3>2
  <2>3. dialog' \in Dialogs \cup {None} /\ (dialog' # None => dialog # None /\ dialog'.id = dialog.id)
    <3>1. CASE c.who = "dialog"
      BY <1>1, <2>1, <3>1, DialogAfterShape
    <3>2. CASE c.who # "dialog"
      BY <1>1, <2>1, <3>2 DEF PageInd
    <3> QED BY <3>1, <3>2
  <2>4. PICK m : m = draft.id
    OBVIOUS
  <2>5. /\ draft \in Drafts \cup {None}
        /\ draft = None => persistedMode = None /\ persistedPrompt = None
        /\ draft # None => Known(m)
    BY <1>1, <2>4 DEF PageInd
  <2>6. /\ draft' \in Drafts \cup {None}
        /\ draft' = None => persistedMode' = None /\ persistedPrompt' = None
        /\ draft' # None => draft'.id = m /\ Known(m)
    <3>1. CASE ~r.ok
      BY <2>1, <2>4, <2>5, <3>1
    <3>2. CASE r.ok
      <4> DEFINE stored == Drafted(c.id, c.mode)
      <4>1. /\ persistedMode' = IF Selected = c.id THEN stored ELSE persistedMode
            /\ persistedPrompt' = IF Selected = c.id THEN PromptKey(stored) ELSE persistedPrompt
            /\ draft' = IF Adopted(c) THEN stored ELSE draft
        BY <1>4, <2>1, <3>2 DEF SaveReplied
      <4>2. stored \in Drafts /\ stored # None /\ stored.id = c.id
        BY <1>2, DraftShape
      <4>3. Adopted(c) => Selected = c.id
        BY DEF Adopted
      <4> HIDE DEF stored
      <4>4. Selected = c.id => draft # None /\ draft.id = c.id
        BY <1>2, NoneAssumption DEF Selected
      <4>5. CASE Selected = c.id
        BY <1>5, <2>4, <2>5, <4>1, <4>2, <4>4, <4>5
      <4>6. CASE Selected # c.id
        BY <2>4, <2>5, <4>1, <4>3, <4>6
      <4> QED BY <4>5, <4>6
    <3> QED BY <1>2, <3>1, <3>2
  <2>7. Known(m) => Known(m)'
    BY <1>3 DEF KnownStays
  <2>8. PageInd'
    BY <1>1, <1>3, <1>10, <2>2, <2>3, <2>6, <2>7, PageAfter
  <2> QED BY <1>1, <1>3, <1>9, <2>2, <2>8, CallsServed DEF EditorInd, Served
<1> QED BY <1>11, <1>12

LEMMA CreateReplyKeeps ==
  ASSUME EditorInd, outbox # <<>>, outbox' = Tail(outbox), NEW r, r = Head(outbox),
         UNCHANGED <<storeVars, asking, acts>>, CreateReply(r.call, r.ok)
  PROVE  EditorInd'
<1> DEFINE c == r.call
<1>1. /\ StoreInd /\ CallsInd /\ PageInd /\ FlowCounts
      /\ UNCHANGED <<store, minted, current, robbed, dialog, flow, inbox>>
  BY DEF EditorInd, storeVars, CreateReply
<1>2. /\ c.do = "create" /\ r.ok \in BOOLEAN /\ r = outbox[1] /\ 1 \in DOMAIN outbox
  BY <1>1, PopShape DEF CreateReply
<1>3. KnownStays
  BY <1>1, Heard DEF StoreInd
<1>4. Served
  BY <1>1, <1>2, <1>3, OtherReply DEF IsFlush
<1>5. CallsInd'
  BY <1>1, <1>3, <1>4, CallsServed
<1>6. /\ dialog' \in Dialogs \cup {None}
      /\ dialog' # None => dialog # None /\ dialog'.id = dialog.id
  BY <1>1 DEF PageInd
<1>7. CASE ~r.ok
  <2>1. UNCHANGED <<list, draftVars, wish>>
    BY <1>7 DEF CreateReply
  <2>2. StoreInd'
    <3>1. list' \in [Modes -> Mode \cup {None}]
      BY <1>1, <2>1 DEF StoreInd, StoreTypes
    <3> QED BY <1>1, <1>7, <2>1, <3>1, ReadStore
  <2>3. PICK m : m = draft.id
    OBVIOUS
  <2>4. /\ wish' \in [Modes -> Mode \cup {None}]
        /\ \A o \in Modes : wish'[o] = None <=> list'[o] = None
        /\ draft' \in Drafts \cup {None}
        /\ draft' = None => persistedMode' = None /\ persistedPrompt' = None
        /\ draft' # None => draft'.id = m /\ Known(m)
    BY <1>1, <2>1, <2>3 DEF PageInd, draftVars
  <2>5. Known(m) => Known(m)'
    BY <1>3 DEF KnownStays
  <2>6. PageInd'
    BY <1>1, <1>3, <1>4, <1>6, <2>4, <2>5, PageAfter
  <2> QED BY <1>4, <1>5, <2>2, <2>6 DEF EditorInd, Served
<1>8. CASE r.ok
  <2> DEFINE mode == [name |-> NewName, chord |-> None, body |-> NewBody]
  <2>1. /\ list' = [list EXCEPT ![c.id] = mode]
        /\ wish' = [wish EXCEPT ![c.id] = mode]
        /\ Select(Drafted(c.id, mode))
    BY <1>8 DEF CreateReply
  <2>2. mode = NewMode /\ mode \in Mode /\ mode # None
    BY NoneAssumption DEF NewMode, Mode
  <2> HIDE DEF mode
  <2>3. c.id \in Modes
    <3>1. c.id \in minted
      BY <1>1, <1>2, <1>8 DEF CallsInd
    <3> QED BY <1>1, <3>1 DEF StoreInd, StoreTypes
  <2>4. Known(c.id)'
    BY <1>1, <1>2, <1>8, <2>3, Heard DEF StoreInd
  <2>5. /\ list \in [Modes -> Mode \cup {None}] /\ wish \in [Modes -> Mode \cup {None}]
        /\ \A o \in Modes : wish[o] = None <=> list[o] = None
    BY <1>1 DEF StoreInd, StoreTypes, PageInd
  <2>6. StoreInd'
    <3>1. Effect(r.call) = mode
      BY <1>2, <2>2 DEF Effect
    <3>2. list' \in [Modes -> Mode \cup {None}]
      BY <2>1, <2>2, <2>3, <2>5
    <3>3. /\ \A m \in Modes : ~(r.ok /\ r.call.id = m) => list'[m] = list[m]
          /\ \A m \in Modes : r.ok /\ r.call.id = m => list'[m] = Effect(r.call)
      BY <1>8, <2>1, <2>3, <2>5, <3>1
    <3> QED BY <1>1, <3>2, <3>3, ReadStore
  <2>7. /\ wish' \in [Modes -> Mode \cup {None}]
        /\ \A o \in Modes : wish'[o] = None <=> list'[o] = None
    BY <2>1, <2>2, <2>3, <2>5
  <2>8. draft' \in Drafts /\ draft' # None /\ draft'.id = c.id
    BY <2>1, <2>2, <2>3, DraftShape DEF Select
  <2>9. PageInd'
    BY <1>1, <1>3, <1>4, <1>6, <2>4, <2>7, <2>8, PageAfter
  <2> QED BY <1>4, <1>5, <2>6, <2>9 DEF EditorInd, Served
<1> QED BY <1>2, <1>7, <1>8

LEMMA DeleteReplyKeeps ==
  ASSUME EditorInd, outbox # <<>>, outbox' = Tail(outbox), NEW r, r = Head(outbox),
         UNCHANGED <<storeVars, asking, acts>>, DeleteReply(r.call, r.ok)
  PROVE  EditorInd'
<1> DEFINE c == r.call
<1>1. /\ StoreInd /\ CallsInd /\ PageInd /\ FlowCounts
      /\ UNCHANGED <<store, minted, current, robbed, flow, inbox>>
  BY DEF EditorInd, storeVars, DeleteReply
<1>2. c.do = "delete" /\ r.ok \in BOOLEAN /\ c \in AllCalls /\ c.id \in Modes
  <2>1. c.do = "delete" /\ r.ok \in BOOLEAN /\ c \in AllCalls
    BY <1>1, PopShape DEF DeleteReply
  <2> QED BY <2>1, CallShape
<1>3. KnownStays
  BY <1>1, Heard DEF StoreInd
<1>4. Served
  BY <1>1, <1>2, <1>3, OtherReply DEF IsFlush
<1>5. CallsInd'
  BY <1>1, <1>3, <1>4, CallsServed
<1>6. /\ list' = IF r.ok THEN [list EXCEPT ![c.id] = None] ELSE list
      /\ wish' = IF r.ok THEN [wish EXCEPT ![c.id] = None] ELSE wish
      /\ dialog' = dialog \/ dialog' = None
      /\ \/ UNCHANGED <<draft, persistedMode, persistedPrompt>>
         \/ Select(None)
  BY DEF DeleteReply
<1>7. /\ list \in [Modes -> Mode \cup {None}] /\ wish \in [Modes -> Mode \cup {None}]
      /\ \A o \in Modes : wish[o] = None <=> list[o] = None
      /\ dialog \in Dialogs \cup {None}
  BY <1>1 DEF StoreInd, StoreTypes, PageInd
<1>8. StoreInd'
  <2>1. Effect(c) = None
    BY <1>2 DEF Effect
  <2> HIDE DEF c
  <2>2. /\ list' \in [Modes -> Mode \cup {None}]
        /\ \A m \in Modes : ~(r.ok /\ c.id = m) => list'[m] = list[m]
        /\ \A m \in Modes : r.ok /\ c.id = m => list'[m] = Effect(c)
    BY <1>2, <1>6, <1>7, <2>1
  <2>3. /\ \A m \in Modes : ~(r.ok /\ r.call.id = m) => list'[m] = list[m]
        /\ \A m \in Modes : r.ok /\ r.call.id = m => list'[m] = Effect(r.call)
    BY <2>2 DEF c
  <2> QED BY <1>1, <2>2, <2>3, ReadStore
<1>9. /\ wish' \in [Modes -> Mode \cup {None}]
      /\ \A o \in Modes : wish'[o] = None <=> list'[o] = None
  <2> HIDE DEF c
  <2> QED BY <1>2, <1>6, <1>7
<1>10. PICK m : m = draft.id
  OBVIOUS
<1>11. /\ draft' \in Drafts \cup {None}
       /\ draft' = None => persistedMode' = None /\ persistedPrompt' = None
       /\ draft' # None => draft'.id = m /\ Known(m)
  <2>1. CASE UNCHANGED <<draft, persistedMode, persistedPrompt>>
    BY <1>1, <1>10, <2>1 DEF PageInd
  <2>2. CASE Select(None)
    BY <2>2 DEF Select, PromptKey
  <2> QED BY <1>6, <2>1, <2>2
<1>12. Known(m) => Known(m)'
  BY <1>3 DEF KnownStays
<1>13. PageInd'
  <2>1. /\ dialog' \in Dialogs \cup {None}
        /\ dialog' # None => dialog # None /\ dialog'.id = dialog.id
    BY <1>6, <1>7
  <2> QED BY <1>1, <1>3, <1>4, <1>9, <1>11, <1>12, <2>1, PageAfter
<1> QED BY <1>4, <1>5, <1>8, <1>13 DEF EditorInd, Served

LEMMA RendererKeeps == EditorInd /\ RendererReceives => EditorInd'
<1> SUFFICES ASSUME EditorInd, RendererReceives PROVE EditorInd'
  OBVIOUS
<1>1. PICK r : r = Head(outbox)
  OBVIOUS
<1>2. outbox # <<>> /\ outbox' = Tail(outbox) /\ UNCHANGED <<storeVars, asking, acts>>
  BY DEF RendererReceives
<1>3. SaveReply(r.call, r.ok) \/ CreateReply(r.call, r.ok) \/ DeleteReply(r.call, r.ok)
  BY <1>1 DEF RendererReceives
<1> QED BY <1>1, <1>2, <1>3, SaveReplyKeeps, CreateReplyKeeps, DeleteReplyKeeps

-----------------------------------------------------------------------------
(* Of the user and the timers: they send calls and change the page.         *)

LEMMA PageLeaves ==
  ASSUME StoreInd, UNCHANGED <<store, minted, current, list, outbox, robbed>>
  PROVE  StoreInd' /\ KnownStays
<1>1. /\ \A m : Effective(m)' = Effective(m) /\ Announced(m)' = Announced(m)
  BY DEF Effective, Announced
<1>2. \A m : Known(m)' <=> Known(m)
  BY <1>1 DEF Known
<1>3. StoreTypes' /\ OnlyMinted' /\ Disjoint(store)' /\ AnnouncedOnce'
  BY <1>1, <1>2 DEF StoreInd, StoreTypes, OnlyMinted, Disjoint, AnnouncedOnce
<1>4. DeletesLast'
  BY <1>1 DEF StoreInd, DeletesLast
<1>5. Absent'
  BY <1>1, <1>2 DEF StoreInd, Absent
<1>6. LastEffect'
  BY <1>1 DEF StoreInd, LastEffect, Effect
<1> QED BY <1>2, <1>3, <1>4, <1>5, <1>6 DEF StoreInd, KnownStays

(* Calls that are sent, and how many of them a command waits for.           *)
Sent(flushes) ==
  inbox' \in Seq(AllCalls) /\ KnownCalls(inbox') /\ Flushes(inbox') = Flushes(inbox) + flushes

LEMMA SendsNone ==
  ASSUME CallsInd, inbox' = inbox
  PROVE  Sent(0)
<1>1. PICK s : s = inbox
  OBVIOUS
<1>2. s \in Seq(AllCalls) /\ KnownCalls(s) /\ inbox' = s /\ inbox = s
  BY <1>1 DEF CallsInd
<1>3. Flushes(s) \in Nat
  BY <1>2, FlushesNat
<1> QED BY <1>2, <1>3 DEF Sent

LEMMA SendsOne ==
  ASSUME CallsInd, NEW c \in AllCalls, KnownCall(c), ~IsFlush(c), inbox' = Append(inbox, c)
  PROVE  Sent(0)
<1>1. PICK s : s = inbox
  OBVIOUS
<1>2. s \in Seq(AllCalls) /\ KnownCalls(s) /\ inbox' = Append(s, c) /\ inbox = s
  BY <1>1 DEF CallsInd
<1>3. Append(s, c) \in Seq(AllCalls) /\ KnownCalls(Append(s, c)) /\ Flushes(s) \in Nat
  BY <1>2, AppendShape, KnownAppend, FlushesNat
<1>4. Flushes(Append(s, c)) = Flushes(s)
  BY <1>2, <1>3, FlushesAppend
<1> QED BY <1>2, <1>3, <1>4 DEF Sent

LEMMA SendsFollows ==
  ASSUME CallsInd, NEW command, inbox' = inbox \o Follows(command)
  PROVE  Sent(0)
<1>1. PICK s : s = inbox
  OBVIOUS
<1>2. s \in Seq(AllCalls) /\ KnownCalls(s) /\ inbox' = s \o Follows(command) /\ inbox = s
  BY <1>1 DEF CallsInd
<1>3. Flushes(s) \in Nat
  BY <1>2, FlushesNat
<1> QED BY <1>2, <1>3, FollowsShape DEF Sent

LEMMA SavesShape ==
  ASSUME NEW d \in Drafts, NEW who \in {"autosave", "flush", "leave"}, Known(d.id),
         NEW key \in {"same mode key", "same prompt key"}
  PROVE  LET c == SaveCall(d, "reject", key, who) IN
         c \in AllCalls /\ KnownCall(c) /\ (IsFlush(c) <=> who = "flush")
<1> DEFINE c == SaveCall(d, "reject", key, who)
<1>1. d.id \in Modes /\ Undrafted(d) \in Mode
  BY DEF Drafts, Mode, Undrafted
<1>2. c \in Saves /\ c.id = d.id /\ c.do = "save" /\ c.who = who
  BY <1>1 DEF SaveCall, Saves, Policies
<1>3. c \in AllCalls
  BY <1>2 DEF AllCalls
<1> HIDE DEF c
<1>4. c \in AllCalls /\ KnownCall(c) /\ (IsFlush(c) <=> who = "flush")
  BY <1>2, <1>3 DEF KnownCall, IsFlush
<1> QED BY <1>4 DEF c

(* What flushAll sends.                                                     *)
LEMMA FlushedShape ==
  ASSUME CallsInd, PageInd, NEW who \in {"flush", "leave"}, inbox' = inbox \o Flushed(who)
  PROVE  /\ Sent(IF who = "flush" THEN Len(Flushed(who)) ELSE 0)
         /\ Len(Flushed(who)) \in Nat /\ (Flushed(who) # <<>> => Len(Flushed(who)) > 0)
<1>1. PICK s : s = inbox
  OBVIOUS
<1>2. s \in Seq(AllCalls) /\ KnownCalls(s) /\ inbox' = s \o Flushed(who) /\ inbox = s
  BY <1>1 DEF CallsInd
<1>3. Flushes(s) \in Nat
  BY <1>2, FlushesNat
<1>4. PICK x, y : x = ModeSave(who) /\ y = PromptSave(who)
  OBVIOUS
<1>5. draft # None => /\ x \in AllCalls /\ KnownCall(x) /\ (IsFlush(x) <=> who = "flush")
                      /\ y \in AllCalls /\ KnownCall(y) /\ (IsFlush(y) <=> who = "flush")
  <2> SUFFICES ASSUME draft # None
      PROVE  /\ x \in AllCalls /\ KnownCall(x) /\ (IsFlush(x) <=> who = "flush")
             /\ y \in AllCalls /\ KnownCall(y) /\ (IsFlush(y) <=> who = "flush")
    OBVIOUS
  <2>1. PICK d : d = draft
    OBVIOUS
  <2>2. d \in Drafts /\ Known(d.id)
    BY <2>1 DEF PageInd
  <2>3. x = SaveCall(d, "reject", "same mode key", who) /\ y = SaveCall(d, "reject", "same prompt key", who)
    BY <1>4, <2>1 DEF ModeSave, PromptSave
  <2> QED BY <2>2, <2>3, SavesShape
<1>6. PICK t : t = Flushed(who)
  OBVIOUS
<1>7. \/ t = <<>>
      \/ draft # None /\ (t = <<x>> \/ t = <<y>> \/ t = <<x, y>>)
  <2>a. <<>> \o <<>> = <<>>
    OBVIOUS
  <2>b. <<x>> \o <<>> = <<x>>
    OBVIOUS
  <2>c. <<>> \o <<y>> = <<y>>
    OBVIOUS
  <2>d. <<x>> \o <<y>> = <<x, y>>
    <3>1. <<x>> \o <<y>> = [i \in 1 .. 2 |-> IF i <= 1 THEN <<x>>[i] ELSE <<y>>[i - 1]]
      OBVIOUS
    <3>2. [i \in 1 .. 2 |-> IF i <= 1 THEN <<x>>[i] ELSE <<y>>[i - 1]] = <<x, y>>
      OBVIOUS
    <3> QED BY <3>1, <3>2
  <2>1. /\ <<>> \o <<>> = <<>> /\ <<x>> \o <<>> = <<x>> /\ <<>> \o <<y>> = <<y>>
        /\ <<x>> \o <<y>> = <<x, y>>
    BY <2>a, <2>b, <2>c, <2>d
  <2>2. t = IF Gone THEN <<>> ELSE (IF ModeUnsaved THEN <<x>> ELSE <<>>)
                                     \o (IF PromptUnsaved THEN <<y>> ELSE <<>>)
    BY <1>4, <1>6 DEF Flushed
  <2>3. (ModeUnsaved => draft # None) /\ (PromptUnsaved => draft # None)
    BY DEF ModeUnsaved, PromptUnsaved
  <2> QED BY <2>1, <2>2, <2>3
<1> DEFINE one == IF who = "flush" THEN 1 ELSE 0
<1>8. ASSUME NEW u \in Seq(AllCalls), KnownCalls(u), NEW c \in {x, y}, draft # None
      PROVE  /\ Append(u, c) \in Seq(AllCalls) /\ KnownCalls(Append(u, c))
             /\ Flushes(Append(u, c)) = Flushes(u) + one /\ Flushes(u) \in Nat
  <2>1. c \in AllCalls /\ KnownCall(c) /\ (IsFlush(c) <=> who = "flush")
    BY <1>5, <1>8
  <2> QED BY <1>8, <2>1, AppendShape, KnownAppend, FlushesAppend, FlushesNat
<1>9. CASE t = <<>>
  <2>1. s \o t = s /\ Len(t) = 0
    BY <1>2, <1>9
  <2> QED BY <1>2, <1>3, <1>6, <1>9, <2>1 DEF Sent
<1>10. ASSUME draft # None, NEW c \in {x, y}, t = <<c>>
       PROVE  Sent(IF who = "flush" THEN Len(t) ELSE 0) /\ Len(t) = 1
  <2>1. s \o t = Append(s, c) /\ Len(t) = 1
    BY <1>2, <1>10
  <2> QED BY <1>2, <1>3, <1>6, <1>8, <1>10, <2>1 DEF Sent
<1>11. CASE draft # None /\ t = <<x, y>>
  <2>1. Append(s, x) \in Seq(AllCalls) /\ KnownCalls(Append(s, x)) /\ Flushes(Append(s, x)) = Flushes(s) + one
    BY <1>2, <1>8, <1>11
  <2> DEFINE v == Append(s, x)
  <2> HIDE DEF v
  <2>2. /\ Append(v, y) \in Seq(AllCalls) /\ KnownCalls(Append(v, y))
        /\ Flushes(Append(v, y)) = Flushes(s) + one + one
    BY <1>8, <1>11, <2>1 DEF v
  <2>3. s \o t = Append(v, y) /\ Len(t) = 2
    BY <1>2, <1>5, <1>11 DEF v
  <2> QED BY <1>2, <1>3, <1>6, <2>2, <2>3 DEF Sent
<1> QED BY <1>6, <1>7, <1>9, <1>10, <1>11

(* A step of the page that sends what a command waits for, or none of it.   *)
LEMMA PageMoves ==
  ASSUME EditorInd, UNCHANGED <<storeVars, list, outbox, robbed>>,
         NEW k \in Nat, Sent(k),
         NEW f, flow' = f,
         \/ f = flow /\ k = 0
         \/ flow = None /\ f \in Flow /\ f.left = k /\ k > 0 /\ KnownCommand(f.command),
         NEW a, asking' = a, a \in Custom \cup {None}, a # None => Known(a),
         acts' \in 0 .. MaxActs,
         wish' \in [Modes -> Mode \cup {None}], \A m \in Modes : wish'[m] = None <=> wish[m] = None,
         NEW d, draft' = d, d \in Drafts \cup {None}, d # None => Known(d.id),
         d = None => persistedMode' = None /\ persistedPrompt' = None,
         NEW w, dialog' = w, w \in Dialogs \cup {None}, w # None => Known(w.id)
  PROVE  EditorInd'
<1>1. /\ StoreInd /\ CallsInd /\ PageInd /\ FlowCounts
      /\ UNCHANGED <<store, minted, current, list, outbox, robbed>>
  BY DEF EditorInd, storeVars
<1>2. StoreInd' /\ KnownStays
  BY <1>1, PageLeaves
<1>3. CallsInd'
  <2>1. inbox' \in Seq(AllCalls) /\ KnownCalls(inbox)'
    BY <1>2, KnownCallsStay DEF Sent
  <2>2. KnownCalls(CallsOf(outbox))'
    <3>1. KnownCalls(CallsOf(outbox'))
      BY <1>1 DEF CallsInd, KnownCalls, CallsOf
    <3> QED BY <1>2, <3>1, KnownCallsStay
  <2> QED BY <1>1, <2>1, <2>2 DEF CallsInd
<1>4. f \in Flow \cup {None} /\ (f # None => KnownCommand(f.command))
  BY <1>1 DEF PageInd
<1>5. (flow # None => KnownCommand(flow.command))'
  BY <1>2, <1>4, FlowStays
<1>6. FlowCounts'
  <2>1. Flushes(inbox)' = Flushes(inbox) + k /\ Flushes(CallsOf(outbox))' = Flushes(CallsOf(outbox))
    BY <1>1 DEF Sent, Flushes, IsFlush, CallsOf
  <2>2. Flushes(inbox) \in Nat /\ Flushes(CallsOf(outbox)) \in Nat
    BY <1>1, CallsOfShape, FlushesNat DEF CallsInd
  <2>3. FlushCount' = FlushCount + k /\ FlushCount \in Nat
    BY <2>1, <2>2 DEF FlushCount
  <2>4. CASE f = flow /\ k = 0
    BY <1>1, <2>3, <2>4 DEF FlowCounts
  <2>5. CASE flow = None /\ f \in Flow /\ f.left = k /\ k > 0
    <3>1. f # None /\ FlushCount' = k
      BY <1>1, <2>3, <2>5, FlowShape DEF FlowCounts
    <3> QED BY <2>5, <3>1 DEF FlowCounts
  <2> QED BY <2>4, <2>5
<1>7. PageInd'
  <2>1. a # None => Known(a)'
    BY <1>2 DEF KnownStays
  <2>2. (draft # None => Known(draft.id))'
    <3> SUFFICES ASSUME d # None PROVE Known(draft.id)'
      OBVIOUS
    <3>1. PICK m : m = d.id
      OBVIOUS
    <3>2. Known(m)'
      BY <1>2, <3>1 DEF KnownStays
    <3> QED BY <3>1, <3>2, KnownOf
  <2>3. (dialog # None => Known(dialog.id))'
    <3> SUFFICES ASSUME w # None PROVE Known(dialog.id)'
      OBVIOUS
    <3>1. PICK m : m = w.id
      OBVIOUS
    <3>2. Known(m)'
      BY <1>2, <3>1 DEF KnownStays
    <3> QED BY <3>1, <3>2, KnownOf
  <2>4. (asking # None => Known(asking))'
    <3> SUFFICES ASSUME a # None PROVE Known(asking)'
      OBVIOUS
    <3> QED BY <2>1, KnownOf
  <2>5. \A m \in Modes : wish'[m] = None <=> list'[m] = None
    BY <1>1 DEF PageInd
  <2> QED BY <1>4, <1>5, <2>2, <2>3, <2>4, <2>5 DEF PageInd
<1> QED BY <1>2, <1>3, <1>6, <1>7 DEF EditorInd

(* What the page is at rest.                                                *)
LEMMA PageShape ==
  ASSUME EditorInd
  PROVE  /\ StoreInd /\ CallsInd /\ PageInd
         /\ draft \in Drafts \cup {None} /\ (draft # None => Known(draft.id))
         /\ draft = None => persistedMode = None /\ persistedPrompt = None
         /\ dialog \in Dialogs \cup {None} /\ (dialog # None => Known(dialog.id))
         /\ asking \in Custom \cup {None} /\ (asking # None => Known(asking))
         /\ acts \in 0 .. MaxActs /\ wish \in [Modes -> Mode \cup {None}]
         /\ list \in [Modes -> Mode \cup {None}]
         /\ \A m \in Modes : (wish[m] = None <=> list[m] = None) /\ (list[m] # None => Known(m))
BY DEF EditorInd, PageInd, StoreInd, StoreTypes, OnlyMinted

LEMMA ActShape ==
  ASSUME EditorInd, Act
  PROVE  acts' \in 0 .. MaxActs /\ UNCHANGED <<storeVars, outbox>>
<1>1. acts \in 0 .. MaxActs
  BY PageShape
<1> QED BY <1>1, ActsAssumption DEF Act

LEMMA CommandKeeps ==
  ASSUME EditorInd, NEW g \in Commands, KnownCommand(g), Command(g), acts' \in 0 .. MaxActs,
         UNCHANGED <<storeVars, list, outbox, robbed, wish, asking>>
  PROVE  EditorInd'
<1>1. PICK f, a, d, w : f = flow' /\ a = asking /\ d = draft' /\ w = dialog'
  OBVIOUS
<1>2. /\ StoreInd /\ CallsInd /\ PageInd /\ flow = None
      /\ a \in Custom \cup {None} /\ (a # None => Known(a)) /\ asking' = a
      /\ wish' \in [Modes -> Mode \cup {None}] /\ \A m \in Modes : wish'[m] = None <=> wish[m] = None
  BY <1>1, PageShape DEF Command
<1>3. CASE UNCHANGED <<draft, persistedMode, persistedPrompt, dialog, flow, inbox>>
  <2>1. Sent(0)
    BY <1>2, <1>3, SendsNone
  <2>2. /\ d \in Drafts \cup {None} /\ (d # None => Known(d.id))
        /\ d = None => persistedMode' = None /\ persistedPrompt' = None
        /\ w \in Dialogs \cup {None} /\ (w # None => Known(w.id))
    BY <1>1, <1>3, PageShape
  <2> QED BY <1>1, <1>2, <1>3, <2>1, <2>2, PageMoves
<1>4. CASE Proceed(g) /\ inbox' = inbox \o Follows(g) /\ UNCHANGED flow
  <2>1. Sent(0)
    BY <1>2, <1>4, SendsFollows
  <2>2. /\ d \in Drafts \cup {None} /\ (d # None => Known(d.id))
        /\ d = None => persistedMode' = None /\ persistedPrompt' = None
        /\ w \in Dialogs \cup {None} /\ (w # None => Known(w.id))
    <3>1. CASE g.do = "collapse"
      <4>1. Select(None) /\ dialog' = None
        BY <1>4, <3>1 DEF Proceed
      <4> QED BY <1>1, <4>1 DEF Select, PromptKey
    <3>2. CASE g.do = "expand"
      <4>1. Select(Drafted(g.id, g.mode)) /\ dialog' = None
        BY <1>4, <3>2 DEF Proceed
      <4>2. g.id \in Modes /\ g.mode \in Mode /\ Known(g.id)
        BY <3>2 DEF KnownCommand
      <4>3. d \in Drafts /\ d # None /\ d.id = g.id
        BY <1>1, <4>1, <4>2, DraftShape DEF Select
      <4> QED BY <1>1, <4>1, <4>2, <4>3
    <3>3. CASE g.do = "create"
      <4>1. UNCHANGED <<draft, persistedMode, persistedPrompt, dialog>>
        BY <1>4, <3>3 DEF Proceed
      <4> QED BY <1>1, <4>1, PageShape
    <3> QED BY <3>1, <3>2, <3>3, CommandShape
  <2> QED BY <1>1, <1>2, <1>4, <2>1, <2>2, PageMoves
<1>5. CASE /\ Flushed("flush") # <<>> /\ inbox' = inbox \o Flushed("flush")
           /\ flow' = [command |-> g, left |-> Len(Flushed("flush")), broken |-> FALSE]
           /\ UNCHANGED <<draft, persistedMode, persistedPrompt, dialog>>
  <2>1. PICK k : k = Len(Flushed("flush"))
    OBVIOUS
  <2>2. Sent(k) /\ k \in Nat /\ k > 0
    BY <1>2, <1>5, <2>1, FlushedShape
  <2>3. f \in Flow /\ f.left = k /\ f.command = g
    BY <1>1, <1>5, <2>1, <2>2 DEF Flow
  <2>4. /\ d \in Drafts \cup {None} /\ (d # None => Known(d.id))
        /\ d = None => persistedMode' = None /\ persistedPrompt' = None
        /\ w \in Dialogs \cup {None} /\ (w # None => Known(w.id))
    BY <1>1, <1>5, PageShape
  <2> QED BY <1>1, <1>2, <2>2, <2>3, <2>4, PageMoves
<1> QED BY <1>3, <1>4, <1>5 DEF Command

LEMMA EditKeeps ==
  ASSUME EditorInd, Act, UNCHANGED asking, draft # None, NEW e \in Drafts, e.id = draft.id, Edit(e),
         list[draft.id] # None, NEW v \in Mode, NEW m, m = draft.id, wish' = [wish EXCEPT ![m] = v]
  PROVE  EditorInd'
<1>1. PICK f, a, w : f = flow /\ a = asking /\ w = dialog
  OBVIOUS
<1>2. /\ CallsInd /\ acts' \in 0 .. MaxActs /\ UNCHANGED <<storeVars, outbox>>
      /\ a \in Custom \cup {None} /\ (a # None => Known(a)) /\ Known(e.id)
      /\ w \in Dialogs \cup {None} /\ (w # None => Known(w.id))
      /\ wish \in [Modes -> Mode \cup {None}] /\ draft \in Drafts
      /\ \A o \in Modes : wish[o] = None <=> list[o] = None
  BY <1>1, PageShape, ActShape
<1>3. m \in Modes /\ wish[m] # None /\ v # None
  BY <1>2, NoneAssumption DEF Drafts
<1>4. /\ wish' \in [Modes -> Mode \cup {None}]
      /\ \A o \in Modes : wish'[o] = None <=> wish[o] = None
  BY <1>2, <1>3
<1>5. /\ draft' = e /\ UNCHANGED <<persistedMode, persistedPrompt, list, dialog, flow, inbox, robbed>>
      /\ e # None
  BY NoneAssumption DEF Edit
<1>6. Sent(0)
  BY <1>2, <1>5, SendsNone
<1> QED BY <1>1, <1>2, <1>4, <1>5, <1>6, PageMoves

LEMMA ModeEdited ==
  ASSUME NEW v \in Mode
  PROVE  /\ \A name \in Names : [v EXCEPT !.name = name] \in Mode
         /\ \A body \in Bodies : [v EXCEPT !.body = body] \in Mode
         /\ \A chord \in Chords \cup {None} : [v EXCEPT !.chord = chord] \in Mode
BY DEF Mode

LEMMA DraftEdited ==
  ASSUME NEW d \in Drafts
  PROVE  /\ \A name \in Names : [d EXCEPT !.name = name] \in Drafts /\ [d EXCEPT !.name = name].id = d.id
         /\ \A body \in Bodies : [d EXCEPT !.body = body] \in Drafts /\ [d EXCEPT !.body = body].id = d.id
         /\ \A chord \in Chords \cup {None} :
              [d EXCEPT !.chord = chord] \in Drafts /\ [d EXCEPT !.chord = chord].id = d.id
BY DEF Drafts

LEMMA EditsKeep ==
  ASSUME EditorInd,
         (\E name \in Names : EditName(name)) \/ (\E body \in Bodies : EditBody(body))
  PROVE  EditorInd'
<1>1. PICK m, d : m = draft.id /\ d = draft
  OBVIOUS
<1>2. /\ wish \in [Modes -> Mode \cup {None}] /\ (d # None => d \in Drafts)
      /\ \A o \in Modes : wish[o] = None <=> list[o] = None
  BY <1>1, PageShape
<1>3. ASSUME d # None, list[m] # None PROVE m \in Modes /\ wish[m] \in Mode
  BY <1>1, <1>2, <1>3 DEF Drafts
<1>4. ASSUME NEW name \in Names, EditName(name) PROVE EditorInd'
  <2>1. /\ Act /\ UNCHANGED asking /\ draft # None /\ list[draft.id] # None
        /\ Edit([draft EXCEPT !.name = name])
        /\ wish' = [wish EXCEPT ![draft.id].name = name]
    BY <1>4 DEF EditName
  <2>2. m \in Modes /\ wish[m] \in Mode /\ d \in Drafts
    BY <1>1, <1>2, <1>3, <2>1
  <2>3. PICK v, e : v = [wish[m] EXCEPT !.name = name] /\ e = [draft EXCEPT !.name = name]
    OBVIOUS
  <2>4. v \in Mode /\ e \in Drafts /\ e.id = draft.id
    BY <1>1, <2>2, <2>3, ModeEdited, DraftEdited
  <2>5. wish' = [wish EXCEPT ![m] = v]
    BY <1>1, <2>1, <2>3
  <2> QED BY <1>1, <2>1, <2>3, <2>4, <2>5, EditKeeps
<1>5. ASSUME NEW body \in Bodies, EditBody(body) PROVE EditorInd'
  <2>1. /\ Act /\ UNCHANGED asking /\ draft # None /\ list[draft.id] # None
        /\ Edit([draft EXCEPT !.body = body])
        /\ wish' = [wish EXCEPT ![draft.id].body = body]
    BY <1>5 DEF EditBody
  <2>2. m \in Modes /\ wish[m] \in Mode /\ d \in Drafts
    BY <1>1, <1>2, <1>3, <2>1
  <2>3. PICK v, e : v = [wish[m] EXCEPT !.body = body] /\ e = [draft EXCEPT !.body = body]
    OBVIOUS
  <2>4. v \in Mode /\ e \in Drafts /\ e.id = draft.id
    BY <1>1, <2>2, <2>3, ModeEdited, DraftEdited
  <2>5. wish' = [wish EXCEPT ![m] = v]
    BY <1>1, <2>1, <2>3
  <2> QED BY <1>1, <2>1, <2>3, <2>4, <2>5, EditKeeps
<1> QED BY <1>4, <1>5

LEMMA CommandsKeep ==
  ASSUME EditorInd, Create \/ (\E m \in Modes : Toggle(m))
  PROVE  EditorInd'
<1>1. ASSUME NEW m \in Modes, Toggle(m) PROVE EditorInd'
  <2>1. PICK g : g = IF m = Selected THEN [do |-> "collapse"]
                     ELSE [do |-> "expand", id |-> m, mode |-> list[m]]
    OBVIOUS
  <2>2. /\ Act /\ UNCHANGED <<asking, list, wish, robbed>> /\ list[m] # None /\ Command(g)
    BY <1>1, <2>1 DEF Toggle
  <2>3. acts' \in 0 .. MaxActs /\ UNCHANGED <<storeVars, outbox>>
    BY <2>2, ActShape
  <2>4. list[m] \in Mode /\ Known(m)
    BY <2>2, PageShape
  <2>5. g \in Commands /\ KnownCommand(g)
    <3>1. CASE m = Selected
      BY <2>1, <3>1 DEF Commands, KnownCommand
    <3>2. CASE m # Selected
      <4>1. g = [do |-> "expand", id |-> m, mode |-> list[m]]
        BY <2>1, <3>2
      <4> QED BY <2>4, <4>1 DEF Commands, KnownCommand
    <3> QED BY <3>1, <3>2
  <2> QED BY <2>2, <2>3, <2>5, CommandKeeps
<1>2. CASE Create
  <2>1. PICK g : g = [do |-> "create"]
    OBVIOUS
  <2>2. Act /\ UNCHANGED <<asking, list, wish, robbed>> /\ Command(g)
    BY <1>2, <2>1 DEF Create
  <2>3. acts' \in 0 .. MaxActs /\ UNCHANGED <<storeVars, outbox>>
    BY <2>2, ActShape
  <2>4. g \in Commands /\ KnownCommand(g)
    BY <2>1 DEF Commands, KnownCommand
  <2> QED BY <2>2, <2>3, <2>4, CommandKeeps
<1> QED BY <1>1, <1>2

(* The steps that change neither the draft nor what the user entered.       *)
LEMMA PageKeeps ==
  ASSUME EditorInd, UNCHANGED <<storeVars, list, outbox, robbed, draft, persistedMode, persistedPrompt,
                                wish, flow>>,
         Sent(0), acts' \in 0 .. MaxActs,
         NEW a, asking' = a, a \in Custom \cup {None}, a # None => Known(a),
         NEW w, dialog' = w, w \in Dialogs \cup {None}, w # None => Known(w.id)
  PROVE  EditorInd'
<1>1. PICK f, d : f = flow /\ d = draft
  OBVIOUS
<1>2. /\ d \in Drafts \cup {None} /\ (d # None => Known(d.id))
      /\ d = None => persistedMode' = None /\ persistedPrompt' = None
      /\ wish' \in [Modes -> Mode \cup {None}] /\ \A m \in Modes : wish'[m] = None <=> wish[m] = None
  BY <1>1, PageShape
<1> QED BY <1>1, <1>2, PageMoves

LEMMA DialogsKeep ==
  ASSUME EditorInd, CloseDialog \/ AskDelete \/ Refuse \/ (\E m \in Modes : OpenDialog(m) \/ Delete(m))
  PROVE  EditorInd'
<1>1. PICK a, w : a = asking' /\ w = dialog'
  OBVIOUS
<1>2. /\ CallsInd /\ acts \in 0 .. MaxActs
      /\ asking \in Custom \cup {None} /\ (asking # None => Known(asking))
      /\ dialog \in Dialogs \cup {None} /\ (dialog # None => Known(dialog.id))
      /\ draft \in Drafts \cup {None} /\ (draft # None => Known(draft.id))
  BY PageShape
<1>3. CASE CloseDialog
  <2>1. /\ Act /\ UNCHANGED asking /\ dialog' = None
        /\ UNCHANGED <<list, draftVars, flow, inbox, wish, robbed>>
    BY <1>3 DEF CloseDialog
  <2>2. acts' \in 0 .. MaxActs /\ UNCHANGED <<storeVars, outbox>>
    BY <2>1, ActShape
  <2> QED BY <1>1, <1>2, <2>1, <2>2, SendsNone, PageKeeps DEF draftVars
<1>4. CASE AskDelete
  <2>1. /\ Act /\ draft # None /\ draft.id \in Custom /\ asking' = draft.id
        /\ UNCHANGED <<list, draftVars, dialog, flow, inbox, wish, robbed>>
    BY <1>4 DEF AskDelete
  <2>2. acts' \in 0 .. MaxActs /\ UNCHANGED <<storeVars, outbox>>
    BY <2>1, ActShape
  <2> QED BY <1>1, <1>2, <2>1, <2>2, SendsNone, PageKeeps DEF draftVars
<1>5. CASE Refuse
  <2>1. /\ asking' = None
        /\ UNCHANGED <<storeVars, list, draftVars, dialog, flow, inbox, outbox, acts, wish, robbed>>
    BY <1>5 DEF Refuse, historyVars
  <2> QED BY <1>1, <1>2, <2>1, SendsNone, PageKeeps DEF draftVars
<1>6. ASSUME NEW m \in Modes, OpenDialog(m) PROVE EditorInd'
  <2>1. /\ Act /\ UNCHANGED asking /\ list[m] # None
        /\ dialog' = [id |-> m, nr |-> acts, saving |-> FALSE, had |-> ChordOf(m) # None]
        /\ UNCHANGED <<list, draftVars, flow, inbox, wish, robbed>>
    BY <1>6 DEF OpenDialog
  <2>2. acts' \in 0 .. MaxActs /\ UNCHANGED <<storeVars, outbox>>
    BY <2>1, ActShape
  <2>3. w \in Dialogs /\ w.id = m /\ Known(m)
    <3>1. acts \in Nat /\ Known(m)
      BY <1>2, <2>1, ActsAssumption, PageShape
    <3> QED BY <1>1, <2>1, <3>1 DEF Dialogs
  <2> QED BY <1>1, <1>2, <2>1, <2>2, <2>3, SendsNone, PageKeeps DEF draftVars
<1>7. ASSUME NEW m \in Modes, Delete(m) PROVE EditorInd'
  <2>1. PICK c : c = [do |-> "delete", id |-> m, selected |-> Selected = m]
    OBVIOUS
  <2>2. /\ asking = m /\ asking' = None /\ inbox' = Append(inbox, c)
        /\ UNCHANGED <<storeVars, list, draftVars, dialog, flow, outbox, acts, wish, robbed>>
    BY <1>7, <2>1 DEF Delete
  <2>3. m \in Custom /\ Known(m)
    BY <1>2, <2>2, NoneAssumption
  <2>4. c \in AllCalls /\ KnownCall(c) /\ ~IsFlush(c)
    BY <2>1, <2>3 DEF AllCalls, Deletes, KnownCall, IsFlush
  <2> QED BY <1>1, <1>2, <2>2, <2>4, SendsOne, PageKeeps DEF draftVars
<1> QED BY <1>3, <1>4, <1>5, <1>6, <1>7

LEMMA LeaveKeeps ==
  ASSUME EditorInd, LeavePage
  PROVE  EditorInd'
<1>1. PICK a : a = asking
  OBVIOUS
<1>2. /\ Act /\ UNCHANGED asking /\ dialog' = None /\ inbox' = inbox \o Flushed("leave")
      /\ UNCHANGED <<list, draft, persistedMode, persistedPrompt, flow, wish, robbed>>
  BY DEF LeavePage
<1>3. acts' \in 0 .. MaxActs /\ UNCHANGED <<storeVars, outbox>>
  BY <1>2, ActShape
<1>4. CallsInd /\ PageInd /\ a \in Custom \cup {None} /\ (a # None => Known(a))
  BY <1>1, PageShape
<1>5. Sent(0)
  BY <1>2, <1>4, FlushedShape
<1> QED BY <1>1, <1>2, <1>3, <1>4, <1>5, PageKeeps

LEMMA TimersKeep ==
  ASSUME EditorInd, TimerFires
  PROVE  EditorInd'
<1>1. PICK a, w, x, y : /\ a = asking /\ w = dialog
                        /\ x = ModeSave("autosave") /\ y = PromptSave("autosave")
  OBVIOUS
<1>2. /\ CallsInd /\ PageInd /\ a \in Custom \cup {None} /\ (a # None => Known(a))
      /\ w \in Dialogs \cup {None} /\ (w # None => Known(w.id)) /\ acts \in 0 .. MaxActs
  BY <1>1, PageShape
<1>3. UNCHANGED <<storeVars, list, draft, persistedMode, persistedPrompt, dialog, asking, flow,
                  outbox, acts, wish, robbed>>
  BY DEF TimerFires, historyVars
<1>4. \/ inbox' = inbox
      \/ draft # None /\ (inbox' = Append(inbox, x) \/ inbox' = Append(inbox, y))
  BY <1>1 DEF TimerFires, AutosaveFires, ModeUnsaved, PromptUnsaved
<1>5. draft # None => /\ x \in AllCalls /\ KnownCall(x) /\ ~IsFlush(x)
                      /\ y \in AllCalls /\ KnownCall(y) /\ ~IsFlush(y)
  <2> SUFFICES ASSUME draft # None
      PROVE  /\ x \in AllCalls /\ KnownCall(x) /\ ~IsFlush(x)
             /\ y \in AllCalls /\ KnownCall(y) /\ ~IsFlush(y)
    OBVIOUS
  <2>1. PICK d : d = draft
    OBVIOUS
  <2>2. d \in Drafts /\ Known(d.id)
    BY <1>2, <2>1 DEF PageInd
  <2>3. /\ x = SaveCall(d, "reject", "same mode key", "autosave")
        /\ y = SaveCall(d, "reject", "same prompt key", "autosave")
    BY <1>1, <2>1 DEF ModeSave, PromptSave
  <2> QED BY <2>2, <2>3, SavesShape
<1>6. Sent(0)
  BY <1>2, <1>4, <1>5, SendsNone, SendsOne
<1> QED BY <1>1, <1>2, <1>3, <1>6, PageKeeps

(* The dialog commits a hotkey, or clears it.                               *)
LEMMA DialogCall ==
  ASSUME EditorInd, NEW chord \in Chords \cup {None}, NEW policy \in Policies,
         dialog # None, list[dialog.id] # None,
         DialogSaves(chord, policy)
  PROVE  /\ Sent(0) /\ dialog' \in Dialogs /\ dialog'.id = dialog.id
<1>1. PICK d, b : d = dialog /\ b = BaseDraft(d.id)
  OBVIOUS
<1>2. /\ CallsInd /\ d \in Dialogs /\ Known(d.id) /\ draft \in Drafts \cup {None}
      /\ list \in [Modes -> Mode \cup {None}]
  BY <1>1, PageShape
<1>3. d.id \in Modes /\ d.nr \in Nat /\ list[d.id] \in Mode
  BY <1>1, <1>2 DEF Dialogs
<1>4. b \in Drafts /\ b.id = d.id
  <2>1. CASE d.id = Selected
    BY <1>1, <1>2, <1>3, <2>1, NoneAssumption DEF BaseDraft, Selected
  <2>2. CASE d.id # Selected
    BY <1>1, <1>3, <2>2, DraftShape DEF BaseDraft
  <2> QED BY <2>1, <2>2
<1>5. PICK e : e = [b EXCEPT !.chord = chord]
  OBVIOUS
<1>6. e \in Drafts /\ e.id = d.id /\ Undrafted(e) \in Mode
  <2>1. e \in Drafts /\ e.id = d.id
    BY <1>4, <1>5, DraftEdited
  <2> QED BY <2>1 DEF Drafts, Undrafted, Mode
<1>7. PICK c : c = HotkeySave(e, policy, d.nr)
  OBVIOUS
<1>8. c \in AllCalls /\ KnownCall(c) /\ ~IsFlush(c)
  <2>1. c \in DialogSaved /\ c.who = "dialog" /\ c.id = d.id
    BY <1>3, <1>6, <1>7 DEF DialogSaved, HotkeySave
  <2> QED BY <1>2, <2>1 DEF AllCalls, KnownCall, IsFlush
<1>9. inbox' = Append(inbox, c) /\ dialog' = [d EXCEPT !.saving = TRUE]
  BY <1>1, <1>5, <1>7 DEF DialogSaves
<1>10. Sent(0)
  BY <1>2, <1>8, <1>9, SendsOne
<1>11. dialog' \in Dialogs /\ dialog'.id = d.id
  BY <1>2, <1>9 DEF Dialogs
<1> QED BY <1>1, <1>10, <1>11

LEMMA DialogKeeps ==
  ASSUME EditorInd, Act, UNCHANGED <<asking, list, draftVars, flow, robbed>>, Sent(0),
         dialog # None, dialog' \in Dialogs, dialog'.id = dialog.id,
         wish' \in [Modes -> Mode \cup {None}], \A m \in Modes : wish'[m] = None <=> wish[m] = None
  PROVE  EditorInd'
<1>1. PICK a, w, d, f : a = asking /\ w = dialog' /\ d = draft /\ f = flow
  OBVIOUS
<1>2. acts' \in 0 .. MaxActs /\ UNCHANGED <<storeVars, outbox>>
  BY ActShape
<1>3. /\ a \in Custom \cup {None} /\ (a # None => Known(a))
      /\ d \in Drafts \cup {None} /\ (d # None => Known(d.id))
      /\ d = None => persistedMode' = None /\ persistedPrompt' = None
      /\ w \in Dialogs /\ Known(w.id)
  BY <1>1, PageShape DEF draftVars
<1> QED BY <1>1, <1>2, <1>3, PageMoves DEF draftVars

LEMMA HotkeysKeep ==
  ASSUME EditorInd, Clear \/ (\E chord \in Chords : Commit(chord))
  PROVE  EditorInd'
<1>1. PICK m : m = dialog.id
  OBVIOUS
<1>2. /\ wish \in [Modes -> Mode \cup {None}] /\ dialog \in Dialogs \cup {None}
      /\ \A o \in Modes : wish[o] = None <=> list[o] = None
  BY PageShape
<1>3. CASE Clear
  <2>1. /\ Act /\ UNCHANGED asking /\ dialog # None /\ list[m] # None
        /\ DialogSaves(None, "reject") /\ wish' = [wish EXCEPT ![m].chord = None] /\ UNCHANGED robbed
    BY <1>1, <1>3 DEF Clear
  <2>2. m \in Modes /\ wish[m] \in Mode
    BY <1>1, <1>2, <2>1 DEF Dialogs
  <2>3. PICK v : v = [wish[m] EXCEPT !.chord = None]
    OBVIOUS
  <2>4. v \in Mode /\ v # None /\ wish' = [wish EXCEPT ![m] = v]
    BY <2>1, <2>2, <2>3, ModeEdited, NoneAssumption
  <2>5. wish' \in [Modes -> Mode \cup {None}] /\ \A o \in Modes : wish'[o] = None <=> wish[o] = None
    BY <1>2, <2>2, <2>4, NoneAssumption
  <2>6. Sent(0) /\ dialog' \in Dialogs /\ dialog'.id = dialog.id
    BY <1>1, <2>1, DialogCall DEF Policies
  <2> QED BY <2>1, <2>5, <2>6, DialogKeeps DEF DialogSaves
<1>4. ASSUME NEW chord \in Chords, Commit(chord) PROVE EditorInd'
  <2> DEFINE others == {o \in Modes \ {m} : list[o] # None /\ list[o].chord = chord}
             new(o) == CASE o = m -> [wish[o] EXCEPT !.chord = chord]
                         [] o \in others -> [wish[o] EXCEPT !.chord = None]
                         [] OTHER -> wish[o]
  <2>1. /\ Act /\ UNCHANGED asking /\ dialog # None /\ list[m] # None /\ UNCHANGED robbed
        /\ DialogSaves(chord, IF others = {} THEN "reject" ELSE "steal")
        /\ wish' = [o \in Modes |-> new(o)]
    BY <1>1, <1>4 DEF Commit
  <2>2. m \in Modes
    BY <1>1, <1>2, <2>1 DEF Dialogs
  <2>3. ASSUME NEW o \in Modes PROVE new(o) \in Mode \cup {None} /\ (new(o) = None <=> wish[o] = None)
    <3>1. CASE o = m
      <4>1. wish[o] \in Mode /\ new(o) = [wish[o] EXCEPT !.chord = chord]
        BY <1>2, <2>1, <3>1
      <4>2. new(o) \in Mode
        BY <4>1, ModeEdited
      <4> QED BY <4>1, <4>2, NoneAssumption
    <3>2. CASE o \in others
      <4>1. wish[o] \in Mode /\ new(o) = [wish[o] EXCEPT !.chord = None]
        BY <1>2, <3>2
      <4>2. new(o) \in Mode
        BY <4>1, ModeEdited
      <4> QED BY <4>1, <4>2, NoneAssumption
    <3>3. CASE o # m /\ o \notin others
      BY <1>2, <3>3
    <3> QED BY <3>1, <3>2, <3>3
  <2>4. PICK policy \in Policies : policy = IF others = {} THEN "reject" ELSE "steal"
    BY DEF Policies
  <2> HIDE DEF new
  <2>5. wish' \in [Modes -> Mode \cup {None}] /\ \A o \in Modes : wish'[o] = None <=> wish[o] = None
    BY <2>1, <2>3
  <2>6. Sent(0) /\ dialog' \in Dialogs /\ dialog'.id = dialog.id
    BY <1>1, <2>1, <2>4, DialogCall
  <2>7. UNCHANGED <<asking, list, draftVars, flow, robbed>>
    BY <2>1 DEF DialogSaves
  <2> QED BY <2>1, <2>5, <2>6, <2>7, DialogKeeps
<1> QED BY <1>3, <1>4

LEMMA EditorStep == EditorInd /\ [EditorNext]_editorVars => EditorInd'
<1> SUFFICES ASSUME EditorInd, [EditorNext]_editorVars PROVE EditorInd'
  OBVIOUS
<1>1. CASE UNCHANGED editorVars
  <2>1. PICK a, w : a = asking /\ w = dialog
    OBVIOUS
  <2>2. /\ UNCHANGED <<storeVars, list, outbox, robbed, draft, persistedMode, persistedPrompt, wish, flow>>
        /\ inbox' = inbox /\ acts' = acts /\ asking' = a /\ dialog' = w
    BY <1>1, <2>1 DEF editorVars, storeVars, draftVars, historyVars
  <2>3. /\ CallsInd /\ acts' \in 0 .. MaxActs
        /\ a \in Custom \cup {None} /\ (a # None => Known(a))
        /\ w \in Dialogs \cup {None} /\ (w # None => Known(w.id))
    BY <2>1, <2>2, PageShape
  <2> QED BY <2>2, <2>3, SendsNone, PageKeeps
<1>2. CASE EditorNext
  BY <1>2, MainKeeps, RendererKeeps, TimersKeep, EditsKeep, CommandsKeep, DialogsKeep, LeaveKeeps,
     HotkeysKeep DEF EditorNext, UserStep
<1> QED BY <1>1, <1>2

(* The inductive invariant of the modes page, for any modes, texts, hotkeys *)
(* and number of the user's acts: save_mode, create_mode and delete_mode,   *)
(* both autosaves, the flush of a command and the dialog's commits, in any  *)
(* order their calls and replies can travel, keep the store ahead of the    *)
(* page by exactly the replies that are on their way.                       *)
THEOREM EditorInductive == EditorSpec => []EditorInd
BY InitEditorInd, EditorStep, PTL DEF EditorSpec

(* What the run checks: no two stored modes share a hotkey, whatever stale  *)
(* list or draft a save was made from; and once every call was answered the *)
(* page lists what is stored, but for modes whose hotkey another one took.  *)
THEOREM EditorSafe == EditorSpec => []EditorInv
<1>1. EditorInd => EditorInv
  <2> SUFFICES ASSUME EditorInd PROVE EditorInv
    OBVIOUS
  <2>1. EditorTypeOK
    BY DEF EditorInd, StoreInd, StoreTypes, PageInd, EditorTypeOK
  <2>2. ListFollowsStore
    <3> SUFFICES ASSUME outbox = <<>> PROVE \A m \in Modes \ robbed : list[m] = store[m]
      BY DEF ListFollowsStore
    <3>1. \A m : Effective(m) = {}
      BY DEF Effective
    <3> QED BY <3>1 DEF EditorInd, StoreInd, LastEffect
  <2> QED BY <2>1, <2>2 DEF EditorInv, HotkeysDisjoint, EditorInd, StoreInd
<1> QED BY <1>1, EditorInductive, PTL

-----------------------------------------------------------------------------
(* What the user enters is kept.  The wish of a mode is the draft of the     *)
(* open card, or what is listed of a closed one; the invariant follows each  *)
(* of them into the store, while no call failed and no step of the user met  *)
(* a call that forgets it.                                                   *)

(* Calls and their replies travel in one line, first in first out.           *)
Line == CallsOf(outbox) \o inbox

FromBinding(call) == call.do = "save" /\ call.who = "dialog"
Dialled == Line # <<>> /\ FromBinding(Line[1])
SavesOf(m) == {i \in DOMAIN Line : Line[i].do = "save" /\ Line[i].who # "dialog" /\ Line[i].id = m}

(* The modes that will lose their hotkey to the save at the head.           *)
Stealing ==
  IF outbox = <<>> /\ Dialled /\ Line[1].policy = "steal" /\ Line[1].mode.chord # None
    THEN Conflicting(Line[1].mode.chord, Line[1].id) ELSE {}

AllAnswered == \A i \in DOMAIN outbox : outbox[i].ok
Settled == draft = persistedMode

(* The open card is of a mode there is, and knows what is stored of it.     *)
CardOpen ==
  draft # None =>
    /\ list[draft.id] # None
    /\ persistedMode = Drafted(draft.id, list[draft.id])
    /\ persistedPrompt = PromptKey(persistedMode)

(* The saves of a closed card bring what is listed.                         *)
ClosedCards ==
  \A m \in Modes : list[m] # None /\ Selected # m => \A i \in SavesOf(m) : Line[i].mode = list[m]

(* The saves of the open card bring ever newer versions of its draft: after *)
(* one with the draft as it is no older one follows.                        *)
PromptsMatch ==
  draft # None => \A i \in SavesOf(draft.id) : Line[i].adopt = "same prompt key" =>
     Line[i].mode.name = draft.name /\ Line[i].mode.chord = draft.chord
VersionsInOrder ==
  draft # None =>
    /\ \A i, j \in SavesOf(draft.id) :
         i < j /\ Line[i].mode = Undrafted(draft) => Line[j].mode = Undrafted(draft)
    /\ Settled => \A i \in SavesOf(draft.id) : Line[i].mode = Undrafted(draft)

(* A draft that is not stored has its timer or its save.                    *)
DraftIsServed ==
  draft # None =>
    \/ modeTimer \/ Settled
    \/ \E i \in SavesOf(draft.id) : Line[i].mode = Undrafted(draft)

DialogAlone ==
  \A i \in DOMAIN Line : FromBinding(Line[i]) =>
    /\ i = 1 /\ Settled
    /\ \A j \in DOMAIN Line : j # i => Line[j].do = "delete"

CommandWaits ==
  flow # None =>
    /\ ~flow.broken /\ draft # None
    /\ \A i \in DOMAIN Line :
         /\ Line[i].do = "save" /\ Line[i].who # "dialog"
         /\ IsFlush(Line[i]) => Line[i].id = draft.id /\ Line[i].mode = Undrafted(draft)
    /\ flow.command.do = "expand" =>
         /\ flow.command.id # draft.id
         /\ list[flow.command.id] # None /\ flow.command.mode = list[flow.command.id]

CreatesAlone ==
  \A i \in DOMAIN Line : Line[i].do = "create" =>
    Settled /\ \A j \in DOMAIN Line : Line[j].do # "delete"

DeletesOne ==
  \A i \in DOMAIN Line : Line[i].do = "delete" =>
    /\ Line[i].selected <=> Selected = Line[i].id
    /\ \A j \in DOMAIN Line : Line[j].do = "delete" => i = j

Wished ==
  \A m \in Modes \ (robbed \cup Stealing) : list[m] # None =>
    wish[m] = IF Dialled /\ Line[1].id = m THEN Line[1].mode
              ELSE IF Selected = m THEN Undrafted(draft) ELSE list[m]

KeptParts ==
  /\ AllAnswered /\ CardOpen /\ ClosedCards /\ PromptsMatch /\ VersionsInOrder /\ DraftIsServed
  /\ DialogAlone /\ CommandWaits /\ CreatesAlone /\ DeletesOne /\ Wished
KeptInd == ~failed /\ ~crossed => KeptParts

LEMMA ConcatShape ==
  ASSUME NEW S, NEW s \in Seq(S), NEW t \in Seq(S)
  PROVE  /\ s \o t \in Seq(S) /\ Len(s) \in Nat /\ Len(t) \in Nat /\ Len(s \o t) = Len(s) + Len(t)
         /\ DOMAIN (s \o t) = 1 .. Len(s) + Len(t)
         /\ \A i \in 1 .. Len(s) : (s \o t)[i] = s[i]
         /\ \A i \in 1 .. Len(t) : (s \o t)[Len(s) + i] = t[i]
<1>1. /\ s \o t \in Seq(S) /\ Len(s) \in Nat /\ Len(t) \in Nat /\ Len(s \o t) = Len(s) + Len(t)
      /\ DOMAIN (s \o t) = 1 .. Len(s) + Len(t)
  OBVIOUS
<1>2. \A i \in 1 .. Len(s) : (s \o t)[i] = s[i]
  OBVIOUS
<1>3. \A i \in 1 .. Len(t) : (s \o t)[Len(s) + i] = t[i]
  OBVIOUS
<1> QED BY <1>1, <1>2, <1>3

LEMMA LineShape ==
  ASSUME CallsInd
  PROVE  /\ Line \in Seq(AllCalls) /\ Len(Line) \in Nat /\ DOMAIN Line = 1 .. Len(Line)
         /\ \A i \in DOMAIN Line : Line[i] \in AllCalls /\ Line[i] \in InFlight
         /\ Len(outbox) \in Nat /\ Len(inbox) \in Nat /\ Len(Line) = Len(outbox) + Len(inbox)
         /\ \A i \in 1 .. Len(outbox) : Line[i] = outbox[i].call
         /\ \A i \in 1 .. Len(inbox) : Line[Len(outbox) + i] = inbox[i]
<1>1. inbox \in Seq(AllCalls) /\ outbox \in Seq(Replies)
  BY DEF CallsInd
<1>2. /\ CallsOf(outbox) \in Seq(AllCalls) /\ Len(CallsOf(outbox)) = Len(outbox)
      /\ \A i \in DOMAIN outbox : CallsOf(outbox)[i] = outbox[i].call
  <2>1. \A i \in DOMAIN outbox : CallsOf(outbox)[i] = outbox[i].call
    BY DEF CallsOf
  <2> QED BY <1>1, <2>1, CallsOfShape
<1>3. PICK q : q = CallsOf(outbox)
  OBVIOUS
<1>4. /\ q \in Seq(AllCalls) /\ Len(q) = Len(outbox) /\ Line = q \o inbox
      /\ Len(inbox) \in Nat /\ Len(outbox) \in Nat
  BY <1>1, <1>2, <1>3 DEF Line
<1>5. /\ Line \in Seq(AllCalls) /\ Len(outbox) \in Nat /\ Len(inbox) \in Nat
      /\ Len(Line) = Len(outbox) + Len(inbox)
      /\ \A i \in 1 .. Len(outbox) : Line[i] = q[i]
      /\ \A i \in 1 .. Len(inbox) : Line[Len(outbox) + i] = inbox[i]
  <2>1. PICK t, n : t = inbox /\ n = Len(outbox)
    OBVIOUS
  <2>2. /\ Line \in Seq(AllCalls) /\ Len(Line) = Len(q) + Len(t)
        /\ \A i \in 1 .. Len(q) : Line[i] = q[i]
        /\ \A i \in 1 .. Len(t) : Line[Len(q) + i] = t[i]
    <3>1. q \in Seq(AllCalls) /\ t \in Seq(AllCalls)
      BY <1>1, <1>4, <2>1
    <3>2. Line = q \o t
      BY <1>4, <2>1
    <3>3. /\ q \o t \in Seq(AllCalls) /\ Len(q \o t) = Len(q) + Len(t)
          /\ \A i \in 1 .. Len(q) : (q \o t)[i] = q[i]
          /\ \A i \in 1 .. Len(t) : (q \o t)[Len(q) + i] = t[i]
      BY <3>1, ConcatShape
    <3> QED BY <3>2, <3>3
  <2> QED BY <1>4, <2>1, <2>2
<1>6. /\ DOMAIN Line = 1 .. Len(Line) /\ DOMAIN outbox = 1 .. Len(outbox)
      /\ DOMAIN inbox = 1 .. Len(inbox)
  BY <1>1, <1>5
<1>7. \A i \in DOMAIN Line : Line[i] \in AllCalls
  BY <1>5
<1>8. \A i \in 1 .. Len(outbox) : Line[i] = outbox[i].call
  BY <1>2, <1>3, <1>5, <1>6
<1>9. ASSUME NEW i \in DOMAIN Line PROVE Line[i] \in InFlight
  <2>1. CASE i <= Len(outbox)
    BY <1>5, <1>6, <1>8, <2>1 DEF InFlight
  <2>2. CASE i > Len(outbox)
    <3>1. i - Len(outbox) \in 1 .. Len(inbox) /\ i = Len(outbox) + (i - Len(outbox))
      BY <1>5, <1>6, <2>2
    <3> QED BY <1>5, <1>6, <3>1 DEF InFlight
  <2> QED BY <1>5, <1>6, <2>1, <2>2
<1> QED BY <1>5, <1>6, <1>7, <1>8, <1>9

LEMMA LineHead ==
  ASSUME CallsInd, Line # <<>>
  PROVE  1 \in DOMAIN Line /\ Len(Line) >= 1
<1>1. PICK q : q = Line
  OBVIOUS
<1>2. q \in Seq(AllCalls) /\ q # <<>>
  BY <1>1, LineShape
<1>3. 1 \in DOMAIN q /\ Len(q) >= 1
  BY <1>2
<1> QED BY <1>1, <1>3

(* What the page sends goes to the end of the line.                         *)
LEMMA LineGrows ==
  ASSUME CallsInd, CallsInd', NEW s, inbox' = inbox \o s, UNCHANGED outbox, s \in Seq(AllCalls)
  PROVE  /\ Len(s) \in Nat /\ Len(Line') = Len(Line) + Len(s)
         /\ DOMAIN Line' = 1 .. Len(Line) + Len(s)
         /\ \A i \in DOMAIN Line : Line'[i] = Line[i]
         /\ \A i \in 1 .. Len(s) : Line'[Len(Line) + i] = s[i]
<1>1. CallsOf(outbox)' = CallsOf(outbox)
  BY DEF CallsOf
<1>2. PICK q, t : q = CallsOf(outbox) /\ t = inbox
  OBVIOUS
<1>3. q \in Seq(AllCalls) /\ t \in Seq(AllCalls) /\ Line = q \o t /\ Line' = q \o (t \o s)
  BY <1>1, <1>2, CallsOfShape DEF CallsInd, Line
<1>4. q \o (t \o s) = (q \o t) \o s
  BY <1>3
<1> QED BY <1>3, <1>4

(* A reply that is read leaves from its head.                               *)
LEMMA LineShrinks ==
  ASSUME CallsInd, CallsInd', outbox # <<>>, outbox' = Tail(outbox), NEW s, inbox' = inbox \o s,
         s \in Seq(AllCalls)
  PROVE  /\ Len(s) \in Nat /\ Len(Line) >= 1 /\ Line # <<>> /\ Line[1] = Head(outbox).call
         /\ DOMAIN Line' = 1 .. Len(Line) - 1 + Len(s)
         /\ \A i \in 1 .. Len(Line) - 1 : Line'[i] = Line[i + 1]
         /\ \A i \in 1 .. Len(s) : Line'[Len(Line) - 1 + i] = s[i]
<1>1. /\ outbox \in Seq(Replies) /\ CallsOf(outbox) \in Seq(AllCalls)
      /\ CallsOf(outbox') = Tail(CallsOf(outbox)) /\ CallsOf(outbox) # <<>>
      /\ CallsOf(outbox)[1] = Head(outbox).call
  BY CallsOfShape DEF CallsInd
<1>2. CallsOf(outbox)' = CallsOf(outbox')
  BY DEF CallsOf
<1>3. PICK q, t : q = CallsOf(outbox) /\ t = inbox
  OBVIOUS
<1>4. /\ q \in Seq(AllCalls) /\ t \in Seq(AllCalls) /\ q # <<>> /\ q[1] = Head(outbox).call
      /\ Line = q \o t /\ Line' = Tail(q) \o (t \o s)
  BY <1>1, <1>2, <1>3 DEF CallsInd, Line
<1>5. /\ Tail(q) \in Seq(AllCalls) /\ Len(Tail(q)) = Len(q) - 1 /\ Len(q) \in Nat /\ Len(q) > 0
      /\ \A i \in 1 .. Len(q) - 1 : Tail(q)[i] = q[i + 1]
  BY <1>4
<1>6. Tail(q) \o (t \o s) = (Tail(q) \o t) \o s
  BY <1>4, <1>5
<1>7. /\ Len(Tail(q) \o t) = Len(Line) - 1 /\ Tail(q) \o t \in Seq(AllCalls)
      /\ \A i \in 1 .. Len(Line) - 1 : (Tail(q) \o t)[i] = Line[i + 1]
  BY <1>4, <1>5
<1>8. Len(Line) >= 1 /\ Line # <<>> /\ Line[1] = Head(outbox).call /\ Len(Line) \in Nat
  BY <1>4, <1>5
<1>9. PICK v : v = Tail(q) \o t
  OBVIOUS
<1> QED BY <1>4, <1>6, <1>7, <1>8, <1>9

LEMMA CardShape ==
  ASSUME PageInd, StoreTypes, CardOpen
  PROVE  /\ draft = None => Selected = None /\ Settled
         /\ draft # None => /\ draft \in Drafts /\ Selected = draft.id /\ draft.id \in Modes
                            /\ Undrafted(draft) \in Mode
                            /\ list[draft.id] \in Mode
                            /\ persistedMode = Drafted(draft.id, list[draft.id])
                            /\ Settled <=> Undrafted(draft) = list[draft.id]
         /\ \A m \in Modes : list[m] # None => list[m] \in Mode
         /\ \A m \in Modes : m # None /\ (Selected = m => draft # None)
<1>1. /\ draft \in Drafts \cup {None} /\ list \in [Modes -> Mode \cup {None}]
      /\ draft = None => persistedMode = None
  BY DEF PageInd, StoreTypes
<1>2. \A m \in Modes : m # None
  BY NoneAssumption
<1>3. draft = None => Selected = None /\ Settled
  BY <1>1 DEF Selected, Settled
<1>4. ASSUME draft # None
      PROVE  /\ draft \in Drafts /\ Selected = draft.id /\ draft.id \in Modes
             /\ Undrafted(draft) \in Mode /\ list[draft.id] \in Mode
             /\ persistedMode = Drafted(draft.id, list[draft.id])
             /\ Settled <=> Undrafted(draft) = list[draft.id]
  <2>1. draft \in Drafts /\ Selected = draft.id
    BY <1>1, <1>4 DEF Selected
  <2>2. draft.id \in Modes /\ Undrafted(draft) \in Mode
    BY <2>1 DEF Drafts, Undrafted, Mode
  <2>3. list[draft.id] \in Mode /\ persistedMode = Drafted(draft.id, list[draft.id])
    BY <1>1, <1>4, <2>2 DEF CardOpen
  <2>4. PICK v : v = list[draft.id]
    OBVIOUS
  <2>5. draft = Drafted(draft.id, v) <=> Undrafted(draft) = v
    BY <2>1, <2>3, <2>4 DEF Drafts, Mode, Drafted, Undrafted
  <2> QED BY <2>1, <2>2, <2>3, <2>4, <2>5 DEF Settled
<1> QED BY <1>1, <1>2, <1>3, <1>4

LEMMA SaveShape ==
  ASSUME NEW c \in AllCalls, c.do = "save"
  PROVE  /\ c.id \in Modes /\ c.mode \in Mode
         /\ c.who = "dialog" => c.adopt = "if selected"
         /\ c.who # "dialog" => c.adopt \in {"same mode key", "same prompt key"}
BY DEF AllCalls, Saves, DialogSaved, Creates, Deletes

LEMMA DraftOfMode ==
  ASSUME NEW m \in Modes, NEW v \in Mode
  PROVE  Drafted(m, v).id = m /\ Undrafted(Drafted(m, v)) = v
BY DEF Drafted, Undrafted, Mode

(* At first nothing travels and no card is open.                            *)
LEMMA InitKept == EditorInit => KeptInd
<1> SUFFICES ASSUME EditorInit PROVE KeptParts
  BY DEF KeptInd
<1>1. outbox = <<>> /\ inbox = <<>> /\ draft = None /\ flow = None /\ wish = list
  BY DEF EditorInit
<1>2. Line = <<>>
  BY <1>1 DEF Line, CallsOf
<1>3. DOMAIN Line = {}
  BY <1>2
<1>4. AllAnswered /\ CardOpen /\ ClosedCards /\ PromptsMatch /\ VersionsInOrder /\ DraftIsServed
  BY <1>1, <1>3 DEF AllAnswered, CardOpen, ClosedCards, PromptsMatch, VersionsInOrder, DraftIsServed,
     SavesOf
<1>5. DialogAlone /\ CommandWaits /\ CreatesAlone /\ DeletesOne
  BY <1>1, <1>3 DEF DialogAlone, CommandWaits, CreatesAlone, DeletesOne
<1>6. Wished
  BY <1>1, <1>2, NoneAssumption DEF Wished, Dialled, Selected
<1> QED BY <1>4, <1>5, <1>6 DEF KeptParts

(* The page sends what it has of the open card, or nothing.                 *)
OwnSaves(s) ==
  s # <<>> =>
    /\ draft # None /\ ~Settled
    /\ \A i \in DOMAIN s : /\ s[i].do = "save" /\ s[i].who # "dialog" /\ s[i].id = draft.id
                           /\ s[i].mode = Undrafted(draft)

LEMMA SendsKept ==
  ASSUME EditorInd, KeptParts, CallsInd', NEW s \in Seq(AllCalls), inbox' = inbox \o s, OwnSaves(s),
         UNCHANGED <<store, list, outbox, robbed, wish, draft, persistedMode, persistedPrompt>>,
         s # <<>> \/ Settled \/ modeTimer' = modeTimer,
         flow' = flow \/ CommandWaits'
  PROVE  KeptParts'
<1>1. /\ CallsInd /\ PageInd /\ StoreTypes
  BY DEF EditorInd, StoreInd
<1>2. PICK n, k : n = Len(Line) /\ k = Len(s)
  OBVIOUS
<1>3. /\ n \in Nat /\ k \in Nat /\ DOMAIN Line = 1 .. n /\ DOMAIN Line' = 1 .. n + k
      /\ \A i \in 1 .. n : Line'[i] = Line[i]
      /\ \A i \in 1 .. k : Line'[n + i] = s[i]
      /\ DOMAIN s = 1 .. k /\ (s # <<>> <=> k > 0)
  <2>1. k \in Nat /\ DOMAIN s = 1 .. k /\ (s # <<>> <=> k > 0)
    BY <1>2
  <2>2. /\ DOMAIN Line' = 1 .. Len(Line) + Len(s)
        /\ \A i \in DOMAIN Line : Line'[i] = Line[i]
        /\ \A i \in 1 .. Len(s) : Line'[Len(Line) + i] = s[i]
    BY <1>1, LineGrows
  <2>3. Len(Line) \in Nat /\ DOMAIN Line = 1 .. Len(Line)
    BY <1>1, LineShape
  <2> QED BY <1>2, <2>1, <2>2, <2>3
<1>4. ASSUME NEW i \in n + 1 .. n + k
      PROVE  /\ Line'[i].do = "save" /\ Line'[i].who # "dialog" /\ Line'[i].id = draft.id
             /\ Line'[i].mode = Undrafted(draft)
             /\ draft # None /\ ~Settled /\ s # <<>>
  <2>1. i - n \in 1 .. k /\ i = n + (i - n)
    BY <1>3
  <2>2. s # <<>> /\ i - n \in DOMAIN s /\ Line'[i] = s[i - n]
    BY <1>3, <2>1
  <2>3. PICK j \in DOMAIN s : j = i - n
    BY <2>2
  <2>4. /\ draft # None /\ ~Settled
        /\ s[j].do = "save" /\ s[j].who # "dialog" /\ s[j].id = draft.id /\ s[j].mode = Undrafted(draft)
    BY <2>2 DEF OwnSaves
  <2> QED BY <2>2, <2>3, <2>4
<1>5. DOMAIN Line' = DOMAIN Line \cup (n + 1 .. n + k)
  BY <1>3
<1>6. \A m : SavesOf(m)' = SavesOf(m) \cup {i \in n + 1 .. n + k : m = draft.id}
  BY <1>3, <1>4, <1>5 DEF SavesOf
<1>7. draft # None => Selected = draft.id
  BY <1>1, CardShape DEF KeptParts
<1>8. AllAnswered' /\ CardOpen'
  BY DEF KeptParts, AllAnswered, CardOpen
<1>9. ClosedCards'
  <2> SUFFICES ASSUME NEW m \in Modes, list[m] # None, Selected # m, NEW i \in SavesOf(m)'
      PROVE  Line'[i].mode = list[m]
    BY DEF ClosedCards, Selected
  <2>1. i \in SavesOf(m)
    BY <1>4, <1>6, <1>7
  <2> QED BY <1>3, <2>1 DEF KeptParts, ClosedCards, SavesOf
<1>10. PromptsMatch'
  <2> SUFFICES ASSUME draft # None, NEW i \in SavesOf(draft.id)', Line'[i].adopt = "same prompt key"
      PROVE  Line'[i].mode.name = draft.name /\ Line'[i].mode.chord = draft.chord
    BY DEF PromptsMatch
  <2>1. CASE i \in SavesOf(draft.id)
    BY <1>3, <2>1 DEF KeptParts, PromptsMatch, SavesOf
  <2>2. CASE i \in n + 1 .. n + k
    <3>1. Undrafted(draft).name = draft.name /\ Undrafted(draft).chord = draft.chord
      BY DEF Undrafted
    <3> QED BY <1>4, <2>2, <3>1
  <2> QED BY <1>6, <2>1, <2>2
<1>11. VersionsInOrder'
  <2> SUFFICES ASSUME draft # None
      PROVE  /\ \A i, j \in SavesOf(draft.id)' :
                  i < j /\ Line'[i].mode = Undrafted(draft) => Line'[j].mode = Undrafted(draft)
             /\ Settled => \A i \in SavesOf(draft.id)' : Line'[i].mode = Undrafted(draft)
    BY DEF VersionsInOrder, Undrafted, Settled
  <2>1. \A i \in SavesOf(draft.id) : i \in 1 .. n /\ Line'[i] = Line[i]
    BY <1>3 DEF SavesOf
  <2>2. \A i \in n + 1 .. n + k : Line'[i].mode = Undrafted(draft)
    BY <1>4
  <2> QED BY <1>3, <1>6, <2>1, <2>2 DEF KeptParts, VersionsInOrder
<1>12. DraftIsServed'
  <2> SUFFICES ASSUME draft # None, ~Settled
      PROVE  modeTimer' \/ \E i \in SavesOf(draft.id)' : Line'[i].mode = Undrafted(draft)
    BY DEF DraftIsServed, Undrafted, Settled
  <2>1. CASE s # <<>>
    <3>1. n + 1 \in n + 1 .. n + k
      BY <1>3, <2>1
    <3> QED BY <1>4, <1>6, <3>1
  <2>2. CASE s = <<>>
    BY <1>3, <1>6, <2>2 DEF KeptParts, DraftIsServed, SavesOf
  <2> QED BY <2>1, <2>2
<1>13. DialogAlone'
  <2> SUFFICES ASSUME NEW i \in DOMAIN Line', FromBinding(Line'[i])
      PROVE  i = 1 /\ Settled /\ \A j \in DOMAIN Line' : j # i => Line'[j].do = "delete"
    BY DEF DialogAlone, Settled, FromBinding
  <2>1. i \in DOMAIN Line /\ FromBinding(Line[i])
    BY <1>3, <1>4, <1>5 DEF FromBinding
  <2>2. i = 1 /\ Settled /\ \A j \in DOMAIN Line : j # i => Line[j].do = "delete"
    BY <2>1 DEF KeptParts, DialogAlone
  <2> QED BY <1>3, <1>4, <1>5, <2>2
<1>14. CreatesAlone'
  <2> SUFFICES ASSUME NEW i \in DOMAIN Line', Line'[i].do = "create"
      PROVE  Settled /\ \A j \in DOMAIN Line' : Line'[j].do # "delete"
    BY DEF CreatesAlone, Settled
  <2>1. i \in DOMAIN Line /\ Line[i].do = "create"
    BY <1>3, <1>4, <1>5
  <2> QED BY <1>3, <1>4, <1>5, <2>1 DEF KeptParts, CreatesAlone
<1>15. DeletesOne'
  <2> SUFFICES ASSUME NEW i \in DOMAIN Line', Line'[i].do = "delete"
      PROVE  /\ Line'[i].selected <=> Selected = Line'[i].id
             /\ \A j \in DOMAIN Line' : Line'[j].do = "delete" => i = j
    BY DEF DeletesOne, Selected
  <2>1. \A j \in DOMAIN Line' : Line'[j].do = "delete" => j \in DOMAIN Line /\ Line'[j] = Line[j]
    BY <1>3, <1>4, <1>5
  <2> QED BY <2>1 DEF KeptParts, DeletesOne
<1>16. Wished'
  <2>1. (Dialled <=> Dialled') /\ (Dialled => Line'[1] = Line[1])
    <3>1. Line # <<>> <=> n > 0
      BY <1>1, <1>2, LineShape
    <3>2. Line' # <<>> <=> n + k > 0
      BY <1>1, <1>2, <1>3, LineShape, LineGrows
    <3>3. CASE n > 0
      BY <1>3, <3>1, <3>2, <3>3 DEF Dialled, FromBinding
    <3>4. CASE n = 0
      BY <1>3, <1>4, <3>1, <3>2, <3>4 DEF Dialled, FromBinding
    <3> QED BY <1>3, <3>3, <3>4
  <2>2. Stealing' = Stealing
    BY <2>1 DEF Stealing, Conflicting
  <2> QED BY <2>1, <2>2 DEF KeptParts, Wished, Selected, Undrafted
<1>17. CommandWaits'
  <2> SUFFICES ASSUME flow' = flow, flow # None PROVE CommandWaits'
    BY DEF CommandWaits
  <2>1. /\ ~flow.broken /\ draft # None
        /\ \A i \in DOMAIN Line :
             /\ Line[i].do = "save" /\ Line[i].who # "dialog"
             /\ IsFlush(Line[i]) => Line[i].id = draft.id /\ Line[i].mode = Undrafted(draft)
        /\ flow.command.do = "expand" =>
             /\ flow.command.id # draft.id
             /\ list[flow.command.id] # None /\ flow.command.mode = list[flow.command.id]
    BY DEF KeptParts, CommandWaits
  <2>2. \A i \in DOMAIN Line' :
             /\ Line'[i].do = "save" /\ Line'[i].who # "dialog"
             /\ IsFlush(Line'[i]) => Line'[i].id = draft.id /\ Line'[i].mode = Undrafted(draft)
    BY <1>3, <1>4, <1>5, <2>1
  <2> QED BY <2>1, <2>2 DEF CommandWaits, IsFlush, Undrafted
<1> QED BY <1>8, <1>9, <1>10, <1>11, <1>12, <1>13, <1>14, <1>15, <1>16, <1>17 DEF KeptParts

LEMMA NoFlush ==
  ASSUME CallsInd, FlowCounts, flow = None
  PROVE  \A i \in DOMAIN Line : ~IsFlush(Line[i])
<1>1. inbox \in Seq(AllCalls) /\ CallsOf(outbox) \in Seq(AllCalls) /\ Len(CallsOf(outbox)) = Len(outbox)
  BY CallsOfShape DEF CallsInd
<1>2. Flushes(inbox) + Flushes(CallsOf(outbox)) = 0
  BY DEF FlowCounts, FlushCount
<1>3. ASSUME NEW q \in Seq(AllCalls), Flushes(q) = 0 PROVE \A i \in DOMAIN q : ~IsFlush(q[i])
  <2>1. IsFiniteSet({i \in DOMAIN q : IsFlush(q[i])})
    <3>1. IsFiniteSet(1 .. Len(q)) /\ DOMAIN q = 1 .. Len(q)
      BY FS_Interval
    <3> QED BY <3>1, FS_Subset
  <2>2. {i \in DOMAIN q : IsFlush(q[i])} = {}
    BY <1>3, <2>1, FS_EmptySet DEF Flushes
  <2> QED BY <2>2
<1>4. Flushes(inbox) = 0 /\ Flushes(CallsOf(outbox)) = 0
  <2>1. PICK a, b : a = Flushes(inbox) /\ b = Flushes(CallsOf(outbox))
    OBVIOUS
  <2>2. a \in Nat /\ b \in Nat /\ a + b = 0
    BY <1>1, <1>2, <2>1, FlushesNat
  <2> QED BY <2>1, <2>2
<1>5. \A i \in DOMAIN inbox : ~IsFlush(inbox[i])
  BY <1>1, <1>3, <1>4
<1>6. \A i \in DOMAIN CallsOf(outbox) : ~IsFlush(CallsOf(outbox)[i])
  BY <1>1, <1>3, <1>4
<1>7. PICK q, t : q = CallsOf(outbox) /\ t = inbox
  OBVIOUS
<1>8. /\ Line = q \o t /\ q \in Seq(AllCalls) /\ t \in Seq(AllCalls)
  BY <1>1, <1>7 DEF Line
<1>9. /\ DOMAIN (q \o t) = 1 .. Len(q) + Len(t) /\ Len(q) \in Nat /\ Len(t) \in Nat
      /\ \A i \in 1 .. Len(q) : (q \o t)[i] = q[i]
      /\ \A i \in 1 .. Len(t) : (q \o t)[Len(q) + i] = t[i]
  BY <1>8, ConcatShape
<1>10. ASSUME NEW i \in DOMAIN Line PROVE ~IsFlush(Line[i])
  <2>1. CASE i \in 1 .. Len(q)
    BY <1>6, <1>7, <1>8, <1>9, <2>1
  <2>2. CASE i \notin 1 .. Len(q)
    <3>1. i - Len(q) \in 1 .. Len(t) /\ i = Len(q) + (i - Len(q))
      BY <1>8, <1>9, <2>2
    <3>2. Line[i] = t[i - Len(q)] /\ i - Len(q) \in DOMAIN t
      BY <1>8, <1>9, <3>1
    <3> QED BY <1>5, <1>7, <3>2
  <2> QED BY <2>1, <2>2
<1> QED BY <1>10

(* What a save of the open card brings; none is due while it is settled.    *)
LEMMA UnsavedShape ==
  ASSUME EditorInd, KeptParts
  PROVE  /\ ModeUnsaved <=> ~Settled
         /\ PromptUnsaved => ~Settled
         /\ ~Settled => draft # None
         /\ ~Gone
<1>1. PageInd /\ StoreTypes /\ CardOpen
  BY DEF EditorInd, StoreInd, KeptParts
<1>2. draft = None => Settled
  BY <1>1, CardShape
<1>3. ModeUnsaved <=> ~Settled
  BY <1>2 DEF ModeUnsaved, Settled
<1>4. PromptUnsaved => ~Settled
  BY <1>1 DEF PromptUnsaved, Settled, CardOpen
<1> QED BY <1>1, <1>2, <1>3, <1>4 DEF Gone, CardOpen

LEMMA OwnSave ==
  ASSUME EditorInd, KeptParts, ~Settled, NEW who \in {"autosave", "flush", "leave"},
         NEW c, c = ModeSave(who) \/ c = PromptSave(who)
  PROVE  /\ c \in AllCalls /\ <<c>> \in Seq(AllCalls) /\ OwnSaves(<<c>>)
         /\ c.do = "save" /\ c.who = who /\ c.id = draft.id /\ c.mode = Undrafted(draft)
<1>1. draft # None /\ draft \in Drafts /\ Known(draft.id)
  BY UnsavedShape DEF EditorInd, PageInd
<1>2. c \in AllCalls
  BY <1>1, SavesShape DEF ModeSave, PromptSave
<1>3. c.do = "save" /\ c.who = who /\ c.id = draft.id /\ c.mode = Undrafted(draft)
  <2>1. PICK key : c = SaveCall(draft, "reject", key, who)
    BY DEF ModeSave, PromptSave
  <2> QED BY <2>1 DEF SaveCall
<1>4. c.who # "dialog"
  BY <1>3
<1>5. OwnSaves(<<c>>)
  BY <1>1, <1>3, <1>4 DEF OwnSaves
<1> QED BY <1>2, <1>3, <1>5

LEMMA FlushedOwn ==
  ASSUME EditorInd, KeptParts, NEW who \in {"flush", "leave"}, NEW s, s = Flushed(who)
  PROVE  /\ s \in Seq(AllCalls) /\ OwnSaves(s) /\ (s = <<>> <=> Settled)
<1>1. s = (IF ModeUnsaved THEN <<ModeSave(who)>> ELSE <<>>)
            \o (IF PromptUnsaved THEN <<PromptSave(who)>> ELSE <<>>)
  BY UnsavedShape DEF Flushed
<1>2. CASE Settled
  <2>1. s = <<>>
    BY <1>1, <1>2, UnsavedShape
  <2> QED BY <1>2, <2>1 DEF OwnSaves
<1>3. CASE ~Settled
  <2>1. PICK a, b : a = ModeSave(who) /\ b = PromptSave(who)
    OBVIOUS
  <2>2. /\ a \in AllCalls /\ b \in AllCalls /\ draft # None
        /\ \A c \in {a, b} : /\ c.do = "save" /\ c.who # "dialog" /\ c.id = draft.id
                             /\ c.mode = Undrafted(draft)
    BY <1>3, <2>1, OwnSave, UnsavedShape
  <2>3. s = <<a>> \/ s = <<a, b>>
    <3>1. <<a>> \o <<>> = <<a>>
      OBVIOUS
    <3>2. <<a>> \o <<b>> = [i \in 1 .. 2 |-> IF i <= 1 THEN <<a>>[i] ELSE <<b>>[i - 1]]
      OBVIOUS
    <3>3. [i \in 1 .. 2 |-> IF i <= 1 THEN <<a>>[i] ELSE <<b>>[i - 1]] = <<a, b>>
      OBVIOUS
    <3> QED BY <1>1, <1>3, <2>1, <3>1, <3>2, <3>3, UnsavedShape
  <2>4. s \in Seq(AllCalls) /\ s # <<>> /\ \A i \in DOMAIN s : s[i] \in {a, b}
    <3>1. CASE s = <<a>>
      BY <2>2, <3>1
    <3>2. CASE s = <<a, b>>
      BY <2>2, <3>2
    <3> QED BY <2>3, <3>1, <3>2
  <2> QED BY <1>3, <2>2, <2>4 DEF OwnSaves
<1> QED BY <1>2, <1>3

LEMMA AppendIsConcat ==
  ASSUME CallsInd, NEW c, inbox' = Append(inbox, c)
  PROVE  inbox' = inbox \o <<c>>
BY DEF CallsInd

(* The steps that send nothing and change none of this.                     *)
LEMMA RestKept ==
  ASSUME EditorInd, KeptParts, CallsInd',
         UNCHANGED <<store, list, inbox, outbox, robbed, wish, draft, persistedMode, persistedPrompt,
                     modeTimer, flow>>
  PROVE  KeptParts'
<1>1. PICK s : s = <<>>
  OBVIOUS
<1>2. s \in Seq(AllCalls) /\ OwnSaves(s)
  BY <1>1 DEF OwnSaves
<1>3. inbox' = inbox \o s
  BY <1>1 DEF EditorInd, CallsInd
<1> QED BY <1>2, <1>3, SendsKept

LEMMA TimersKept ==
  ASSUME EditorInd, KeptParts, CallsInd', TimerFires
  PROVE  KeptParts'
<1>1. /\ UNCHANGED <<store, list, outbox, robbed, wish, draft, persistedMode, persistedPrompt, flow>>
      /\ AutosaveFires /\ CallsInd
  BY DEF TimerFires, storeVars, historyVars, EditorInd
<1>2. ASSUME NEW c, ~Settled, c = ModeSave("autosave") \/ c = PromptSave("autosave"),
             inbox' = Append(inbox, c)
      PROVE  KeptParts'
  <2>1. PICK s : s = <<c>>
    OBVIOUS
  <2>2. s \in Seq(AllCalls) /\ OwnSaves(s) /\ s # <<>> /\ inbox' = inbox \o s
    BY <1>1, <1>2, <2>1, OwnSave, AppendIsConcat
  <2> QED BY <1>1, <2>2, SendsKept
<1>3. ASSUME UNCHANGED inbox, Settled \/ UNCHANGED modeTimer
      PROVE  KeptParts'
  <2>1. PICK s : s = <<>>
    OBVIOUS
  <2>2. s \in Seq(AllCalls) /\ OwnSaves(s) /\ inbox' = inbox \o s
    BY <1>1, <1>3, <2>1 DEF OwnSaves, CallsInd
  <2> QED BY <1>1, <1>3, <2>2, SendsKept
<1>4. \/ UNCHANGED inbox /\ (Settled \/ UNCHANGED modeTimer)
      \/ ~Settled /\ (inbox' = Append(inbox, ModeSave("autosave")) \/ inbox' = Append(inbox, PromptSave("autosave")))
  BY <1>1, UnsavedShape DEF AutosaveFires
<1> QED BY <1>2, <1>3, <1>4

LEMMA LeaveKept ==
  ASSUME EditorInd, KeptParts, CallsInd', LeavePage
  PROVE  KeptParts'
<1>1. /\ UNCHANGED <<store, list, outbox, robbed, wish, draft, persistedMode, persistedPrompt, flow>>
  BY DEF LeavePage, Act, storeVars
<1>2. PICK s : s = Flushed("leave")
  OBVIOUS
<1>3. s \in Seq(AllCalls) /\ OwnSaves(s) /\ inbox' = inbox \o s /\ (s # <<>> \/ Settled)
  BY <1>2, FlushedOwn DEF LeavePage
<1> QED BY <1>1, <1>3, SendsKept

LEMMA NothingMet ==
  ASSUME CallsInd
  PROVE  /\ \A do : Calls(do) = {} => \A i \in DOMAIN Line : Line[i].do # do
         /\ FromDialog = {} => \A i \in DOMAIN Line : ~FromBinding(Line[i])
         /\ Overwriting = {} => \A i \in DOMAIN Line : Line[i].do = "save" => Line[i].adopt = "same mode key"
         /\ InFlight = {} => Line = <<>> /\ outbox = <<>> /\ inbox = <<>>
<1>1. \A i \in DOMAIN Line : Line[i] \in InFlight
  BY LineShape
<1>2. InFlight = {} => Line = <<>> /\ outbox = <<>> /\ inbox = <<>>
  <2> SUFFICES ASSUME InFlight = {} PROVE Line = <<>> /\ outbox = <<>> /\ inbox = <<>>
    OBVIOUS
  <2>1. Line \in Seq(AllCalls) /\ outbox \in Seq(Replies) /\ inbox \in Seq(AllCalls)
    BY LineShape DEF CallsInd
  <2>2. DOMAIN Line = {}
    BY <1>1
  <2>3. DOMAIN outbox = {} /\ DOMAIN inbox = {}
    BY DEF InFlight
  <2> QED BY <2>1, <2>2, <2>3
<1> QED BY <1>1, <1>2 DEF Calls, FromDialog, Overwriting, FromBinding

(* A command that flushes first and waits.                                  *)
LEMMA WaitsKept ==
  ASSUME EditorInd, KeptParts, CallsInd', NEW g, Command(g), ~Settled,
         UNCHANGED <<store, list, outbox, robbed, wish>>,
         FromDialog = {}, Calls("delete") = {}, Calls("create") = {},
         g.do = "expand" => g.id # Selected /\ list[g.id] # None /\ g.mode = list[g.id]
  PROVE  KeptParts'
<1>1. PICK s : s = Flushed("flush")
  OBVIOUS
<1>2. s \in Seq(AllCalls) /\ OwnSaves(s) /\ s # <<>>
  BY <1>1, FlushedOwn
<1>3. /\ flow = None /\ UNCHANGED <<draft, persistedMode, persistedPrompt>> /\ inbox' = inbox \o s
      /\ flow' = [command |-> g, left |-> Len(s), broken |-> FALSE]
  BY <1>1, <1>2, UnsavedShape DEF Command
<1>4. CallsInd /\ FlowCounts /\ PageInd /\ StoreTypes /\ CardOpen
  BY DEF EditorInd, StoreInd, KeptParts
<1>5. draft # None /\ Selected = draft.id
  BY <1>4, UnsavedShape, CardShape
<1>6. ASSUME NEW i \in DOMAIN Line
      PROVE  Line[i].do = "save" /\ Line[i].who # "dialog" /\ ~IsFlush(Line[i])
  <2>1. Line[i].do # "delete" /\ Line[i].do # "create" /\ ~FromBinding(Line[i]) /\ ~IsFlush(Line[i])
    BY <1>3, <1>4, NothingMet, NoFlush
  <2>2. Line[i] \in AllCalls
    BY <1>4, LineShape
  <2> QED BY <2>1, <2>2, CallShape DEF FromBinding
<1>7. ASSUME NEW i \in DOMAIN Line'
      PROVE  /\ Line'[i].do = "save" /\ Line'[i].who # "dialog"
             /\ IsFlush(Line'[i]) => Line'[i].id = draft.id /\ Line'[i].mode = Undrafted(draft)
  <2>1. PICK n, k : n = Len(Line) /\ k = Len(s)
    OBVIOUS
  <2>2. /\ n \in Nat /\ k \in Nat /\ DOMAIN Line = 1 .. n /\ DOMAIN Line' = 1 .. n + k
        /\ \A j \in DOMAIN Line : Line'[j] = Line[j]
        /\ \A j \in 1 .. k : Line'[n + j] = s[j]
        /\ DOMAIN s = 1 .. k
    <3>1. /\ Len(s) \in Nat /\ DOMAIN Line' = 1 .. Len(Line) + Len(s)
          /\ \A j \in DOMAIN Line : Line'[j] = Line[j]
          /\ \A j \in 1 .. Len(s) : Line'[Len(Line) + j] = s[j]
      BY <1>2, <1>3, <1>4, LineGrows
    <3>2. Len(Line) \in Nat /\ DOMAIN Line = 1 .. Len(Line)
      BY <1>4, LineShape
    <3>3. DOMAIN s = 1 .. Len(s)
      BY <1>2
    <3> QED BY <2>1, <3>1, <3>2, <3>3
  <2>3. CASE i <= n
    BY <1>6, <2>2, <2>3
  <2>4. CASE i > n
    <3>0. i - n \in 1 .. k /\ i = n + (i - n)
      BY <2>2, <2>4
    <3>1. PICK j \in 1 .. k : j = i - n /\ i = n + j
      BY <3>0
    <3>2. j \in DOMAIN s /\ Line'[i] = s[j]
      BY <2>2, <3>1
    <3> QED BY <1>2, <3>2 DEF OwnSaves
  <2> QED BY <2>2, <2>3, <2>4
<1>8. CommandWaits'
  <2>1. PICK f : f = flow'
    OBVIOUS
  <2>2. f.command = g /\ ~f.broken
    BY <1>3, <2>1
  <2>3. g.do = "expand" => g.id # draft.id /\ list[g.id] # None /\ g.mode = list[g.id]
    BY <1>5
  <2> QED BY <1>3, <1>5, <1>7, <2>1, <2>2, <2>3 DEF CommandWaits, IsFlush, Undrafted
<1> QED BY <1>2, <1>3, <1>8, SendsKept

(* No command waits, nothing in flight is a dialog's save or a deletion,    *)
(* and every card could be closed without losing anything.                  *)
Rests ==
  /\ AllAnswered /\ flow = None
  /\ \A i \in DOMAIN Line : ~FromBinding(Line[i]) /\ Line[i].do # "delete"
  /\ \A m \in Modes : list[m] # None => \A i \in SavesOf(m) : Line[i].mode = list[m]
  /\ \A m \in Modes \ robbed : list[m] # None => wish[m] = list[m]

(* Then any card may be open as it is listed, or none.                      *)
LEMMA SelectKept ==
  ASSUME EditorInd', Rests', persistedMode' = draft', persistedPrompt' = PromptKey(draft'),
         NEW m, draft' # None => m \in Modes /\ list'[m] # None /\ draft' = Drafted(m, list'[m])
  PROVE  KeptParts'
<1>1. /\ \A n \in Modes : list'[n] # None => list'[n] \in Mode
      /\ \A i \in DOMAIN Line' : Line'[i] \in AllCalls
      /\ Line' = <<>> \/ 1 \in DOMAIN Line'
  <2>1. list' \in [Modes -> Mode \cup {None}]
    BY DEF EditorInd, StoreInd, StoreTypes
  <2>2. Line' \in Seq(AllCalls)
    <3>1. inbox' \in Seq(AllCalls) /\ outbox' \in Seq(Replies)
      BY DEF EditorInd, CallsInd
    <3>2. CallsOf(outbox') \in Seq(AllCalls)
      BY <3>1, CallsOfShape
    <3> QED BY <3>1, <3>2 DEF Line, CallsOf
  <2> QED BY <2>1, <2>2
<1>2. draft' # None => /\ draft'.id = m /\ Undrafted(draft') = list'[m] /\ Selected' = m
                       /\ m \in Modes /\ list'[m] # None
                       /\ draft' = Drafted(m, list'[m])
                       /\ \A i \in SavesOf(m)' : Line'[i].mode = list'[m]
  <2> SUFFICES ASSUME draft' # None
      PROVE  /\ draft'.id = m /\ Undrafted(draft') = list'[m] /\ Selected' = m
             /\ \A i \in SavesOf(m)' : Line'[i].mode = list'[m]
    OBVIOUS
  <2>1. list'[m] \in Mode
    BY <1>1
  <2>2. draft'.id = m /\ Undrafted(draft') = list'[m]
    BY <2>1, DraftOfMode
  <2> QED BY <2>2 DEF Selected, Rests
<1>3. AllAnswered' /\ CardOpen'
  BY <1>2 DEF Rests, CardOpen
<1>4. ClosedCards'
  BY DEF ClosedCards, Rests
<1>5. PromptsMatch'
  <2> SUFFICES ASSUME draft' # None, NEW i \in SavesOf(m)'
      PROVE  Line'[i].mode.name = draft'.name /\ Line'[i].mode.chord = draft'.chord
    BY <1>2 DEF PromptsMatch, SavesOf
  <2>1. Line'[i].mode = Undrafted(draft')
    BY <1>2
  <2> QED BY <2>1 DEF Undrafted
<1>6. VersionsInOrder'
  BY <1>2 DEF VersionsInOrder, SavesOf, Undrafted
<1>7. DraftIsServed'
  BY DEF DraftIsServed, Settled
<1>8. DialogAlone' /\ CommandWaits' /\ CreatesAlone' /\ DeletesOne'
  BY DEF DialogAlone, CommandWaits, CreatesAlone, DeletesOne, Rests, Settled, FromBinding
<1>9. Wished'
  <2>1. ~Dialled'
    BY <1>1 DEF Dialled, Rests, FromBinding
  <2>2. Stealing' = {}
    BY <2>1 DEF Stealing
  <2>3. \A n \in Modes : Selected' = n => draft' # None /\ n = m
    BY <1>2, NoneAssumption DEF Selected
  <2> QED BY <1>2, <2>1, <2>2, <2>3 DEF Wished, Rests, Undrafted
<1> QED BY <1>3, <1>4, <1>5, <1>6, <1>7, <1>8, <1>9 DEF KeptParts

LEMMA RestsNow ==
  ASSUME EditorInd, KeptParts, Settled, flow = None,
         \A i \in DOMAIN Line : ~FromBinding(Line[i]) /\ Line[i].do # "delete"
  PROVE  Rests
<1>1. CallsInd /\ PageInd /\ StoreTypes /\ CardOpen
  BY DEF EditorInd, StoreInd, KeptParts
<1>2. ASSUME NEW m \in Modes, list[m] # None
      PROVE  /\ \A i \in SavesOf(m) : Line[i].mode = list[m]
             /\ m \notin robbed => wish[m] = list[m]
  <2>1. Selected = m => draft # None /\ draft.id = m /\ Undrafted(draft) = list[m]
    BY <1>1, CardShape
  <2>2. \A i \in SavesOf(m) : Line[i].mode = list[m]
    BY <1>2, <2>1 DEF KeptParts, ClosedCards, VersionsInOrder
  <2>3. ~Dialled
    BY <1>1, LineHead DEF Dialled
  <2>4. Stealing = {}
    BY <2>3 DEF Stealing
  <2> QED BY <1>2, <2>1, <2>2, <2>3, <2>4 DEF KeptParts, Wished
<1> QED BY <1>2 DEF Rests, KeptParts

LEMMA RestsAfter ==
  ASSUME EditorInd, EditorInd', KeptParts, Settled, flow = None, flow' = None,
         \A i \in DOMAIN Line : ~FromBinding(Line[i]) /\ Line[i].do # "delete",
         UNCHANGED <<list, outbox, robbed, wish>>,
         NEW s \in Seq(AllCalls), inbox' = inbox \o s, \A i \in DOMAIN s : s[i].do = "create"
  PROVE  Rests'
<1>1. CallsInd /\ CallsInd' /\ PageInd /\ StoreTypes /\ CardOpen
  BY DEF EditorInd, StoreInd, KeptParts
<1>2. PICK n, k : n = Len(Line) /\ k = Len(s)
  OBVIOUS
<1>3. /\ n \in Nat /\ k \in Nat /\ DOMAIN Line = 1 .. n /\ DOMAIN Line' = 1 .. n + k
      /\ \A i \in 1 .. n : Line'[i] = Line[i]
      /\ \A i \in 1 .. k : Line'[n + i] = s[i]
      /\ DOMAIN s = 1 .. k
  <2>1. k \in Nat /\ DOMAIN s = 1 .. k
    BY <1>2
  <2>2. /\ DOMAIN Line' = 1 .. Len(Line) + Len(s)
        /\ \A i \in DOMAIN Line : Line'[i] = Line[i]
        /\ \A i \in 1 .. Len(s) : Line'[Len(Line) + i] = s[i]
    BY <1>1, LineGrows
  <2>3. Len(Line) \in Nat /\ DOMAIN Line = 1 .. Len(Line)
    BY <1>1, LineShape
  <2> QED BY <1>2, <2>1, <2>2, <2>3
<1>4. ASSUME NEW i \in DOMAIN Line', i \notin DOMAIN Line PROVE Line'[i].do = "create"
  <2>1. i - n \in 1 .. k /\ i = n + (i - n)
    BY <1>3, <1>4
  <2>2. PICK j \in 1 .. k : j = i - n /\ i = n + j
    BY <2>1
  <2> QED BY <1>3, <2>2
<1>5. /\ \A i \in DOMAIN Line' : i \in DOMAIN Line => Line'[i] = Line[i]
      /\ \A m : \A i \in SavesOf(m)' : i \in SavesOf(m) /\ Line'[i] = Line[i]
  BY <1>3, <1>4 DEF SavesOf
<1>6. Rests
  BY RestsNow
<1>7. \A m \in Modes : list'[m] # None => \A i \in SavesOf(m)' : Line'[i].mode = list'[m]
  BY <1>5, <1>6 DEF Rests
<1>8. \A m \in Modes \ robbed' : list'[m] # None => wish'[m] = list'[m]
  BY <1>6 DEF Rests
<1>9. \A i \in DOMAIN Line' : ~FromBinding(Line'[i]) /\ Line'[i].do # "delete"
  BY <1>4, <1>5 DEF FromBinding
<1> QED BY <1>7, <1>8, <1>9 DEF Rests, KeptParts, AllAnswered, FromBinding

(* A command with nothing to flush.                                         *)
LEMMA ProceedsKept ==
  ASSUME EditorInd, EditorInd', KeptParts, NEW g, Command(g), Settled,
         UNCHANGED <<list, outbox, robbed, wish>>,
         FromDialog = {}, Calls("delete") = {}, Calls("create") = {},
         g.do \in {"collapse", "expand", "create"},
         g.do = "expand" => g.id \in Modes /\ list[g.id] # None /\ g.mode = list[g.id]
  PROVE  KeptParts'
<1>1. CallsInd /\ PageInd /\ StoreTypes /\ CardOpen
  BY DEF EditorInd, StoreInd, KeptParts
<1>2. flow = None /\ flow' = None /\ Proceed(g) /\ inbox' = inbox \o Follows(g)
  BY FlushedOwn, UnsavedShape DEF Command
<1>3. PICK s : s = Follows(g)
  OBVIOUS
<1>4. s \in Seq(AllCalls) /\ \A i \in DOMAIN s : s[i].do = "create"
  <2>1. CASE g.do = "create"
    <3>1. PICK c : c = [do |-> "create", id |-> None, who |-> "page"]
      OBVIOUS
    <3>2. c \in AllCalls /\ c.do = "create" /\ s = <<c>>
      BY <1>3, <2>1, <3>1 DEF Follows, AllCalls, Creates
    <3> QED BY <3>2
  <2>2. CASE g.do # "create"
    BY <1>3, <2>2 DEF Follows
  <2> QED BY <2>1, <2>2
<1>5. \A i \in DOMAIN Line : ~FromBinding(Line[i]) /\ Line[i].do # "delete"
  BY <1>1, NothingMet
<1>6. Rests'
  BY <1>2, <1>3, <1>4, <1>5, RestsAfter
<1>7. CASE g.do = "create"
  <2>1. UNCHANGED <<draft, persistedMode, persistedPrompt>>
    BY <1>2, <1>7 DEF Proceed
  <2>2. PICK m : m = draft.id
    OBVIOUS
  <2>3. persistedMode = draft /\ persistedPrompt = PromptKey(draft)
    BY <1>1 DEF Settled, CardOpen, PageInd, PromptKey
  <2>4. draft # None => m \in Modes /\ list[m] # None /\ draft = Drafted(m, list[m])
    BY <1>1, <2>2, <2>3, CardShape DEF CardOpen
  <2> QED BY <1>6, <2>1, <2>3, <2>4, SelectKept DEF PromptKey
<1>8. CASE g.do = "collapse"
  <2>1. draft' = None /\ persistedMode' = None /\ persistedPrompt' = PromptKey(None)
    BY <1>2, <1>8 DEF Proceed, Select
  <2> QED BY <1>6, <2>1, SelectKept DEF PromptKey
<1>9. CASE g.do = "expand"
  <2>1. PICK m, d : m = g.id /\ d = Drafted(g.id, g.mode)
    OBVIOUS
  <2>2. draft' = d /\ persistedMode' = d /\ persistedPrompt' = PromptKey(d)
    BY <1>2, <1>9, <2>1 DEF Proceed, Select
  <2>3. m \in Modes /\ list'[m] # None /\ d = Drafted(m, list'[m])
    BY <1>9, <2>1
  <2> QED BY <1>6, <2>2, <2>3, SelectKept DEF PromptKey
<1> QED BY <1>7, <1>8, <1>9

LEMMA CommandsKept ==
  ASSUME EditorInd, EditorInd', KeptParts, ~crossed', Create \/ \E m \in Modes : Toggle(m)
  PROVE  KeptParts'
<1>1. PICK g : /\ Command(g) /\ g.do \in {"collapse", "expand", "create"}
               /\ UNCHANGED <<store, list, outbox, robbed, wish>>
               /\ FromDialog = {} /\ Calls("delete") = {} /\ Calls("create") = {}
               /\ g.do = "expand" => /\ g.id \in Modes /\ g.id # Selected /\ list[g.id] # None
                                     /\ g.mode = list[g.id]
  <2>1. CASE Create
    <3>1. PICK g : g = [do |-> "create"]
      OBVIOUS
    <3>2. g.do = "create"
      BY <3>1
    <3> QED BY <2>1, <3>1, <3>2 DEF Create, Crossing, Act, storeVars
  <2>2. ASSUME NEW m \in Modes, Toggle(m), m = Selected
        PROVE  \E g : /\ Command(g) /\ g.do = "collapse"
                      /\ UNCHANGED <<store, list, outbox, robbed, wish>>
                      /\ FromDialog = {} /\ Calls("delete") = {} /\ Calls("create") = {}
    <3>1. PICK g : g = [do |-> "collapse"]
      OBVIOUS
    <3>2. g.do = "collapse"
      BY <3>1
    <3> QED BY <2>2, <3>1, <3>2 DEF Toggle, Crossing, Act, storeVars
  <2>3. ASSUME NEW m \in Modes, Toggle(m), m # Selected
        PROVE  \E g : /\ Command(g) /\ g.do = "expand" /\ g.id = m /\ g.mode = list[m]
                      /\ list[m] # None
                      /\ UNCHANGED <<store, list, outbox, robbed, wish>>
                      /\ FromDialog = {} /\ Calls("delete") = {} /\ Calls("create") = {}
    <3>1. PICK g : g = [do |-> "expand", id |-> m, mode |-> list[m]]
      OBVIOUS
    <3>2. g.do = "expand" /\ g.id = m /\ g.mode = list[m]
      BY <3>1
    <3> QED BY <2>3, <3>1, <3>2 DEF Toggle, Crossing, Act, storeVars
  <2> QED BY <2>1, <2>2, <2>3
<1>2. CallsInd'
  BY DEF EditorInd
<1> QED BY <1>1, <1>2, WaitsKept, ProceedsKept

LEMMA EditKept ==
  ASSUME EditorInd, KeptParts, draft # None, NEW e \in Drafts, e.id = draft.id, draft' = e,
         UNCHANGED <<store, list, inbox, outbox, robbed, persistedMode, persistedPrompt, flow>>,
         modeTimer' = (e # persistedMode), flow = None,
         \A i \in DOMAIN Line : Line[i].do = "save" /\ ~FromBinding(Line[i]),
         \A i \in DOMAIN Line : e # persistedMode /\ Undrafted(e) # Line[i].mode,
         (\A i \in DOMAIN Line : Line[i].adopt = "same mode key")
           \/ (e.name = draft.name /\ e.chord = draft.chord),
         NEW v \in Mode, NEW m, m = draft.id, wish' = [wish EXCEPT ![m] = v],
         wish[m] = Undrafted(draft) => v = Undrafted(e)
  PROVE  KeptParts'
<1>1. /\ CallsInd /\ PageInd /\ StoreTypes /\ CardOpen
      /\ wish \in [Modes -> Mode \cup {None}]
  BY DEF EditorInd, StoreInd, KeptParts, PageInd
<1>2. /\ Line' = Line /\ m \in Modes /\ Selected = m /\ Selected' = m /\ e # None
      /\ \A n : SavesOf(n)' = SavesOf(n)
  <2>1. Line' = Line
    BY DEF Line, CallsOf
  <2>2. m \in Modes /\ Selected = m /\ e # None
    BY <1>1, NoneAssumption, CardShape
  <2> QED BY <2>1, <2>2 DEF Selected, SavesOf
<1>3. \A n \in Modes \ {m} : Selected # n
  BY <1>2
<1>4. AllAnswered' /\ CardOpen' /\ ClosedCards'
  BY <1>2 DEF KeptParts, AllAnswered, CardOpen, ClosedCards
<1>5. PromptsMatch'
  <2> SUFFICES ASSUME NEW i \in SavesOf(m), Line[i].adopt = "same prompt key"
      PROVE  Line[i].mode.name = e.name /\ Line[i].mode.chord = e.chord
    BY <1>2 DEF PromptsMatch
  <2>1. i \in DOMAIN Line
    BY DEF SavesOf
  <2>2. Line[i].mode.name = draft.name /\ Line[i].mode.chord = draft.chord
    BY DEF KeptParts, PromptsMatch
  <2>3. e.name = draft.name /\ e.chord = draft.chord
    BY <2>1
  <2> QED BY <2>2, <2>3
<1>6. VersionsInOrder'
  <2>1. \A i \in SavesOf(m) : i \in DOMAIN Line
    BY DEF SavesOf
  <2>2. Undrafted(draft)' = Undrafted(e)
    BY DEF Undrafted
  <2>3. Settled' <=> e = persistedMode
    BY DEF Settled
  <2> QED BY <1>2, <2>1, <2>2, <2>3 DEF VersionsInOrder
<1>7. DraftIsServed'
  BY DEF DraftIsServed, Settled
<1>8. DialogAlone' /\ CommandWaits' /\ CreatesAlone' /\ DeletesOne'
  BY <1>2 DEF DialogAlone, CommandWaits, CreatesAlone, DeletesOne, FromBinding
<1>9. Wished'
  <2>1. ~Dialled /\ ~Dialled'
    BY <1>1, <1>2, LineHead DEF Dialled, FromBinding
  <2>2. Stealing = {} /\ Stealing' = {}
    BY <2>1 DEF Stealing
  <2>3. list[m] # None
    BY <1>1 DEF CardOpen
  <2>4. \A n \in Modes \ {m} : wish'[n] = wish[n]
    BY <1>1
  <2>5. wish'[m] = v
    BY <1>1, <1>2
  <2>6. m \notin robbed => wish[m] = Undrafted(draft)
    BY <1>2, <2>1, <2>2, <2>3 DEF KeptParts, Wished
  <2>7. Undrafted(draft)' = Undrafted(e)
    BY DEF Undrafted
  <2>8. \A n \in Modes \ (robbed \cup {m}) : list[n] # None => wish[n] = list[n]
    BY <1>3, <2>1, <2>2 DEF KeptParts, Wished
  <2> QED BY <1>2, <2>1, <2>2, <2>4, <2>5, <2>6, <2>7, <2>8 DEF Wished
<1> QED BY <1>4, <1>5, <1>6, <1>7, <1>8, <1>9 DEF KeptParts

LEMMA EditsKept ==
  ASSUME EditorInd, KeptParts, ~crossed',
         (\E name \in Names : EditName(name)) \/ (\E body \in Bodies : EditBody(body))
  PROVE  KeptParts'
<1>1. PICK m, d : m = draft.id /\ d = draft
  OBVIOUS
<1>2. /\ CallsInd /\ PageInd /\ StoreTypes /\ CardOpen
      /\ wish \in [Modes -> Mode \cup {None}]
      /\ \A o \in Modes : wish[o] = None <=> list[o] = None
  BY DEF EditorInd, StoreInd, KeptParts, PageInd
<1>3. ASSUME d # None, list[m] # None
      PROVE  d \in Drafts /\ m \in Modes /\ wish[m] \in Mode
  BY <1>1, <1>2, <1>3, CardShape
<1>4. ASSUME NEW e \in Drafts, e.id = draft.id, Edit(e), Act, draft # None,
             NEW o, EditCrosses(e, o), o = {} => FromDialog = {},
             o = {} => (\A i \in DOMAIN Line : Line[i].do = "save" => Line[i].adopt = "same mode key")
                         \/ (e.name = draft.name /\ e.chord = draft.chord),
             NEW v \in Mode, wish' = [wish EXCEPT ![m] = v],
             wish[m] = Undrafted(draft) => v = Undrafted(e)
      PROVE  KeptParts'
  <2>1. /\ o = {} /\ flow = None /\ Calls("delete") = {} /\ Calls("create") = {}
        /\ \A call \in Calls("save") : e # persistedMode /\ Undrafted(e) # call.mode
    BY <1>4 DEF EditCrosses, Crossing
  <2>2. ASSUME NEW i \in DOMAIN Line
        PROVE  /\ Line[i].do = "save" /\ ~FromBinding(Line[i])
               /\ e # persistedMode /\ Undrafted(e) # Line[i].mode
    <3>1. Line[i] \in AllCalls /\ Line[i] \in InFlight
      BY <1>2, LineShape
    <3>2. Line[i].do # "delete" /\ Line[i].do # "create" /\ ~FromBinding(Line[i])
      BY <1>2, <1>4, <2>1, NothingMet
    <3>3. Line[i].do = "save"
      BY <3>1, <3>2, CallShape
    <3> QED BY <2>1, <3>1, <3>2, <3>3 DEF Calls
  <2>3. (\A i \in DOMAIN Line : Line[i].adopt = "same mode key")
           \/ (e.name = draft.name /\ e.chord = draft.chord)
    BY <1>4, <2>1, <2>2
  <2>4. /\ draft' = e /\ modeTimer' = (e # persistedMode)
        /\ UNCHANGED <<store, list, inbox, outbox, robbed, persistedMode, persistedPrompt, flow>>
    <3>1. e # None
      BY NoneAssumption
    <3> QED BY <1>4, <3>1 DEF Edit, Act, storeVars, Rearm
  <2> QED BY <1>1, <1>4, <2>1, <2>2, <2>3, <2>4, EditKept
<1>5. ASSUME NEW name \in Names, EditName(name) PROVE KeptParts'
  <2>1. /\ Act /\ draft # None /\ list[draft.id] # None
        /\ Edit([draft EXCEPT !.name = name])
        /\ wish' = [wish EXCEPT ![draft.id].name = name]
        /\ EditCrosses([draft EXCEPT !.name = name], Overwriting)
    BY <1>5 DEF EditName
  <2>2. m \in Modes /\ wish[m] \in Mode /\ d \in Drafts
    BY <1>1, <1>3, <2>1
  <2>3. PICK v, e, o : /\ v = [wish[m] EXCEPT !.name = name] /\ e = [draft EXCEPT !.name = name]
                       /\ o = Overwriting
    OBVIOUS
  <2>4. v \in Mode /\ e \in Drafts /\ e.id = draft.id
    BY <1>1, <2>2, <2>3, ModeEdited, DraftEdited
  <2>5. wish' = [wish EXCEPT ![m] = v]
    BY <1>1, <2>1, <2>3
  <2>6. wish[m] = Undrafted(draft) => v = Undrafted(e)
    BY <1>1, <2>2, <2>3 DEF Undrafted, Mode, Drafts
  <2>7. o = {} => /\ FromDialog = {}
                  /\ \A i \in DOMAIN Line : Line[i].do = "save" => Line[i].adopt = "same mode key"
    <3> SUFFICES ASSUME Overwriting = {}
        PROVE  /\ FromDialog = {}
               /\ \A i \in DOMAIN Line : Line[i].do = "save" => Line[i].adopt = "same mode key"
      BY <2>3
    <3>1. \A call \in InFlight : call \in AllCalls
      BY <1>2, OutboxShape DEF InFlight, CallsInd
    <3>2. FromDialog = {}
      BY <3>1, SaveShape DEF FromDialog, Overwriting, Calls
    <3> QED BY <1>2, <3>2, NothingMet
  <2> QED BY <2>1, <2>3, <2>4, <2>5, <2>6, <2>7, <1>4
<1>6. ASSUME NEW body \in Bodies, EditBody(body) PROVE KeptParts'
  <2>1. /\ Act /\ draft # None /\ list[draft.id] # None
        /\ Edit([draft EXCEPT !.body = body])
        /\ wish' = [wish EXCEPT ![draft.id].body = body]
        /\ EditCrosses([draft EXCEPT !.body = body], FromDialog)
    BY <1>6 DEF EditBody
  <2>2. m \in Modes /\ wish[m] \in Mode /\ d \in Drafts
    BY <1>1, <1>3, <2>1
  <2>3. PICK v, e, o : /\ v = [wish[m] EXCEPT !.body = body] /\ e = [draft EXCEPT !.body = body]
                       /\ o = FromDialog
    OBVIOUS
  <2>4. v \in Mode /\ e \in Drafts /\ e.id = draft.id
    BY <1>1, <2>2, <2>3, ModeEdited, DraftEdited
  <2>5. wish' = [wish EXCEPT ![m] = v]
    BY <1>1, <2>1, <2>3
  <2>6. wish[m] = Undrafted(draft) => v = Undrafted(e)
    BY <1>1, <2>2, <2>3 DEF Undrafted, Mode, Drafts
  <2>7. e.name = draft.name /\ e.chord = draft.chord
    BY <1>1, <2>2, <2>3 DEF Drafts
  <2> QED BY <2>1, <2>3, <2>4, <2>5, <2>6, <2>7, <1>4
<1> QED BY <1>5, <1>6

(* A call that is answered keeps its place.                                 *)
LEMMA LineAnswered ==
  ASSUME CallsInd, inbox # <<>>, inbox' = Tail(inbox), NEW c \in AllCalls,
         outbox' = Append(outbox, [call |-> c, ok |-> TRUE])
  PROVE  LET k == Len(outbox) + 1 IN
         /\ k \in DOMAIN Line /\ DOMAIN Line' = DOMAIN Line
         /\ Line[k] = Head(inbox) /\ Line'[k] = c
         /\ \A i \in DOMAIN Line : i # k => Line'[i] = Line[i]
         /\ Line # <<>> /\ Line' # <<>>
<1>1. PICK q, t, x : q = CallsOf(outbox) /\ t = inbox /\ x = [call |-> c, ok |-> TRUE]
  OBVIOUS
<1>2. /\ q \in Seq(AllCalls) /\ t \in Seq(AllCalls) /\ Len(q) = Len(outbox) /\ t # <<>>
      /\ CallsOf(outbox') = Append(q, c)
  <2>1. x \in Replies /\ x.call = c /\ outbox \in Seq(Replies)
    BY <1>1 DEF Replies, CallsInd
  <2> QED BY <1>1, <2>1, CallsOfShape DEF CallsInd
<1>3. Line = q \o t /\ Line' = Append(q, c) \o Tail(t)
  BY <1>1, <1>2 DEF Line, CallsOf
<1>4. /\ Append(q, c) \in Seq(AllCalls) /\ Tail(t) \in Seq(AllCalls)
      /\ Len(Append(q, c)) = Len(q) + 1 /\ Len(Tail(t)) = Len(t) - 1 /\ Len(t) \in Nat /\ Len(t) > 0
      /\ Len(q) \in Nat
      /\ \A i \in 1 .. Len(q) : Append(q, c)[i] = q[i]
      /\ Append(q, c)[Len(q) + 1] = c
      /\ \A i \in 1 .. Len(t) - 1 : Tail(t)[i] = t[i + 1]
      /\ Head(t) = t[1]
  BY <1>2
<1>5. /\ DOMAIN (q \o t) = 1 .. Len(q) + Len(t)
      /\ \A i \in 1 .. Len(q) : (q \o t)[i] = q[i]
      /\ \A i \in 1 .. Len(t) : (q \o t)[Len(q) + i] = t[i]
  <2>1. q \in Seq(AllCalls) /\ t \in Seq(AllCalls)
    BY <1>2
  <2> QED BY <2>1, ConcatShape
<1>6. PICK u, v : u = Append(q, c) /\ v = Tail(t)
  OBVIOUS
<1>7. /\ DOMAIN (u \o v) = 1 .. Len(u) + Len(v)
      /\ \A i \in 1 .. Len(u) : (u \o v)[i] = u[i]
      /\ \A i \in 1 .. Len(v) : (u \o v)[Len(u) + i] = v[i]
  BY <1>4, <1>6, ConcatShape
<1>8. PICK k : k = Len(q) + 1
  OBVIOUS
<1>9. k \in DOMAIN Line /\ DOMAIN Line' = DOMAIN Line /\ k \in Nat
  BY <1>3, <1>4, <1>5, <1>6, <1>7, <1>8
<1>10. Line[k] = t[1] /\ Line'[k] = c
  <2>1. (q \o t)[Len(q) + 1] = t[1]
    BY <1>4, <1>5
  <2>2. (u \o v)[k] = u[k]
    BY <1>4, <1>6, <1>7, <1>8
  <2> QED BY <1>3, <1>4, <1>6, <1>8, <2>1, <2>2
<1>11. ASSUME NEW i \in DOMAIN Line, i # k PROVE Line'[i] = Line[i]
  <2>1. CASE i <= Len(q)
    <3>1. i \in 1 .. Len(q) /\ i \in 1 .. Len(u)
      BY <1>3, <1>4, <1>5, <1>6, <2>1
    <3> QED BY <1>3, <1>4, <1>5, <1>6, <1>7, <3>1
  <2>2. CASE i > Len(q)
    <3>1. /\ i - Len(q) \in 1 .. Len(t) /\ i = Len(q) + (i - Len(q))
          /\ i - k \in 1 .. Len(v) /\ i = Len(u) + (i - k)
          /\ i - Len(q) = (i - k) + 1
      <4>1. /\ i \in 1 .. Len(q) + Len(t) /\ Len(u) = Len(q) + 1 /\ Len(v) = Len(t) - 1
            /\ Len(q) \in Nat /\ Len(t) \in Nat
        BY <1>3, <1>4, <1>5, <1>6
      <4>2. PICK a, b : a = Len(q) /\ b = Len(t)
        OBVIOUS
      <4>3. /\ a \in Nat /\ b \in Nat /\ i \in 1 .. a + b /\ i > a /\ k = a + 1 /\ i # k
            /\ Len(u) = a + 1 /\ Len(v) = b - 1
        BY <1>8, <1>11, <2>2, <4>1, <4>2
      <4>4. /\ i - a \in 1 .. b /\ i = a + (i - a)
            /\ i - k \in 1 .. b - 1 /\ i = (a + 1) + (i - k) /\ i - a = (i - k) + 1
        <5>1. i \in Int /\ i <= a + b /\ i >= a + 2
          BY <4>3
        <5>2. k = a + 1 /\ a \in Nat /\ b \in Nat
          BY <4>3
        <5> QED BY <5>1, <5>2
      <4> QED BY <4>2, <4>3, <4>4
    <3>2. PICK j, p : j = i - k /\ p = i - Len(q)
      OBVIOUS
    <3>3. (q \o t)[Len(q) + p] = t[p] /\ (u \o v)[Len(u) + j] = v[j]
      BY <1>5, <1>7, <3>1, <3>2
    <3>4. v[j] = t[p]
      BY <1>4, <1>6, <3>1, <3>2
    <3>5. i = Len(q) + p /\ i = Len(u) + j
      BY <3>1, <3>2
    <3> QED BY <1>3, <1>6, <3>3, <3>4, <3>5
  <2> QED BY <1>3, <1>4, <1>5, <2>1, <2>2
<1>12. Line # <<>> /\ Line' # <<>>
  BY <1>9
<1> QED BY <1>1, <1>2, <1>4, <1>8, <1>9, <1>10, <1>11, <1>12

LEMMA AnsweredKept ==
  ASSUME EditorInd, KeptParts, inbox # <<>>, inbox' = Tail(inbox), NEW c \in AllCalls,
         outbox' = Append(outbox, [call |-> c, ok |-> TRUE]),
         c.do = Head(inbox).do, c.do # "create" => c = Head(inbox),
         UNCHANGED <<list, draft, persistedMode, persistedPrompt, modeTimer, flow, wish>>,
         robbed \subseteq robbed', Stealing \subseteq robbed'
  PROVE  KeptParts'
<1>1. CallsInd
  BY DEF EditorInd
<1>2. /\ DOMAIN Line' = DOMAIN Line /\ Line # <<>> /\ Line' # <<>>
      /\ \A i \in DOMAIN Line : /\ Line'[i].do = Line[i].do
                                /\ Line[i].do # "create" => Line'[i] = Line[i]
  <2>1. PICK k : k = Len(outbox) + 1
    OBVIOUS
  <2>2. /\ k \in DOMAIN Line /\ DOMAIN Line' = DOMAIN Line
        /\ Line[k] = Head(inbox) /\ Line'[k] = c
        /\ \A i \in DOMAIN Line : i # k => Line'[i] = Line[i]
        /\ Line # <<>> /\ Line' # <<>>
    BY <1>1, <2>1, LineAnswered
  <2> QED BY <2>2
<1>3. 1 \in DOMAIN Line
  BY <1>1, <1>2, LineHead
<1>4. /\ \A m : SavesOf(m)' = SavesOf(m)
      /\ \A i \in DOMAIN Line : FromBinding(Line'[i]) <=> FromBinding(Line[i])
      /\ \A m : \A i \in SavesOf(m) : Line'[i] = Line[i]
  BY <1>2 DEF SavesOf, FromBinding
<1>5. AllAnswered'
  <2>1. PICK x : x = [call |-> c, ok |-> TRUE]
    OBVIOUS
  <2>2. outbox \in Seq(Replies) /\ x \in Replies /\ x.ok /\ outbox' = Append(outbox, x)
    BY <1>1, <2>1 DEF CallsInd, Replies
  <2>3. \A i \in DOMAIN outbox' : i \in DOMAIN outbox \/ i = Len(outbox) + 1
    BY <2>2, AppendShape
  <2>4. \A i \in DOMAIN outbox : outbox'[i] = outbox[i]
    BY <2>2, AppendShape
  <2>5. outbox'[Len(outbox) + 1] = x
    BY <2>2, AppendShape
  <2> QED BY <2>2, <2>3, <2>4, <2>5 DEF KeptParts, AllAnswered
<1>6. CardOpen' /\ ClosedCards' /\ PromptsMatch'
  <2>1. CardOpen'
    BY DEF KeptParts, CardOpen
  <2>2. ClosedCards'
    BY <1>4 DEF KeptParts, ClosedCards, Selected
  <2>3. PromptsMatch'
    BY <1>4 DEF KeptParts, PromptsMatch
  <2> QED BY <2>1, <2>2, <2>3
<1>7. VersionsInOrder' /\ DraftIsServed'
  <2>1. Undrafted(draft)' = Undrafted(draft) /\ (Settled' <=> Settled)
    BY DEF Undrafted, Settled
  <2>2. VersionsInOrder'
    BY <1>4, <2>1 DEF KeptParts, VersionsInOrder
  <2>3. DraftIsServed'
    BY <1>4, <2>1 DEF KeptParts, DraftIsServed
  <2> QED BY <2>2, <2>3
<1>8. DialogAlone'
  BY <1>2, <1>4 DEF KeptParts, DialogAlone, Settled, FromBinding
<1>9. CommandWaits'
  <2>1. flow # None => \A i \in DOMAIN Line : Line[i].do = "save" /\ Line'[i] = Line[i]
    BY <1>2 DEF KeptParts, CommandWaits
  <2> QED BY <1>2, <2>1 DEF KeptParts, CommandWaits, IsFlush, Undrafted
<1>10. CreatesAlone' /\ DeletesOne'
  BY <1>2 DEF KeptParts, CreatesAlone, DeletesOne, Settled, Selected
<1>11. Wished'
  <2>1. (Dialled <=> Dialled') /\ (Dialled => Line'[1] = Line[1])
    BY <1>2, <1>3, <1>4 DEF Dialled, FromBinding
  <2>2. outbox' # <<>>
    BY <1>1 DEF CallsInd
  <2>3. Stealing' = {}
    BY <2>2 DEF Stealing
  <2> QED BY <2>1, <2>3 DEF KeptParts, Wished, Selected, Undrafted
<1> QED BY <1>5, <1>6, <1>7, <1>8, <1>9, <1>10, <1>11 DEF KeptParts

LEMMA MainKept ==
  ASSUME EditorInd, KeptParts, ~failed, ~failed', MainReceives
  PROVE  KeptParts'
<1>1. PICK h : h = Head(inbox)
  OBVIOUS
<1>2. /\ inbox # <<>> /\ inbox' = Tail(inbox) /\ h \in AllCalls
      /\ UNCHANGED <<list, draft, persistedMode, persistedPrompt, modeTimer, flow, wish>>
  <2>1. inbox # <<>> /\ inbox \in Seq(AllCalls)
    BY DEF MainReceives, EditorInd, CallsInd
  <2>2. h \in AllCalls
    BY <1>1, <2>1
  <2> QED BY <2>1, <2>2 DEF MainReceives, draftVars, timerVars
<1>3. outbox = <<>> => Line[1] = h
  <2> SUFFICES ASSUME outbox = <<>> PROVE Line[1] = h
    OBVIOUS
  <2>1. CallsOf(outbox) = <<>> /\ inbox \in Seq(AllCalls)
    BY DEF CallsOf, EditorInd, CallsInd
  <2>2. Line = inbox
    BY <2>1 DEF Line
  <2> QED BY <1>1, <1>2, <2>1, <2>2
<1>4. CASE h.do = "save" /\ HandleSave(h)
  <2>1. PICK s : s = IF h.mode.chord = None THEN {} ELSE Conflicting(h.mode.chord, h.id)
    OBVIOUS
  <2>2. outbox' = Append(outbox, [call |-> h, ok |-> TRUE]) /\ robbed' = robbed \cup s
    BY <1>4, <2>1 DEF HandleSave, Answer
  <2>3. Stealing \subseteq s
    BY <1>3, <2>1 DEF Stealing
  <2> QED BY <1>1, <1>2, <2>2, <2>3, AnsweredKept
<1>5. ASSUME h.do = "create" \/ h.do = "delete", robbed' = robbed, NEW c \in AllCalls,
             outbox' = Append(outbox, [call |-> c, ok |-> TRUE]), c.do = h.do,
             c.do # "create" => c = h
      PROVE  KeptParts'
  <2>1. Stealing = {}
    BY <1>3, <1>5 DEF Stealing, Dialled, FromBinding
  <2> QED BY <1>1, <1>2, <1>5, <2>1, AnsweredKept
<1>6. CASE h.do = "create" /\ HandleCreate(h)
  <2>1. PICK m \in Custom \ minted : Answer([h EXCEPT !.id = m], TRUE) /\ robbed' = robbed
    BY <1>6 DEF HandleCreate
  <2>2. PICK c : c = [h EXCEPT !.id = m]
    OBVIOUS
  <2>3. c \in AllCalls /\ c.do = "create"
    <3>1. h \in Creates /\ m \in Modes
      BY <1>2, <1>6, CallShape DEF Modes
    <3> QED BY <2>2, <3>1 DEF Creates, AllCalls
  <2> QED BY <1>5, <1>6, <2>1, <2>2, <2>3 DEF Answer
<1>7. CASE h.do = "delete" /\ HandleDelete(h)
  BY <1>2, <1>5, <1>7 DEF HandleDelete, Answer
<1>8. ~CallFails(h)
  BY DEF CallFails
<1> QED BY <1>1, <1>4, <1>6, <1>7, <1>8 DEF MainReceives

(* A dialog that saves with nothing on its way: what it saves is what is    *)
(* listed, with the new hotkey, and whoever had that one loses it.          *)
LEMMA DialogSavesKept ==
  ASSUME EditorInd, KeptParts, CallsInd', ~crossed', dialog # None, list[dialog.id] # None,
         NEW chord \in Chords \cup {None}, NEW policy, DialogSaves(chord, policy),
         UNCHANGED <<store, outbox, robbed>>,
         NEW others, \A m \in others : /\ m \in Modes \ {dialog.id} /\ list[m] # None
                                       /\ list[m].chord = chord /\ chord # None,
         others # {} => policy = "steal",
         wish'[dialog.id] = [wish[dialog.id] EXCEPT !.chord = chord],
         \A m \in Modes \ (others \cup {dialog.id}) : wish'[m] = wish[m]
  PROVE  KeptParts'
<1>1. CallsInd /\ PageInd /\ StoreTypes /\ CardOpen /\ LastEffect
  BY DEF EditorInd, StoreInd, KeptParts
<1>2. /\ ~modeTimer /\ flow = None /\ Line = <<>> /\ outbox = <<>> /\ inbox = <<>>
      /\ UNCHANGED <<list, draft, persistedMode, persistedPrompt, modeTimer, flow>>
  BY <1>1, NothingMet DEF DialogSaves, Crossing, draftVars, timerVars
<1>3. Settled
  <2>1. draft = None => Settled
    BY <1>1, CardShape
  <2>2. \A n : SavesOf(n) = {}
    BY <1>2 DEF SavesOf
  <2> QED BY <1>2, <2>1, <2>2 DEF KeptParts, DraftIsServed
<1>4. PICK m, v, nr : m = dialog.id /\ v = list[m] /\ nr = dialog.nr
  OBVIOUS
<1>5. m \in Modes /\ v \in Mode
  <2>1. m \in Modes
    BY <1>1, <1>4 DEF PageInd, Dialogs
  <2> QED BY <1>1, <1>4, <2>1 DEF StoreTypes
<1>6. BaseDraft(m) = Drafted(m, v)
  <2>1. m = Selected => draft = Drafted(m, v)
    BY <1>1, <1>3, <1>4, <1>5, CardShape DEF Settled
  <2> QED BY <1>4, <2>1 DEF BaseDraft
<1>7. PICK w, h : w = [v EXCEPT !.chord = chord] /\ h = HotkeySave([Drafted(m, v) EXCEPT !.chord = chord], policy, nr)
  OBVIOUS
<1>8. /\ h.do = "save" /\ h.who = "dialog" /\ h.id = m /\ h.policy = policy /\ h.mode = w
      /\ w.chord = chord
  <2>1. PICK d : d = [Drafted(m, v) EXCEPT !.chord = chord]
    OBVIOUS
  <2>2. d.id = m /\ Undrafted(d) = w /\ w.chord = chord
    BY <1>5, <1>7, <2>1 DEF Drafted, Undrafted, Mode
  <2>3. /\ h.do = "save" /\ h.who = "dialog" /\ h.id = d.id /\ h.policy = policy
        /\ h.mode = Undrafted(d)
    BY <1>7, <2>1 DEF HotkeySave
  <2> QED BY <2>2, <2>3
<1>9. /\ Line' = <<h>> /\ DOMAIN Line' = {1} /\ Line'[1] = h /\ Line' # <<>>
  <2>1. inbox' = <<h>>
    BY <1>2, <1>4, <1>6, <1>7 DEF DialogSaves
  <2>2. CallsOf(outbox') = <<>>
    BY <1>2 DEF CallsOf
  <2>3. Line' = <<>> \o <<h>>
    BY <2>1, <2>2 DEF Line, CallsOf
  <2> QED BY <2>3
<1>10. \A n : SavesOf(n)' = {}
  BY <1>8, <1>9 DEF SavesOf
<1>11. AllAnswered' /\ CardOpen' /\ ClosedCards'
  BY <1>1, <1>2, <1>10 DEF AllAnswered, CardOpen, ClosedCards
<1>12. PromptsMatch' /\ VersionsInOrder' /\ DraftIsServed'
  BY <1>2, <1>3, <1>10 DEF PromptsMatch, VersionsInOrder, DraftIsServed, Settled
<1>13. DialogAlone' /\ CommandWaits' /\ CreatesAlone' /\ DeletesOne'
  BY <1>2, <1>3, <1>8, <1>9 DEF DialogAlone, CommandWaits, CreatesAlone, DeletesOne, Settled
<1>14. Wished'
  <2>1. \A n \in Modes \ robbed : list[n] # None => wish[n] = list[n] /\ list[n] = store[n]
    <3>1. ~Dialled /\ Stealing = {}
      BY <1>2 DEF Dialled, Stealing
    <3>2. \A n : Effective(n) = {}
      BY <1>2 DEF Effective
    <3>3. \A n \in Modes : Selected = n /\ list[n] # None => Undrafted(draft) = list[n]
      BY <1>1, <1>3, CardShape
    <3>4. \A n \in Modes \ robbed : list[n] = store[n]
      BY <1>1, <3>2 DEF LastEffect
    <3> QED BY <3>1, <3>3, <3>4 DEF KeptParts, Wished
  <2>2. Dialled'
    BY <1>8, <1>9 DEF Dialled, FromBinding
  <2>3. m \notin robbed => wish'[m] = w
    BY <1>4, <1>5, <1>7, <2>1
  <2>4. \A n \in others \ robbed : n \in Stealing'
    <3> SUFFICES ASSUME NEW n \in others, n \notin robbed PROVE n \in Stealing'
      OBVIOUS
    <3>1. n \in Modes \ {m} /\ list[n] # None /\ list[n].chord = chord /\ chord # None /\ policy = "steal"
      BY <1>4
    <3>2. store'[n] # None /\ store'[n].chord = chord
      BY <2>1, <3>1
    <3>3. n \in Conflicting(chord, m)'
      BY <3>1, <3>2 DEF Conflicting
    <3>4. Stealing' = Conflicting(h.mode.chord, h.id)'
      BY <1>2, <1>8, <1>9, <2>2, <3>1 DEF Stealing
    <3> QED BY <1>8, <3>3, <3>4 DEF Conflicting
  <2>5. \A n \in Modes \ (robbed \cup others \cup {m}) : list[n] # None => wish'[n] = list[n]
    BY <1>4, <2>1
  <2>6. \A n \in Modes : Selected' = n /\ list[n] # None => Undrafted(draft)' = list[n]
    <3>1. Selected' = Selected /\ Undrafted(draft)' = Undrafted(draft)
      BY <1>2 DEF Selected, Undrafted
    <3> QED BY <1>1, <1>3, <3>1, CardShape
  <2>7. SUFFICES ASSUME NEW n \in Modes, n \notin robbed, n \notin Stealing', list[n] # None
                 PROVE  wish'[n] = IF n = m THEN w ELSE IF Selected' = n THEN Undrafted(draft)' ELSE list[n]
    BY <1>2, <1>8, <1>9, <2>2 DEF Wished, Selected, Undrafted
  <2>8. CASE n = m
    BY <2>3, <2>7, <2>8
  <2>9. CASE n # m
    BY <2>4, <2>5, <2>6, <2>7, <2>9
  <2> QED BY <2>8, <2>9
<1> QED BY <1>11, <1>12, <1>13, <1>14 DEF KeptParts

LEMMA HotkeysKept ==
  ASSUME EditorInd, KeptParts, CallsInd', ~crossed', Clear \/ (\E chord \in Chords : Commit(chord))
  PROVE  KeptParts'
<1>1. wish \in [Modes -> Mode \cup {None}] /\ (dialog # None => dialog.id \in Modes)
  BY DEF EditorInd, PageInd, Dialogs
<1>2. CASE Clear
  <2>1. /\ dialog # None /\ list[dialog.id] # None /\ DialogSaves(None, "reject")
        /\ wish' = [wish EXCEPT ![dialog.id].chord = None] /\ UNCHANGED <<store, outbox, robbed>>
    BY <1>2 DEF Clear, Act, storeVars
  <2>2. PICK m : m = dialog.id /\ m \in Modes
    BY <1>1, <2>1
  <2>3. /\ wish'[m] = [wish[m] EXCEPT !.chord = None]
        /\ \A n \in Modes \ ({} \cup {m}) : wish'[n] = wish[n]
    BY <1>1, <2>1, <2>2
  <2>4. PICK others, chord, policy : others = {} /\ chord = None /\ policy = "reject"
    OBVIOUS
  <2>5. /\ wish'[dialog.id] = [wish[dialog.id] EXCEPT !.chord = chord] /\ DialogSaves(chord, policy)
        /\ \A n \in Modes \ (others \cup {dialog.id}) : wish'[n] = wish[n]
    BY <2>1, <2>2, <2>3, <2>4
  <2>6. /\ chord \in Chords \cup {None} /\ (others # {} => policy = "steal")
        /\ \A n \in others : n \in Modes \ {dialog.id} /\ list[n] # None /\ list[n].chord = chord /\ chord # None
    BY <2>4
  <2> QED BY <2>1, <2>5, <2>6, DialogSavesKept
<1>3. ASSUME NEW chord \in Chords, Commit(chord) PROVE KeptParts'
  <2>1. PICK m, others : m = dialog.id /\ others = {n \in Modes \ {m} : list[n] # None /\ list[n].chord = chord}
    OBVIOUS
  <2>2. PICK policy : policy = IF others = {} THEN "reject" ELSE "steal"
    OBVIOUS
  <2>3. /\ dialog # None /\ list[m] # None /\ DialogSaves(chord, policy)
        /\ wish' = [n \in Modes |-> CASE n = m -> [wish[n] EXCEPT !.chord = chord]
                                      [] n \in others -> [wish[n] EXCEPT !.chord = None]
                                      [] OTHER -> wish[n]]
        /\ UNCHANGED <<store, outbox, robbed>>
    BY <1>3, <2>1, <2>2 DEF Commit, Act, storeVars
  <2>4. m \in Modes /\ chord # None
    BY <1>1, <2>1, <2>3, NoneAssumption
  <2>5. /\ wish'[m] = [wish[m] EXCEPT !.chord = chord]
        /\ \A n \in Modes \ (others \cup {m}) : wish'[n] = wish[n]
    <3>1. m \notin others
      BY <2>1
    <3>2. wish'[m] = [wish[m] EXCEPT !.chord = chord]
      BY <2>3, <2>4, <3>1
    <3>3. ASSUME NEW n \in Modes, n \notin others, n # m PROVE wish'[n] = wish[n]
      BY <2>3, <3>3
    <3> QED BY <3>2, <3>3
  <2>6. /\ others # {} => policy = "steal"
        /\ \A n \in others : n \in Modes \ {m} /\ list[n] # None /\ list[n].chord = chord /\ chord # None
    BY <2>1, <2>2, <2>4
  <2>7. /\ dialog # None /\ list[dialog.id] # None /\ UNCHANGED <<store, outbox, robbed>>
        /\ wish'[dialog.id] = [wish[dialog.id] EXCEPT !.chord = chord] /\ DialogSaves(chord, policy)
        /\ \A n \in Modes \ (others \cup {dialog.id}) : wish'[n] = wish[n]
    BY <2>1, <2>3, <2>5
  <2>8. \A n \in others : n \in Modes \ {dialog.id} /\ list[n] # None /\ list[n].chord = chord /\ chord # None
    BY <2>1, <2>6
  <2> QED BY <2>6, <2>7, <2>8, DialogSavesKept
<1> QED BY <1>2, <1>3

LEMMA DeleteKept ==
  ASSUME EditorInd, KeptParts, CallsInd', ~crossed', NEW m \in Modes, Delete(m)
  PROVE  KeptParts'
<1>1. CallsInd /\ PageInd
  BY DEF EditorInd
<1>2. /\ flow = None /\ Calls("create") = {} /\ Calls("delete") = {} /\ asking = m
      /\ UNCHANGED <<store, list, outbox, robbed, wish, draft, persistedMode, persistedPrompt, modeTimer, flow>>
  BY DEF Delete, Crossing, storeVars, draftVars, timerVars
<1>3. \A i \in DOMAIN Line : Line[i].do # "create" /\ Line[i].do # "delete"
  BY <1>1, <1>2, NothingMet
<1>4. PICK c, n : c = [do |-> "delete", id |-> m, selected |-> Selected = m] /\ n = Len(Line)
  OBVIOUS
<1>5. c.do = "delete" /\ c.id = m /\ (c.selected <=> Selected = m) /\ c \in AllCalls
  <2>1. m \in Custom
    BY <1>1, <1>2, NoneAssumption DEF PageInd
  <2>2. (Selected = m) \in BOOLEAN
    OBVIOUS
  <2> QED BY <1>4, <2>1, <2>2 DEF AllCalls, Deletes
<1>6. /\ n \in Nat /\ DOMAIN Line = 1 .. n /\ DOMAIN Line' = 1 .. n + 1
      /\ \A i \in DOMAIN Line : Line'[i] = Line[i]
      /\ Line'[n + 1] = c
  <2>1. PICK s : s = <<c>>
    OBVIOUS
  <2>2. s \in Seq(AllCalls) /\ Len(s) = 1 /\ s[1] = c
    BY <1>5, <2>1
  <2>3. inbox' = inbox \o s
    BY <1>1, <1>4, <2>1, AppendIsConcat DEF Delete
  <2>4. /\ DOMAIN Line' = 1 .. Len(Line) + Len(s)
        /\ \A i \in DOMAIN Line : Line'[i] = Line[i]
        /\ \A i \in 1 .. Len(s) : Line'[Len(Line) + i] = s[i]
    BY <1>1, <1>2, <2>2, <2>3, LineGrows
  <2>5. Len(Line) \in Nat /\ DOMAIN Line = 1 .. Len(Line)
    BY <1>1, LineShape
  <2> QED BY <1>4, <2>2, <2>4, <2>5
<1>7. \A i \in DOMAIN Line' : i \in DOMAIN Line \/ (i = n + 1 /\ i \notin DOMAIN Line)
  BY <1>6
<1>8. /\ \A k : SavesOf(k)' = SavesOf(k)
      /\ \A k : \A i \in SavesOf(k) : Line'[i] = Line[i]
  <2>1. \A k : \A i \in SavesOf(k)' : i \in SavesOf(k)
    BY <1>5, <1>6, <1>7 DEF SavesOf
  <2>2. DOMAIN Line \subseteq DOMAIN Line'
    BY <1>6
  <2>3. \A k : \A i \in SavesOf(k) : i \in SavesOf(k)'
    BY <1>6, <2>2 DEF SavesOf
  <2> QED BY <1>6, <2>1, <2>3 DEF SavesOf
<1>9. /\ Selected' = Selected /\ Undrafted(draft)' = Undrafted(draft) /\ (Settled' <=> Settled)
  BY <1>2 DEF Selected, Undrafted, Settled
<1>10. AllAnswered' /\ CardOpen'
  BY <1>2 DEF KeptParts, AllAnswered, CardOpen
<1>11. ClosedCards' /\ PromptsMatch'
  BY <1>2, <1>8, <1>9 DEF KeptParts, ClosedCards, PromptsMatch
<1>12. VersionsInOrder'
  BY <1>2, <1>8, <1>9 DEF KeptParts, VersionsInOrder
<1>13. DraftIsServed'
  BY <1>2, <1>8, <1>9 DEF KeptParts, DraftIsServed
<1>14. DialogAlone'
  <2> SUFFICES ASSUME NEW i \in DOMAIN Line', FromBinding(Line'[i])
      PROVE  i = 1 /\ Settled /\ \A j \in DOMAIN Line' : j # i => Line'[j].do = "delete"
    BY <1>9 DEF DialogAlone, FromBinding
  <2>1. i \in DOMAIN Line /\ FromBinding(Line[i])
    BY <1>5, <1>6, <1>7 DEF FromBinding
  <2>2. i = 1 /\ Settled /\ \A j \in DOMAIN Line : j # i => Line[j].do = "delete"
    BY <2>1 DEF KeptParts, DialogAlone
  <2> QED BY <1>5, <1>6, <1>7, <2>2
<1>15. CommandWaits' /\ CreatesAlone'
  BY <1>2, <1>3, <1>5, <1>6, <1>7 DEF CommandWaits, CreatesAlone
<1>16. DeletesOne'
  <2>1. \A i \in DOMAIN Line' : Line'[i].do = "delete" => i = n + 1 /\ Line'[i] = c
    BY <1>3, <1>6, <1>7
  <2> QED BY <1>5, <1>9, <2>1 DEF DeletesOne
<1>17. Wished'
  <2>1. (Dialled <=> Dialled') /\ (Dialled => Line'[1] = Line[1])
    <3>1. Line # <<>> <=> n > 0
      BY <1>1, <1>4, LineShape
    <3>2. Line' # <<>>
      BY <1>6
    <3>3. CASE n > 0
      BY <1>6, <3>1, <3>2, <3>3 DEF Dialled, FromBinding
    <3>4. CASE n = 0
      BY <1>5, <1>6, <3>1, <3>2, <3>4 DEF Dialled, FromBinding
    <3> QED BY <1>6, <3>3, <3>4
  <2>2. Stealing' = Stealing
    BY <1>2, <2>1 DEF Stealing, Conflicting
  <2> QED BY <1>2, <1>9, <2>1, <2>2 DEF KeptParts, Wished
<1> QED BY <1>10, <1>11, <1>12, <1>13, <1>14, <1>15, <1>16, <1>17 DEF KeptParts

(* A reply that is read: nothing failed, and the others move up.            *)
LEMMA ReplyRead ==
  ASSUME EditorInd, EditorInd', KeptParts, outbox # <<>>, outbox' = Tail(outbox),
         NEW s \in Seq(AllCalls), inbox' = inbox \o s
  PROVE  /\ Head(outbox).ok /\ AllAnswered' /\ Stealing = {}
         /\ 1 \in DOMAIN Line /\ Line # <<>> /\ Line[1] = Head(outbox).call
         /\ \A i \in DOMAIN Line' :
              \/ i + 1 \in DOMAIN Line /\ i + 1 # 1 /\ i \in Nat /\ Line'[i] = Line[i + 1]
              \/ \E j \in DOMAIN s : Line'[i] = s[j]
         /\ \A i \in DOMAIN Line : i \in Nat /\ (i # 1 => i - 1 \in DOMAIN Line' /\ Line'[i - 1] = Line[i])
<1>1. CallsInd /\ CallsInd' /\ outbox \in Seq(Replies)
  BY DEF EditorInd, CallsInd
<1>2. Head(outbox).ok /\ AllAnswered'
  BY <1>1, TailShape DEF KeptParts, AllAnswered
<1>3. PICK n, k : n = Len(Line) /\ k = Len(s)
  OBVIOUS
<1>4. /\ n \in Nat /\ k \in Nat /\ n >= 1 /\ DOMAIN Line = 1 .. n /\ DOMAIN Line' = 1 .. n - 1 + k
      /\ \A i \in 1 .. n - 1 : Line'[i] = Line[i + 1]
      /\ \A i \in 1 .. k : Line'[n - 1 + i] = s[i]
      /\ DOMAIN s = 1 .. k /\ Line # <<>> /\ Line[1] = Head(outbox).call
  <2>1. DOMAIN s = 1 .. Len(s)
    OBVIOUS
  <2>2. /\ Len(s) \in Nat /\ Len(Line) >= 1 /\ Line # <<>> /\ Line[1] = Head(outbox).call
        /\ DOMAIN Line' = 1 .. Len(Line) - 1 + Len(s)
        /\ \A i \in 1 .. Len(Line) - 1 : Line'[i] = Line[i + 1]
        /\ \A i \in 1 .. Len(s) : Line'[Len(Line) - 1 + i] = s[i]
    BY <1>1, LineShrinks
  <2>3. Len(Line) \in Nat /\ DOMAIN Line = 1 .. Len(Line)
    BY <1>1, LineShape
  <2> QED BY <1>3, <2>1, <2>2, <2>3
<1>5. ASSUME NEW i \in DOMAIN Line'
      PROVE  \/ i + 1 \in DOMAIN Line /\ i + 1 # 1 /\ i \in Nat /\ Line'[i] = Line[i + 1]
             \/ \E j \in DOMAIN s : Line'[i] = s[j]
  <2>1. CASE i <= n - 1
    BY <1>4, <2>1
  <2>2. CASE i > n - 1
    <3>1. i - (n - 1) \in 1 .. k /\ i = n - 1 + (i - (n - 1))
      BY <1>4, <2>2
    <3>2. PICK j \in 1 .. k : i = n - 1 + j
      BY <3>1
    <3> QED BY <1>4, <3>2
  <2> QED BY <1>4, <2>1, <2>2
<1>6. ASSUME NEW i \in DOMAIN Line
      PROVE  i \in Nat /\ (i # 1 => i - 1 \in DOMAIN Line' /\ Line'[i - 1] = Line[i])
  <2>1. i \in 1 .. n
    BY <1>4
  <2>2. i # 1 => i - 1 \in 1 .. n - 1 /\ i - 1 \in DOMAIN Line' /\ (i - 1) + 1 = i
    BY <1>4, <2>1
  <2> QED BY <1>4, <2>1, <2>2
<1>7. 1 \in DOMAIN Line
  BY <1>4
<1> QED BY <1>2, <1>4, <1>5, <1>6, <1>7 DEF Stealing

(* The same when nothing is sent.                                           *)
LEMMA ReplyOnly ==
  ASSUME EditorInd, EditorInd', KeptParts, outbox # <<>>, outbox' = Tail(outbox), inbox' = inbox
  PROVE  /\ Head(outbox).ok /\ AllAnswered' /\ Stealing = {}
         /\ 1 \in DOMAIN Line /\ Line # <<>> /\ Line[1] = Head(outbox).call
         /\ \A i \in DOMAIN Line' :
              i + 1 \in DOMAIN Line /\ i + 1 # 1 /\ i \in Nat /\ Line'[i] = Line[i + 1]
         /\ \A i \in DOMAIN Line : i \in Nat /\ (i # 1 => i - 1 \in DOMAIN Line' /\ Line'[i - 1] = Line[i])
         /\ \A m : \A i \in SavesOf(m)' : i + 1 \in SavesOf(m) /\ Line'[i] = Line[i + 1] /\ i \in Nat
         /\ \A m : \A i \in SavesOf(m) : i # 1 => i - 1 \in SavesOf(m)' /\ Line'[i - 1] = Line[i]
<1>1. PICK s : s = <<>>
  OBVIOUS
<1>2. s \in Seq(AllCalls) /\ inbox' = inbox \o s /\ DOMAIN s = {}
  BY <1>1 DEF EditorInd, CallsInd
<1>3. /\ Head(outbox).ok /\ AllAnswered' /\ Stealing = {}
      /\ 1 \in DOMAIN Line /\ Line # <<>> /\ Line[1] = Head(outbox).call
      /\ \A i \in DOMAIN Line' :
           i + 1 \in DOMAIN Line /\ i + 1 # 1 /\ i \in Nat /\ Line'[i] = Line[i + 1]
      /\ \A i \in DOMAIN Line : i \in Nat /\ (i # 1 => i - 1 \in DOMAIN Line' /\ Line'[i - 1] = Line[i])
  BY <1>2, ReplyRead
<1>4. ASSUME NEW m, NEW i \in SavesOf(m)'
      PROVE  i + 1 \in SavesOf(m) /\ Line'[i] = Line[i + 1] /\ i \in Nat
  BY <1>3 DEF SavesOf
<1>5. ASSUME NEW m, NEW i \in SavesOf(m), i # 1
      PROVE  i - 1 \in SavesOf(m)' /\ Line'[i - 1] = Line[i]
  BY <1>3, <1>5 DEF SavesOf
<1> QED BY <1>3, <1>4, <1>5

LEMMA DeletedKept ==
  ASSUME EditorInd, EditorInd', KeptParts, outbox # <<>>, outbox' = Tail(outbox),
         NEW c, c = Head(outbox).call, DeleteReply(c, Head(outbox).ok),
         UNCHANGED storeVars
  PROVE  KeptParts'
<1>1. /\ CallsInd /\ PageInd /\ StoreTypes /\ CardOpen
  BY DEF EditorInd, StoreInd, KeptParts
<1>2. /\ c.do = "delete" /\ Line[1] = c /\ 1 \in DOMAIN Line /\ AllAnswered' /\ Stealing = {}
      /\ list' = [list EXCEPT ![c.id] = None] /\ wish' = [wish EXCEPT ![c.id] = None]
      /\ UNCHANGED <<flow, inbox, robbed, store>>
      /\ IF c.selected THEN Select(None)
                       ELSE UNCHANGED <<draft, persistedMode, persistedPrompt, modeTimer>>
  BY ReplyOnly DEF DeleteReply, storeVars, timerVars
<1>3. c.id \in Modes /\ (c.selected <=> Selected = c.id)
  <2>1. c \in AllCalls
    BY <1>1, <1>2, LineShape
  <2> QED BY <1>2, <2>1, CallShape DEF KeptParts, DeletesOne
<1>4. /\ \A n \in Modes \ {c.id} : list'[n] = list[n] /\ wish'[n] = wish[n]
      /\ list'[c.id] = None /\ wish'[c.id] = None
  BY <1>1, <1>2, <1>3 DEF StoreTypes, PageInd
<1>5. flow = None
  BY <1>2 DEF KeptParts, CommandWaits
<1>6. \A i \in DOMAIN Line : /\ ~FromBinding(Line[i]) /\ Line[i].do # "create"
                             /\ i # 1 => Line[i].do # "delete"
  BY <1>2 DEF KeptParts, DialogAlone, CreatesAlone, DeletesOne, FromBinding
<1>7. /\ \A i \in DOMAIN Line' : /\ ~FromBinding(Line'[i]) /\ Line'[i].do # "create" /\ Line'[i].do # "delete"
      /\ \A m : \A i \in SavesOf(m)' : i + 1 \in SavesOf(m) /\ Line'[i] = Line[i + 1] /\ i \in Nat
      /\ \A m : \A i \in SavesOf(m) : i - 1 \in SavesOf(m)' /\ Line'[i - 1] = Line[i]
  <2>1. \A m : 1 \notin SavesOf(m)
    BY <1>2 DEF SavesOf
  <2> QED BY <1>2, <1>6, <2>1, ReplyOnly DEF FromBinding
<1>8. ~Dialled /\ ~Dialled' /\ Stealing' = {}
  <2>1. ~Dialled
    BY <1>2, <1>6 DEF Dialled
  <2>2. ~Dialled'
    <3>1. CallsInd'
      BY DEF EditorInd
    <3>2. Line' # <<>> => 1 \in DOMAIN Line'
      <4>1. inbox' \in Seq(AllCalls) /\ CallsOf(outbox') \in Seq(AllCalls)
        BY <3>1, CallsOfShape DEF CallsInd
      <4>2. Line' \in Seq(AllCalls)
        BY <4>1 DEF Line, CallsOf
      <4> QED BY <4>2
    <3> QED BY <1>7, <3>2 DEF Dialled, FromBinding
  <2> QED BY <2>1, <2>2 DEF Stealing
<1>9. CASE c.selected
  <2>1. draft' = None /\ persistedMode' = None /\ persistedPrompt' = PromptKey(draft')
    BY <1>2, <1>9 DEF Select, PromptKey
  <2>2. ASSUME NEW n \in Modes, list'[n] # None
        PROVE  /\ \A i \in SavesOf(n)' : Line'[i].mode = list'[n]
               /\ n \notin robbed => wish'[n] = list'[n]
    <3>1. n # c.id /\ Selected # n /\ list[n] # None
      BY <1>3, <1>4, <1>9, <2>2
    <3>2. \A i \in SavesOf(n) : Line[i].mode = list[n]
      BY <3>1 DEF KeptParts, ClosedCards
    <3>3. n \notin robbed => wish[n] = list[n]
      BY <1>2, <1>8, <3>1 DEF KeptParts, Wished
    <3> QED BY <1>4, <1>7, <3>1, <3>2, <3>3
  <2>3. Rests'
    BY <1>2, <1>5, <1>7, <2>2 DEF Rests, FromBinding
  <2> QED BY <2>1, <2>3, SelectKept DEF PromptKey
<1>10. CASE ~c.selected
  <2>1. UNCHANGED <<draft, persistedMode, persistedPrompt, modeTimer>> /\ Selected # c.id
    BY <1>2, <1>3, <1>10
  <2>2. /\ Selected' = Selected /\ Undrafted(draft)' = Undrafted(draft) /\ (Settled' <=> Settled)
    BY <2>1 DEF Selected, Undrafted, Settled
  <2>3. draft # None => draft.id \in Modes \ {c.id} /\ list'[draft.id] = list[draft.id]
    BY <1>1, <1>4, <2>1, CardShape
  <2>4. CardOpen'
    BY <2>1, <2>3 DEF KeptParts, CardOpen
  <2>5. ClosedCards'
    <3> SUFFICES ASSUME NEW n \in Modes, list'[n] # None, Selected # n, NEW i \in SavesOf(n)'
        PROVE  Line'[i].mode = list'[n]
      BY <2>2 DEF ClosedCards
    <3>1. list'[n] = list[n] /\ list[n] # None
      BY <1>4
    <3> QED BY <1>7, <3>1 DEF KeptParts, ClosedCards
  <2>6. PICK o : o = draft.id
    OBVIOUS
  <2>7. /\ draft'.id = o
        /\ \A i \in SavesOf(o)' : i + 1 \in SavesOf(o) /\ Line'[i] = Line[i + 1] /\ i \in Nat
        /\ \A i \in SavesOf(o) : i - 1 \in SavesOf(o)' /\ Line'[i - 1] = Line[i]
    BY <1>7, <2>1, <2>6
  <2>8. PromptsMatch'
    <3> SUFFICES ASSUME draft # None, NEW i \in SavesOf(o)', Line'[i].adopt = "same prompt key"
        PROVE  Line'[i].mode.name = draft.name /\ Line'[i].mode.chord = draft.chord
      BY <2>1, <2>7 DEF PromptsMatch
    <3>1. i + 1 \in SavesOf(o) /\ Line'[i] = Line[i + 1]
      BY <2>7
    <3>2. \A j \in SavesOf(o) : Line[j].adopt = "same prompt key" =>
            Line[j].mode.name = draft.name /\ Line[j].mode.chord = draft.chord
      BY <2>6 DEF KeptParts, PromptsMatch
    <3> QED BY <3>1, <3>2
  <2>9. VersionsInOrder'
    <3> SUFFICES ASSUME draft # None
        PROVE  /\ \A i, j \in SavesOf(o)' :
                    i < j /\ Line'[i].mode = Undrafted(draft) => Line'[j].mode = Undrafted(draft)
               /\ Settled => \A i \in SavesOf(o)' : Line'[i].mode = Undrafted(draft)
      BY <2>1, <2>2, <2>7 DEF VersionsInOrder
    <3>1. ASSUME NEW i \in SavesOf(o)', NEW j \in SavesOf(o)', i < j, Line'[i].mode = Undrafted(draft)
          PROVE  Line'[j].mode = Undrafted(draft)
      <4>1. /\ i + 1 \in SavesOf(o) /\ j + 1 \in SavesOf(o) /\ i + 1 < j + 1
            /\ Line'[i] = Line[i + 1] /\ Line'[j] = Line[j + 1]
        BY <2>7, <3>1
      <4> QED BY <2>6, <3>1, <4>1 DEF KeptParts, VersionsInOrder
    <3>2. ASSUME Settled, NEW i \in SavesOf(o)' PROVE Line'[i].mode = Undrafted(draft)
      BY <2>6, <2>7, <3>2 DEF KeptParts, VersionsInOrder
    <3> QED BY <3>1, <3>2
  <2>10. DraftIsServed'
    <3> SUFFICES ASSUME draft # None, ~modeTimer, ~Settled
        PROVE  \E i \in SavesOf(o)' : Line'[i].mode = Undrafted(draft)
      BY <2>1, <2>2, <2>7 DEF DraftIsServed
    <3>1. PICK i \in SavesOf(o) : Line[i].mode = Undrafted(draft)
      BY <2>6 DEF KeptParts, DraftIsServed
    <3>2. i - 1 \in SavesOf(o)' /\ Line'[i - 1] = Line[i]
      BY <2>7
    <3> QED BY <3>1, <3>2
  <2>11. DialogAlone' /\ CommandWaits' /\ CreatesAlone' /\ DeletesOne'
    BY <1>2, <1>5, <1>7 DEF DialogAlone, CommandWaits, CreatesAlone, DeletesOne, FromBinding
  <2>12. Wished'
    <3> SUFFICES ASSUME NEW n \in Modes \ robbed, list'[n] # None
        PROVE  wish'[n] = IF Selected = n THEN Undrafted(draft) ELSE list'[n]
      BY <1>2, <1>8, <2>2 DEF Wished
    <3>1. list'[n] = list[n] /\ wish'[n] = wish[n]
      BY <1>4
    <3> QED BY <1>2, <1>8, <3>1 DEF KeptParts, Wished
  <2> QED BY <1>2, <2>4, <2>5, <2>8, <2>9, <2>10, <2>11, <2>12 DEF KeptParts
<1> QED BY <1>9, <1>10

LEMMA CreatedKept ==
  ASSUME EditorInd, EditorInd', KeptParts, outbox # <<>>, outbox' = Tail(outbox),
         NEW c, c = Head(outbox).call, CreateReply(c, Head(outbox).ok),
         UNCHANGED storeVars
  PROVE  KeptParts'
<1>1. /\ CallsInd /\ PageInd /\ StoreTypes /\ CardOpen
  BY DEF EditorInd, StoreInd, KeptParts
<1>2. PICK m, v : m = c.id /\ v = NewMode
  OBVIOUS
<1>3. /\ c.do = "create" /\ Line[1] = c /\ 1 \in DOMAIN Line /\ Head(outbox).ok /\ AllAnswered' /\ Stealing = {}
      /\ list' = [list EXCEPT ![m] = v] /\ wish' = [wish EXCEPT ![m] = v]
      /\ Select(Drafted(m, v))
      /\ UNCHANGED <<flow, inbox, robbed, store>>
  BY <1>2, ReplyOnly DEF CreateReply, storeVars, NewMode
<1>4. m \in Modes /\ 1 \in DOMAIN outbox /\ outbox[1] = Head(outbox)
  <2>1. outbox \in Seq(Replies)
    BY <1>1 DEF CallsInd
  <2>2. 1 \in DOMAIN outbox /\ outbox[1] = Head(outbox)
    BY <2>1
  <2> QED BY <1>1, <1>2, <1>3, <2>2 DEF CallsInd, StoreTypes
<1>5. v # None
  BY NoneAssumption, <1>2 DEF NewMode, Mode
<1>6. /\ \A n \in Modes \ {m} : list'[n] = list[n] /\ wish'[n] = wish[n]
      /\ list'[m] = v /\ wish'[m] = v
  BY <1>1, <1>3, <1>4 DEF StoreTypes, PageInd
<1>7. flow = None /\ Settled /\ \A i \in DOMAIN Line : ~FromBinding(Line[i]) /\ Line[i].do # "delete"
  BY <1>3 DEF KeptParts, CommandWaits, CreatesAlone, DialogAlone, FromBinding
<1>8. Rests
  BY <1>7, RestsNow
<1>9. SavesOf(m) = {}
  <2>1. 1 \in Announced(m)
    BY <1>2, <1>3, <1>4 DEF Announced, Effective
  <2>2. ~Known(m)
    BY <2>1 DEF Known
  <2>3. \A i \in DOMAIN Line : KnownCall(Line[i])
    <3>1. \A i \in 1 .. Len(outbox) : KnownCall(Line[i])
      <4>1. \A i \in DOMAIN outbox : KnownCall(outbox[i].call) /\ DOMAIN outbox = 1 .. Len(outbox)
        BY <1>1, OutboxShape
      <4>2. \A i \in 1 .. Len(outbox) : i \in DOMAIN outbox
        BY <1>4, <4>1
      <4> QED BY <1>1, <4>1, <4>2, LineShape
    <3>2. \A i \in 1 .. Len(inbox) : KnownCall(Line[Len(outbox) + i])
      <4>1. \A i \in 1 .. Len(inbox) : i \in DOMAIN inbox
        BY <1>1 DEF CallsInd
      <4> QED BY <1>1, <4>1, LineShape DEF CallsInd, KnownCalls
    <3>3. DOMAIN Line = 1 .. Len(outbox) + Len(inbox) /\ Len(outbox) \in Nat /\ Len(inbox) \in Nat
      BY <1>1, LineShape
    <3> SUFFICES ASSUME NEW i \in DOMAIN Line, i > Len(outbox) PROVE KnownCall(Line[i])
      BY <3>1, <3>3
    <3>4. i - Len(outbox) \in 1 .. Len(inbox) /\ i = Len(outbox) + (i - Len(outbox))
      BY <3>3
    <3> QED BY <3>2, <3>4
  <2> QED BY <2>2, <2>3 DEF SavesOf, KnownCall
<1>10. /\ \A i \in DOMAIN Line' : ~FromBinding(Line'[i]) /\ Line'[i].do # "delete"
       /\ \A n : \A i \in SavesOf(n)' : i + 1 \in SavesOf(n) /\ Line'[i] = Line[i + 1]
  BY <1>3, <1>7, ReplyOnly DEF FromBinding
<1>11. ASSUME NEW n \in Modes, list'[n] # None
       PROVE  /\ \A i \in SavesOf(n)' : Line'[i].mode = list'[n]
              /\ n \notin robbed => wish'[n] = list'[n]
  <2>1. CASE n = m
    BY <1>6, <1>9, <1>10, <2>1
  <2>2. CASE n # m
    BY <1>6, <1>8, <1>10, <1>11, <2>2 DEF Rests
  <2> QED BY <2>1, <2>2
<1>12. Rests'
  BY <1>3, <1>7, <1>10, <1>11 DEF Rests, FromBinding
<1>13. /\ persistedMode' = draft' /\ persistedPrompt' = PromptKey(draft')
       /\ draft' = Drafted(m, list'[m]) /\ list'[m] # None
  BY <1>3, <1>5, <1>6 DEF Select, PromptKey
<1> QED BY <1>4, <1>12, <1>13, SelectKept DEF PromptKey

(* A save of a card is heard: what it brings is listed, and stored under    *)
(* the draft if that card is open.                                          *)
LEMMA SavedKept ==
  ASSUME EditorInd, EditorInd', KeptParts, outbox # <<>>, outbox' = Tail(outbox), inbox' = inbox,
         NEW c, c = Head(outbox).call, c.do = "save", c.who # "dialog",
         list' = [list EXCEPT ![c.id] = c.mode],
         UNCHANGED <<store, robbed, wish, draft>>,
         persistedMode' = IF Selected = c.id THEN Drafted(c.id, c.mode) ELSE persistedMode,
         persistedPrompt' = IF Selected = c.id THEN PromptKey(Drafted(c.id, c.mode)) ELSE persistedPrompt,
         modeTimer' = modeTimer \/ draft' = persistedMode',
         flow' # None => flow # None /\ flow'.command = flow.command /\ ~flow'.broken
  PROVE  KeptParts'
<1>1. /\ CallsInd /\ PageInd /\ StoreInd /\ StoreTypes /\ CardOpen
  BY DEF EditorInd, StoreInd, KeptParts
<1>2. PICK m, v : m = c.id /\ v = c.mode
  OBVIOUS
<1>3. /\ Line[1] = c /\ 1 \in SavesOf(m) /\ Line[1].mode = v /\ AllAnswered' /\ Stealing = {}
      /\ m \in Modes /\ v \in Mode /\ list[m] # None
  <2>1. /\ Line[1] = c /\ 1 \in DOMAIN Line /\ AllAnswered' /\ Stealing = {} /\ Head(outbox).ok
    BY ReplyOnly
  <2>2. m \in Modes /\ v \in Mode /\ list[m] # None
    BY <1>1, <1>2, <2>1, SavedIsListed
  <2> QED BY <1>2, <2>1, <2>2 DEF SavesOf
<1>4. /\ \A n \in Modes \ {m} : list'[n] = list[n]
      /\ list'[m] = v /\ v # None
  BY <1>1, <1>2, <1>3, NoneAssumption DEF StoreTypes
<1>5. /\ \A n : \A i \in SavesOf(n)' : i + 1 \in SavesOf(n) /\ Line'[i] = Line[i + 1] /\ i \in Nat
      /\ \A n : \A i \in SavesOf(n) : i # 1 => i - 1 \in SavesOf(n)' /\ Line'[i - 1] = Line[i]
      /\ \A i \in DOMAIN Line' : i + 1 \in DOMAIN Line /\ i + 1 # 1 /\ Line'[i] = Line[i + 1]
  BY ReplyOnly
<1>6. PICK o : o = draft.id
  OBVIOUS
<1>7. /\ draft'.id = o
      /\ \A i \in SavesOf(o)' : i + 1 \in SavesOf(o) /\ Line'[i] = Line[i + 1] /\ i \in Nat
      /\ \A i \in SavesOf(o) : i # 1 => i - 1 \in SavesOf(o)' /\ Line'[i - 1] = Line[i]
      /\ Selected' = Selected /\ Undrafted(draft)' = Undrafted(draft)
  BY <1>5, <1>6 DEF Selected, Undrafted
<1>8. Selected = m => draft # None /\ o = m
  BY <1>1, <1>3, <1>6, CardShape
<1>9. Selected # m => /\ list' = list /\ UNCHANGED <<persistedMode, persistedPrompt>>
                      /\ draft # None => o # m
  <2> SUFFICES ASSUME Selected # m
      PROVE  list' = list /\ UNCHANGED <<persistedMode, persistedPrompt>> /\ (draft # None => o # m)
    OBVIOUS
  <2>1. v = list[m]
    BY <1>3 DEF KeptParts, ClosedCards
  <2>2. list' = list
    BY <1>1, <1>2, <2>1 DEF StoreTypes
  <2> QED BY <1>2, <1>6, <2>2 DEF Selected
<1>10. Selected = m => /\ persistedMode' = Drafted(m, v) /\ persistedPrompt' = PromptKey(persistedMode')
                       /\ (Settled' <=> v = Undrafted(draft))
  <2> SUFFICES ASSUME Selected = m
      PROVE  /\ persistedMode' = Drafted(m, v) /\ persistedPrompt' = PromptKey(persistedMode')
             /\ (Settled' <=> v = Undrafted(draft))
    OBVIOUS
  <2>1. persistedMode' = Drafted(m, v) /\ persistedPrompt' = PromptKey(persistedMode')
    BY <1>2 DEF PromptKey
  <2>2. draft \in Drafts /\ draft.id = m
    BY <1>1, <1>6, <1>8 DEF PageInd
  <2>3. draft = Drafted(m, v) <=> v = Undrafted(draft)
    BY <1>3, <2>2 DEF Drafts, Mode, Drafted, Undrafted
  <2> QED BY <2>1, <2>3 DEF Settled
(* Settled it stays: the saves then bring the draft as it is.                *)
<1>11. Settled => Settled'
  <2>1. CASE Selected = m
    BY <1>3, <1>6, <1>8, <1>10, <2>1 DEF KeptParts, VersionsInOrder
  <2>2. CASE Selected # m
    BY <1>9, <2>2 DEF Settled
  <2> QED BY <2>1, <2>2
<1>12. CardOpen'
  <2>1. CASE Selected = m
    BY <1>4, <1>6, <1>8, <1>10, <2>1 DEF CardOpen
  <2>2. CASE Selected # m
    BY <1>9, <2>2 DEF KeptParts, CardOpen
  <2> QED BY <2>1, <2>2
<1>13. ClosedCards'
  <2> SUFFICES ASSUME NEW n \in Modes, list'[n] # None, Selected # n, NEW i \in SavesOf(n)'
      PROVE  Line'[i].mode = list'[n]
    BY <1>7 DEF ClosedCards
  <2>1. list'[n] = list[n]
    BY <1>4, <1>9
  <2>2. i + 1 \in SavesOf(n) /\ Line'[i] = Line[i + 1]
    BY <1>5
  <2> QED BY <2>1, <2>2 DEF KeptParts, ClosedCards
<1>14. PromptsMatch'
  <2> SUFFICES ASSUME draft # None, NEW i \in SavesOf(o)', Line'[i].adopt = "same prompt key"
      PROVE  Line'[i].mode.name = draft.name /\ Line'[i].mode.chord = draft.chord
    BY <1>7 DEF PromptsMatch
  <2>1. i + 1 \in SavesOf(o) /\ Line'[i] = Line[i + 1]
    BY <1>7
  <2>2. \A j \in SavesOf(o) : Line[j].adopt = "same prompt key" =>
          Line[j].mode.name = draft.name /\ Line[j].mode.chord = draft.chord
    BY <1>6 DEF KeptParts, PromptsMatch
  <2> QED BY <2>1, <2>2
<1>15. VersionsInOrder'
  <2> SUFFICES ASSUME draft # None
      PROVE  /\ \A i, j \in SavesOf(o)' :
                  i < j /\ Line'[i].mode = Undrafted(draft) => Line'[j].mode = Undrafted(draft)
             /\ Settled' => \A i \in SavesOf(o)' : Line'[i].mode = Undrafted(draft)
    BY <1>7 DEF VersionsInOrder
  <2>1. ASSUME NEW i \in SavesOf(o)', NEW j \in SavesOf(o)', i < j, Line'[i].mode = Undrafted(draft)
        PROVE  Line'[j].mode = Undrafted(draft)
    <3>1. /\ i + 1 \in SavesOf(o) /\ j + 1 \in SavesOf(o) /\ i + 1 < j + 1
          /\ Line'[i] = Line[i + 1] /\ Line'[j] = Line[j + 1]
      BY <1>7, <2>1
    <3> QED BY <1>6, <2>1, <3>1 DEF KeptParts, VersionsInOrder
  <2>2. ASSUME Settled', NEW i \in SavesOf(o)' PROVE Line'[i].mode = Undrafted(draft)
    <3>1. i + 1 \in SavesOf(o) /\ Line'[i] = Line[i + 1] /\ i + 1 > 1
      <4>1. i + 1 # 1
        BY <1>5 DEF SavesOf
      <4> QED BY <1>7, <4>1
    <3>2. CASE Selected = m
      <4>1. 1 \in SavesOf(o) /\ Line[1].mode = Undrafted(draft)
        BY <1>3, <1>8, <1>10, <2>2, <3>2
      <4> QED BY <1>6, <3>1, <4>1 DEF KeptParts, VersionsInOrder
    <3>3. CASE Selected # m
      <4>1. Settled
        BY <1>9, <2>2, <3>3 DEF Settled
      <4> QED BY <1>6, <3>1, <4>1 DEF KeptParts, VersionsInOrder
    <3> QED BY <3>2, <3>3
  <2> QED BY <2>1, <2>2
<1>16. DraftIsServed'
  <2> SUFFICES ASSUME draft # None, ~modeTimer, ~Settled'
      PROVE  \E i \in SavesOf(o)' : Line'[i].mode = Undrafted(draft)
    BY <1>7 DEF DraftIsServed, Settled
  <2>1. PICK i \in SavesOf(o) : Line[i].mode = Undrafted(draft)
    BY <1>6, <1>11 DEF KeptParts, DraftIsServed
  <2>2. i # 1
    <3>1. CASE Selected = m
      BY <1>3, <1>10, <2>1, <3>1
    <3>2. CASE Selected # m
      BY <1>2, <1>3, <1>9, <2>1, <3>2 DEF SavesOf
    <3> QED BY <3>1, <3>2
  <2>3. i - 1 \in SavesOf(o)' /\ Line'[i - 1].mode = Undrafted(draft)
    BY <1>7, <2>1, <2>2
  <2> QED BY <2>3
<1>17. \A i \in DOMAIN Line : ~FromBinding(Line[i])
  BY <1>3 DEF KeptParts, DialogAlone, FromBinding
<1>18. DialogAlone'
  BY <1>5, <1>17 DEF DialogAlone, FromBinding
<1>19. CommandWaits'
  <2> SUFFICES ASSUME flow' # None PROVE CommandWaits'
    BY DEF CommandWaits
  <2>1. flow # None /\ flow'.command = flow.command /\ ~flow'.broken /\ draft # None
    BY DEF KeptParts, CommandWaits
  <2>2. \A i \in DOMAIN Line' :
          /\ Line'[i].do = "save" /\ Line'[i].who # "dialog"
          /\ IsFlush(Line'[i]) => Line'[i].id = draft.id /\ Line'[i].mode = Undrafted(draft)
    BY <1>5, <2>1 DEF KeptParts, CommandWaits
  <2>3. flow.command.do = "expand" =>
          /\ flow.command.id # draft.id
          /\ list'[flow.command.id] # None /\ flow.command.mode = list'[flow.command.id]
    <3> SUFFICES ASSUME flow.command.do = "expand"
        PROVE  /\ flow.command.id # draft.id
               /\ list'[flow.command.id] # None /\ flow.command.mode = list'[flow.command.id]
      OBVIOUS
    <3>1. PICK e : e = flow.command.id
      OBVIOUS
    <3>2. e # o /\ list[e] # None /\ flow.command.mode = list[e] /\ e \in Modes
      BY <1>1, <1>6, <2>1, <3>1 DEF KeptParts, CommandWaits, PageInd, KnownCommand
    <3>3. list'[e] = list[e]
      BY <1>4, <1>8, <1>9, <3>2
    <3> QED BY <1>6, <3>1, <3>2, <3>3
  <2>4. PICK g : g = flow'
    OBVIOUS
  <2> QED BY <1>7, <2>1, <2>2, <2>3 DEF CommandWaits, IsFlush
<1>20. CreatesAlone'
  BY <1>5, <1>11 DEF KeptParts, CreatesAlone
<1>21. DeletesOne'
  <2> SUFFICES ASSUME NEW i \in DOMAIN Line', Line'[i].do = "delete"
      PROVE  /\ Line'[i].selected <=> Selected = Line'[i].id
             /\ \A j \in DOMAIN Line' : Line'[j].do = "delete" => i = j
    BY <1>7 DEF DeletesOne
  <2>1. i + 1 \in DOMAIN Line /\ Line'[i] = Line[i + 1] /\ i \in Nat
    BY ReplyOnly
  <2>2. ASSUME NEW j \in DOMAIN Line', Line'[j].do = "delete" PROVE i = j
    <3>1. j + 1 \in DOMAIN Line /\ Line'[j] = Line[j + 1] /\ j \in Nat
      BY ReplyOnly
    <3>2. i + 1 = j + 1
      BY <2>1, <2>2, <3>1 DEF KeptParts, DeletesOne
    <3> QED BY <2>1, <3>1, <3>2
  <2> QED BY <2>1, <2>2 DEF KeptParts, DeletesOne
<1>22. Wished'
  <2>1. ~Dialled
    BY <1>3 DEF Dialled, FromBinding
  <2>2. ~Dialled' /\ Stealing' = {}
    <3>1. CallsInd'
      BY DEF EditorInd
    <3>2. Line' # <<>> => 1 \in DOMAIN Line'
      <4>1. inbox' \in Seq(AllCalls) /\ CallsOf(outbox') \in Seq(AllCalls)
        BY <3>1, CallsOfShape DEF CallsInd
      <4>2. Line' \in Seq(AllCalls)
        BY <4>1 DEF Line, CallsOf
      <4> QED BY <4>2
    <3>3. ~Dialled'
      BY <1>5, <1>17, <3>2 DEF Dialled, FromBinding
    <3> QED BY <3>3 DEF Stealing
  <2> SUFFICES ASSUME NEW n \in Modes \ robbed, list'[n] # None
      PROVE  wish[n] = IF Selected = n THEN Undrafted(draft) ELSE list'[n]
    BY <1>7, <2>2 DEF Wished
  <2>3. list[n] # None /\ (Selected # n => list'[n] = list[n])
    BY <1>3, <1>4, <1>9
  <2> QED BY <1>3, <2>1, <2>3 DEF KeptParts, Wished
<1> QED BY <1>3, <1>12, <1>13, <1>14, <1>15, <1>16, <1>18, <1>19, <1>20, <1>21, <1>22 DEF KeptParts

(* The dialog's save is heard: all others on their way are deletions.       *)
LEMMA HotkeySavedKept ==
  ASSUME EditorInd, EditorInd', KeptParts, outbox # <<>>, outbox' = Tail(outbox), inbox' = inbox,
         NEW c, c = Head(outbox).call, c.do = "save", c.who = "dialog",
         list' = [list EXCEPT ![c.id] = c.mode],
         UNCHANGED <<store, robbed, wish, flow>>,
         IF Selected = c.id
           THEN draft' = Drafted(c.id, c.mode) /\ persistedMode' = draft' /\ persistedPrompt' = PromptKey(draft')
           ELSE UNCHANGED <<draft, persistedMode, persistedPrompt>>
  PROVE  KeptParts'
<1>1. /\ CallsInd /\ PageInd /\ StoreInd /\ StoreTypes /\ CardOpen
  BY DEF EditorInd, StoreInd, KeptParts
<1>2. PICK m, v : m = c.id /\ v = c.mode
  OBVIOUS
<1>3. /\ Line[1] = c /\ 1 \in DOMAIN Line /\ Line # <<>> /\ AllAnswered' /\ Stealing = {}
      /\ m \in Modes /\ v \in Mode /\ list[m] # None /\ FromBinding(Line[1])
  <2>1. /\ Line[1] = c /\ 1 \in DOMAIN Line /\ Line # <<>> /\ AllAnswered' /\ Stealing = {} /\ Head(outbox).ok
    BY ReplyOnly
  <2>2. m \in Modes /\ v \in Mode /\ list[m] # None
    BY <1>1, <1>2, <2>1, SavedIsListed
  <2> QED BY <2>1, <2>2 DEF FromBinding
<1>4. /\ \A n \in Modes \ {m} : list'[n] = list[n]
      /\ list'[m] = v /\ v # None
  BY <1>1, <1>2, <1>3, NoneAssumption DEF StoreTypes
<1>5. flow = None /\ Settled /\ \A i \in DOMAIN Line : i # 1 => Line[i].do = "delete"
  <2>1. flow = None
    BY <1>3 DEF KeptParts, CommandWaits, FromBinding
  <2> QED BY <1>3, <2>1 DEF KeptParts, DialogAlone
<1>6. /\ \A i \in DOMAIN Line' : /\ i \in Nat /\ i + 1 \in DOMAIN Line /\ Line'[i] = Line[i + 1]
                                 /\ Line'[i].do = "delete"
      /\ \A n : SavesOf(n)' = {}
  <2>1. \A i \in DOMAIN Line' : /\ i \in Nat /\ i + 1 \in DOMAIN Line /\ Line'[i] = Line[i + 1]
                                /\ Line'[i].do = "delete"
    BY <1>5, ReplyOnly
  <2> QED BY <2>1 DEF SavesOf
<1>7. /\ Selected' = Selected /\ Settled'
      /\ Selected = m => draft' = Drafted(m, v) /\ Undrafted(draft)' = v /\ draft'.id = m
      /\ Selected # m => draft' = draft
  <2>1. CASE Selected = m
    <3>1. /\ draft' = Drafted(m, v) /\ persistedMode' = draft' /\ draft' # None
          /\ Undrafted(draft') = v /\ draft'.id = m
      BY <1>2, <1>3, <2>1, DraftShape, DraftOfMode
    <3> QED BY <2>1, <3>1 DEF Selected, Settled, Undrafted
  <2>2. CASE Selected # m
    BY <1>2, <1>5, <2>2 DEF Selected, Settled
  <2> QED BY <2>1, <2>2
<1>8. CardOpen'
  <2>1. CASE Selected = m
    BY <1>2, <1>4, <1>7, <2>1 DEF CardOpen
  <2>2. CASE Selected # m
    <3>1. draft # None => draft.id \in Modes \ {m}
      BY <1>1, <2>2, CardShape
    <3> QED BY <1>1, <1>2, <1>4, <2>2, <3>1 DEF CardOpen
  <2> QED BY <2>1, <2>2
<1>9. ClosedCards' /\ PromptsMatch' /\ VersionsInOrder' /\ DraftIsServed'
  BY <1>6, <1>7 DEF ClosedCards, PromptsMatch, VersionsInOrder, DraftIsServed
<1>10. DialogAlone' /\ CommandWaits' /\ CreatesAlone'
  BY <1>5, <1>6 DEF DialogAlone, CommandWaits, CreatesAlone, FromBinding
<1>11. DeletesOne'
  <2> SUFFICES ASSUME NEW i \in DOMAIN Line'
      PROVE  /\ Line'[i].selected <=> Selected = Line'[i].id
             /\ \A j \in DOMAIN Line' : Line'[j].do = "delete" => i = j
    BY <1>7 DEF DeletesOne
  <2>1. /\ i \in Nat /\ i + 1 \in DOMAIN Line /\ Line'[i] = Line[i + 1] /\ Line'[i].do = "delete"
    BY <1>6
  <2>2. ASSUME NEW j \in DOMAIN Line' PROVE i = j
    <3>1. j \in Nat /\ j + 1 \in DOMAIN Line /\ Line'[j] = Line[j + 1] /\ Line'[j].do = "delete"
      BY <1>6
    <3>2. i + 1 = j + 1
      BY <2>1, <3>1 DEF KeptParts, DeletesOne
    <3> QED BY <2>1, <3>1, <3>2
  <2> QED BY <2>1, <2>2 DEF KeptParts, DeletesOne
<1>12. Wished'
  <2>1. ~Dialled' /\ Stealing' = {}
    <3>1. CallsInd'
      BY DEF EditorInd
    <3>2. Line' # <<>> => 1 \in DOMAIN Line'
      <4>1. inbox' \in Seq(AllCalls) /\ CallsOf(outbox') \in Seq(AllCalls)
        BY <3>1, CallsOfShape DEF CallsInd
      <4>2. Line' \in Seq(AllCalls)
        BY <4>1 DEF Line, CallsOf
      <4> QED BY <4>2
    <3>3. ~Dialled'
      BY <1>6, <3>2 DEF Dialled, FromBinding
    <3> QED BY <3>3 DEF Stealing
  <2>2. Dialled
    BY <1>3 DEF Dialled
  <2> SUFFICES ASSUME NEW n \in Modes \ robbed, list'[n] # None
      PROVE  wish[n] = IF Selected = n THEN Undrafted(draft)' ELSE list'[n]
    BY <1>7, <2>1 DEF Wished
  <2>3. CASE n = m
    <3>1. wish[m] = v
      BY <1>2, <1>3, <2>2, <2>3 DEF KeptParts, Wished
    <3> QED BY <1>4, <1>7, <2>3, <3>1
  <2>4. CASE n # m
    <3>1. list'[n] = list[n]
      BY <1>4, <2>4
    <3>2. wish[n] = IF Selected = n THEN Undrafted(draft) ELSE list[n]
      BY <1>2, <1>3, <2>2, <2>4, <3>1 DEF KeptParts, Wished
    <3>3. Selected = n => Undrafted(draft)' = Undrafted(draft)
      BY <1>7, <2>4 DEF Undrafted
    <3> QED BY <3>1, <3>2, <3>3
  <2> QED BY <2>3, <2>4
<1> QED BY <1>3, <1>8, <1>9, <1>10, <1>11, <1>12 DEF KeptParts

(* The last of a command's saves is heard, and the command goes on.         *)
LEMMA LastFlushKept ==
  ASSUME EditorInd, EditorInd', KeptParts, outbox # <<>>, outbox' = Tail(outbox),
         NEW c, c = Head(outbox).call, IsFlush(c), flow # None, flow' = None,
         NEW g, g = flow.command, inbox' = inbox \o Follows(g),
         list' = [list EXCEPT ![c.id] = c.mode], UNCHANGED <<store, robbed, wish>>,
         g.do = "collapse" => Select(None),
         g.do = "expand" => Select(Drafted(g.id, g.mode)),
         g.do \notin {"collapse", "expand"} =>
           /\ draft' = draft /\ persistedMode' = Drafted(c.id, c.mode)
           /\ persistedPrompt' = PromptKey(persistedMode')
  PROVE  KeptParts'
<1>1. /\ CallsInd /\ PageInd /\ StoreInd /\ StoreTypes /\ CardOpen
  BY DEF EditorInd, StoreInd, KeptParts
<1>2. PICK s : s = Follows(g)
  OBVIOUS
<1>3. s \in Seq(AllCalls) /\ \A i \in DOMAIN s : s[i].do = "create"
  <2>1. CASE g.do = "create"
    <3>1. PICK b : b = [do |-> "create", id |-> None, who |-> "page"]
      OBVIOUS
    <3>2. b \in AllCalls /\ b.do = "create" /\ s = <<b>>
      BY <1>2, <2>1, <3>1 DEF Follows, AllCalls, Creates
    <3> QED BY <3>2
  <2>2. CASE g.do # "create"
    BY <1>2, <2>2 DEF Follows
  <2> QED BY <2>1, <2>2
<1>4. /\ Line[1] = c /\ 1 \in DOMAIN Line /\ AllAnswered' /\ Head(outbox).ok /\ Stealing = {}
      /\ \A i \in DOMAIN Line' :
           \/ i + 1 \in DOMAIN Line /\ i + 1 # 1 /\ i \in Nat /\ Line'[i] = Line[i + 1]
           \/ \E j \in DOMAIN s : Line'[i] = s[j]
  BY <1>2, <1>3, ReplyRead
<1>5. PICK m, v : m = c.id /\ v = c.mode
  OBVIOUS
<1>6. /\ draft # None /\ m = draft.id /\ v = Undrafted(draft) /\ c.do = "save" /\ c.who = "flush"
      /\ \A i \in DOMAIN Line : Line[i].do = "save" /\ Line[i].who # "dialog"
      /\ g.do = "expand" => g.id # m /\ list[g.id] # None /\ g.mode = list[g.id]
  <2>1. /\ draft # None
        /\ \A i \in DOMAIN Line :
             /\ Line[i].do = "save" /\ Line[i].who # "dialog"
             /\ IsFlush(Line[i]) => Line[i].id = draft.id /\ Line[i].mode = Undrafted(draft)
        /\ g.do = "expand" => g.id # draft.id /\ list[g.id] # None /\ g.mode = list[g.id]
    BY DEF KeptParts, CommandWaits
  <2>2. IsFlush(Line[1])
    BY <1>4
  <2> QED BY <1>4, <1>5, <2>1, <2>2 DEF IsFlush
<1>7. m \in Modes /\ v \in Mode /\ list[m] # None /\ v # None /\ Selected = m
  <2>1. m \in Modes /\ v \in Mode /\ list[m] # None
    BY <1>1, <1>4, <1>5, <1>6, SavedIsListed
  <2> QED BY <1>6, <2>1, NoneAssumption DEF Selected
<1>8. \A n \in Modes \ {m} : list'[n] = list[n]
  BY <1>1, <1>5, <1>7 DEF StoreTypes
<1>9. list'[m] = v
  BY <1>1, <1>5, <1>7 DEF StoreTypes
<1>10. \A n : \A i \in SavesOf(n)' : i + 1 \in SavesOf(n) /\ i + 1 > 1 /\ Line'[i] = Line[i + 1]
  <2> SUFFICES ASSUME NEW n, NEW i \in SavesOf(n)'
      PROVE  i + 1 \in SavesOf(n) /\ i + 1 > 1 /\ Line'[i] = Line[i + 1]
    OBVIOUS
  <2>1. i \in DOMAIN Line' /\ Line'[i].do = "save"
    BY DEF SavesOf
  <2>2. i + 1 \in DOMAIN Line /\ i + 1 # 1 /\ i \in Nat /\ Line'[i] = Line[i + 1]
    BY <1>3, <1>4, <2>1
  <2> QED BY <2>2 DEF SavesOf
<1>11. \A i \in DOMAIN Line' : ~FromBinding(Line'[i]) /\ Line'[i].do # "delete"
  BY <1>3, <1>4, <1>6 DEF FromBinding
<1>12. ASSUME NEW n \in Modes, list'[n] # None
       PROVE  /\ \A i \in SavesOf(n)' : Line'[i].mode = list'[n]
              /\ n \notin robbed => wish[n] = list'[n]
  <2>1. ~Dialled
    BY <1>4, <1>6 DEF Dialled, FromBinding
  <2>2. CASE n = m
    <3>1. 1 \in SavesOf(m) /\ Line[1].mode = Undrafted(draft)
      BY <1>4, <1>5, <1>6 DEF SavesOf
    <3>2. \A i \in SavesOf(m) : i > 1 => Line[i].mode = v
      BY <1>6, <3>1 DEF KeptParts, VersionsInOrder
    <3>3. \A i \in SavesOf(m)' : Line'[i].mode = v
      BY <1>10, <3>2
    <3>4. m \notin robbed => wish[m] = v
      BY <1>4, <1>6, <1>7, <2>1 DEF KeptParts, Wished
    <3> QED BY <1>9, <2>2, <3>3, <3>4
  <2>3. CASE n # m
    <3>1. list'[n] = list[n] /\ Selected # n
      BY <1>7, <1>8, <2>3
    <3>2. \A i \in SavesOf(n) : Line[i].mode = list[n]
      BY <1>12, <3>1 DEF KeptParts, ClosedCards
    <3>3. n \notin robbed => wish[n] = list[n]
      BY <1>4, <1>12, <2>1, <3>1 DEF KeptParts, Wished
    <3> QED BY <1>10, <3>1, <3>2, <3>3
  <2> QED BY <2>2, <2>3
<1>13. Rests'
  BY <1>4, <1>11, <1>12 DEF Rests, FromBinding
<1>14. CASE g.do = "collapse"
  <2>1. draft' = None /\ persistedMode' = draft' /\ persistedPrompt' = PromptKey(draft')
    BY <1>14 DEF Select, PromptKey
  <2> QED BY <1>13, <2>1, SelectKept DEF PromptKey
<1>15. CASE g.do = "expand"
  <2>1. PICK e, d : e = g.id /\ d = Drafted(g.id, g.mode)
    OBVIOUS
  <2>2. draft' = d /\ persistedMode' = draft' /\ persistedPrompt' = PromptKey(draft')
    BY <1>15, <2>1 DEF Select, PromptKey
  <2>3. e \in Modes
    BY <1>1, <1>15, <2>1 DEF PageInd, KnownCommand
  <2>4. list'[e] # None /\ draft' = Drafted(e, list'[e])
    BY <1>6, <1>8, <1>15, <2>1, <2>2, <2>3
  <2> QED BY <1>13, <2>2, <2>3, <2>4, SelectKept DEF PromptKey
<1>16. CASE g.do \notin {"collapse", "expand"}
  <2>1. draft' = draft /\ persistedMode' = Drafted(m, v) /\ persistedPrompt' = PromptKey(persistedMode')
    BY <1>5, <1>16
  <2>2. draft = Drafted(m, v)
    BY <1>1, <1>6 DEF PageInd, Drafts, Drafted, Undrafted
  <2>3. /\ persistedMode' = draft' /\ persistedPrompt' = PromptKey(draft')
        /\ draft' = Drafted(m, list'[m]) /\ list'[m] # None
    BY <1>7, <1>9, <2>1, <2>2 DEF PromptKey
  <2> QED BY <1>7, <1>13, <2>3, SelectKept DEF PromptKey
<1> QED BY <1>14, <1>15, <1>16

(* A card's save that is still what the draft was is what the draft is.     *)
LEMMA AdoptedIsDraft ==
  ASSUME EditorInd, KeptParts, NEW c \in AllCalls, c.do = "save", c.who # "dialog",
         1 \in DOMAIN Line, Line[1] = c, Adopted(c)
  PROVE  Drafted(c.id, c.mode) = draft
<1>1. PageInd /\ StoreTypes /\ CardOpen /\ c.id \in Modes /\ c.mode \in Mode
  BY SaveShape DEF EditorInd, StoreInd, KeptParts
<1>2. draft # None /\ draft \in Drafts /\ draft.id = c.id
  BY <1>1, CardShape DEF Adopted
<1>3. Undrafted(draft) = c.mode
  <2>1. CASE c.adopt = "same mode key"
    BY <2>1 DEF Adopted
  <2>2. CASE c.adopt = "same prompt key"
    <3>1. draft.body = c.mode.body
      BY <2>2 DEF Adopted
    <3>2. c.mode.name = draft.name /\ c.mode.chord = draft.chord
      BY <1>2, <2>2 DEF KeptParts, PromptsMatch, SavesOf
    <3> QED BY <1>1, <1>2, <3>1, <3>2 DEF Undrafted, Mode, Drafts
  <2> QED BY <2>1, <2>2, SaveShape
<1> QED BY <1>2, <1>3 DEF Drafted, Undrafted, Drafts

LEMMA SavesKept ==
  ASSUME EditorInd, EditorInd', KeptParts, outbox # <<>>, outbox' = Tail(outbox),
         NEW c, c = Head(outbox).call, SaveReply(c, Head(outbox).ok),
         UNCHANGED storeVars
  PROVE  KeptParts'
<1>1. /\ CallsInd /\ PageInd /\ StoreInd /\ StoreTypes /\ FlowCounts
  BY DEF EditorInd, StoreInd
<1>2. /\ c.do = "save" /\ UNCHANGED <<store, wish, robbed>>
      /\ IF c.who = "flush" /\ Proceeds(Head(outbox).ok) /\ flow.command.do \in {"collapse", "expand"}
           THEN list' = Listed(c) /\ Proceed(flow.command) /\ FlowReplied(Head(outbox).ok)
           ELSE /\ IF Head(outbox).ok THEN SaveReplied(c)
                                      ELSE UNCHANGED <<list, draft, persistedMode, persistedPrompt>>
                /\ IF Head(outbox).ok /\ list[c.id] # None /\ Adopted(c) THEN Rearm ELSE UNCHANGED timerVars
                /\ IF c.who = "flush" THEN FlowReplied(Head(outbox).ok) ELSE UNCHANGED <<flow, inbox>>
  BY DEF SaveReply, storeVars
<1>3. /\ Head(outbox).ok = TRUE /\ Line[1] = c /\ 1 \in DOMAIN Line /\ c \in AllCalls
  <2>1. outbox \in Seq(Replies)
    BY <1>1 DEF CallsInd
  <2>2. /\ 1 \in DOMAIN outbox /\ outbox[1] = Head(outbox) /\ Head(outbox) \in Replies
        /\ Len(outbox) \in Nat /\ 1 \in 1 .. Len(outbox)
    BY <2>1
  <2>3. Head(outbox).ok = TRUE /\ c \in AllCalls
    BY <2>2 DEF KeptParts, AllAnswered, Replies
  <2>4. Line[1] = c /\ DOMAIN Line = 1 .. Len(outbox) + Len(inbox) /\ Len(inbox) \in Nat
    BY <1>1, <2>2, LineShape
  <2> QED BY <2>2, <2>3, <2>4
<1>4. list[c.id] # None /\ c.id \in Modes /\ c.mode \in Mode /\ Listed(c) = [list EXCEPT ![c.id] = c.mode]
  BY <1>1, <1>2, <1>3, SavedIsListed
<1>5. IsFlush(c) => /\ flow # None /\ flow.left \in Nat /\ flow.left > 0 /\ ~flow.broken
                    /\ flow.command.do \in {"collapse", "create", "expand"}
                    /\ draft # None /\ c.id = draft.id /\ c.mode = Undrafted(draft)
  <2> SUFFICES ASSUME IsFlush(c)
      PROVE  /\ flow # None /\ flow.left \in Nat /\ flow.left > 0 /\ ~flow.broken
             /\ flow.command.do \in {"collapse", "create", "expand"}
             /\ draft # None /\ c.id = draft.id /\ c.mode = Undrafted(draft)
    OBVIOUS
  <2>1. flow # None
    BY <1>1, <1>3, NoFlush
  <2>2. flow \in Flow
    BY <1>1, <2>1 DEF PageInd
  <2>3. flow.left \in Nat /\ flow.left > 0 /\ flow.command.do \in {"collapse", "create", "expand"}
    BY <1>1, <2>1, <2>2, FlowShape, CommandShape DEF FlowCounts
  <2> QED BY <1>3, <2>1, <2>3 DEF KeptParts, CommandWaits
<1>6. c.who = "flush" <=> IsFlush(c)
  BY <1>2 DEF IsFlush
<1>7. PICK g, b : g = flow.command /\ b = Drafted(c.id, c.mode)
  OBVIOUS
<1>8. CASE c.who = "flush" /\ Proceeds(TRUE) /\ g.do \in {"collapse", "expand"}
  <2>1. list' = [list EXCEPT ![c.id] = c.mode] /\ Proceed(g) /\ FlowReplied(TRUE) /\ flow.left = 1
    BY <1>2, <1>3, <1>4, <1>7, <1>8 DEF Proceeds
  <2>2. flow' = None /\ inbox' = inbox \o Follows(g)
    BY <1>5, <1>6, <1>7, <1>8, <2>1 DEF FlowReplied
  <2>3. /\ g.do = "collapse" => Select(None)
        /\ g.do = "expand" => Select(Drafted(g.id, g.mode))
    BY <1>8, <2>1 DEF Proceed
  <2> QED BY <1>2, <1>5, <1>6, <1>7, <1>8, <2>1, <2>2, <2>3, LastFlushKept
<1>9. CASE ~(c.who = "flush" /\ Proceeds(TRUE) /\ g.do \in {"collapse", "expand"})
  <2>1. /\ list' = [list EXCEPT ![c.id] = c.mode]
        /\ persistedMode' = IF Selected = c.id THEN b ELSE persistedMode
        /\ persistedPrompt' = IF Selected = c.id THEN PromptKey(b) ELSE persistedPrompt
        /\ draft' = IF Adopted(c) THEN b ELSE draft
        /\ IF Adopted(c) THEN Rearm ELSE UNCHANGED timerVars
        /\ IF c.who = "flush" THEN FlowReplied(TRUE) ELSE UNCHANGED <<flow, inbox>>
    BY <1>2, <1>3, <1>4, <1>7, <1>9 DEF SaveReplied
  <2>2. CASE c.who = "dialog"
    <3>1. Adopted(c) <=> Selected = c.id
      <4>1. c.adopt = "if selected"
        BY <1>2, <1>3, <2>2, SaveShape
      <4> QED BY <4>1 DEF Adopted
    <3>2. UNCHANGED <<flow, inbox>>
      BY <2>1, <2>2
    <3>3. CASE Selected = c.id
      <4>1. draft' = b /\ persistedMode' = draft' /\ persistedPrompt' = PromptKey(draft')
        BY <2>1, <3>1, <3>3 DEF PromptKey
      <4> QED BY <1>2, <1>7, <2>1, <2>2, <3>2, <3>3, <4>1, HotkeySavedKept DEF PromptKey
    <3>4. CASE Selected # c.id
      <4>1. UNCHANGED <<draft, persistedMode, persistedPrompt>>
        BY <2>1, <3>1, <3>4
      <4> QED BY <1>2, <2>1, <2>2, <3>2, <3>4, <4>1, HotkeySavedKept
    <3> QED BY <3>3, <3>4
  <2>3. CASE c.who # "dialog"
    <3>1. draft' = draft
      BY <1>2, <1>3, <1>7, <2>1, <2>3, AdoptedIsDraft
    <3>2. modeTimer' = modeTimer \/ draft' = persistedMode'
      <4>1. CASE Adopted(c)
        <5>1. draft' = b /\ Selected = c.id
          BY <2>1, <4>1 DEF Adopted
        <5> QED BY <2>1, <5>1
      <4>2. CASE ~Adopted(c)
        BY <2>1, <4>2 DEF timerVars
      <4> QED BY <4>1, <4>2
    <3>3. CASE c.who = "flush" /\ flow.left = 1
      <4>1. Proceeds(TRUE) /\ g.do \notin {"collapse", "expand"}
        BY <1>5, <1>6, <1>9, <3>3 DEF Proceeds
      <4>2. flow' = None /\ inbox' = inbox \o Follows(g)
        BY <1>5, <1>6, <1>7, <2>1, <3>3 DEF FlowReplied
      <4>3. Selected = c.id
        BY <1>5, <1>6, <3>3 DEF Selected
      <4>4. draft' = draft /\ persistedMode' = Drafted(c.id, c.mode) /\ persistedPrompt' = PromptKey(persistedMode')
        BY <1>7, <2>1, <3>1, <4>3 DEF PromptKey
      <4> QED BY <1>2, <1>5, <1>6, <1>7, <2>1, <3>3, <4>1, <4>2, <4>4, LastFlushKept
    <3>4. CASE ~(c.who = "flush" /\ flow.left = 1)
      <4>1. /\ inbox' = inbox
            /\ flow' # None => flow # None /\ flow'.command = flow.command /\ ~flow'.broken
        <5>1. CASE c.who = "flush"
          <6>1. flow.left > 1
            BY <1>5, <1>6, <3>4, <5>1
          <6>2. flow' = [flow EXCEPT !.left = @ - 1, !.broken = (flow.broken \/ ~TRUE)] /\ inbox' = inbox
            BY <2>1, <5>1, <6>1 DEF FlowReplied
          <6>3. flow \in Flow /\ flow # None /\ ~flow.broken
            BY <1>1, <1>5, <1>6, <5>1 DEF PageInd
          <6>4. flow'.command = flow.command /\ ~flow'.broken
            BY <6>2, <6>3 DEF Flow
          <6> QED BY <6>2, <6>3, <6>4
        <5>2. CASE c.who # "flush"
          <6>1. UNCHANGED <<flow, inbox>>
            BY <2>1, <5>2
          <6> QED BY <6>1 DEF KeptParts, CommandWaits
        <5> QED BY <5>1, <5>2
      <4> QED BY <1>2, <1>7, <2>1, <2>3, <3>1, <3>2, <4>1, SavedKept
    <3> QED BY <3>3, <3>4
  <2> QED BY <2>2, <2>3
<1> QED BY <1>3, <1>7, <1>8, <1>9

LEMMA RepliesKept ==
  ASSUME EditorInd, EditorInd', KeptParts, RendererReceives
  PROVE  KeptParts'
<1>1. PICK r : r = Head(outbox)
  OBVIOUS
<1>2. /\ outbox # <<>> /\ outbox' = Tail(outbox) /\ UNCHANGED storeVars
      /\ SaveReply(r.call, r.ok) \/ CreateReply(r.call, r.ok) \/ DeleteReply(r.call, r.ok)
  BY <1>1 DEF RendererReceives
<1> QED BY <1>1, <1>2, SavesKept, CreatedKept, DeletedKept

(* What has failed or crossed stays so.                                      *)
LEMMA CrossedStays ==
  ASSUME NEW x, Crossing(x), ~crossed'
  PROVE  ~crossed
BY DEF Crossing

LEMMA ActKeeps ==
  ASSUME Act
  PROVE  failed' = failed
BY DEF Act

LEMMA KeptStep == EditorInd /\ EditorInd' /\ KeptInd /\ [EditorNext]_editorVars => KeptInd'
<1> SUFFICES ASSUME EditorInd, EditorInd', KeptInd, [EditorNext]_editorVars, ~failed', ~crossed'
    PROVE  KeptParts'
  BY DEF KeptInd
<1>1. CallsInd'
  BY DEF EditorInd
<1>2. CASE UNCHANGED editorVars
  <2>1. UNCHANGED <<store, list, inbox, outbox, robbed, wish, draft, persistedMode, persistedPrompt,
                     modeTimer, flow, failed, crossed>>
    BY <1>2 DEF editorVars, storeVars, draftVars, timerVars, historyVars
  <2> QED BY <1>1, <2>1, RestKept DEF KeptInd
<1>3. CASE MainReceives
  <2>1. ~failed
    <3>1. PICK c : HandleSave(c) \/ HandleCreate(c) \/ HandleDelete(c) \/ CallFails(c)
      BY <1>3 DEF MainReceives
    <3>2. (failed' <=> failed) \/ (\E b : failed' = (failed \/ b)) \/ failed'
      BY <3>1 DEF HandleSave, HandleCreate, HandleDelete, CallFails
    <3> QED BY <3>2
  <2>2. ~crossed
    BY <1>3 DEF MainReceives
  <2> QED BY <1>3, <2>1, <2>2, MainKept DEF KeptInd
<1>4. CASE RendererReceives
  <2>1. ~crossed /\ ~failed
    BY <1>4 DEF RendererReceives, SaveReply, CreateReply, DeleteReply
  <2> QED BY <1>4, <2>1, RepliesKept DEF KeptInd
<1>5. CASE TimerFires
  <2>1. ~crossed /\ ~failed
    BY <1>5 DEF TimerFires, historyVars
  <2> QED BY <1>1, <1>5, <2>1, TimersKept DEF KeptInd
<1>6. CASE (\E name \in Names : EditName(name)) \/ (\E body \in Bodies : EditBody(body))
  <2>1. ~crossed /\ ~failed
    <3>1. Act /\ \E x : Crossing(x)
      <4>1. ASSUME NEW name \in Names, EditName(name) PROVE Act /\ \E x : Crossing(x)
        BY <4>1, Zenon DEF EditName, EditCrosses
      <4>2. ASSUME NEW body \in Bodies, EditBody(body) PROVE Act /\ \E x : Crossing(x)
        BY <4>2, Zenon DEF EditBody, EditCrosses
      <4> QED BY <1>6, <4>1, <4>2
    <3> QED BY <3>1, CrossedStays, ActKeeps
  <2> QED BY <1>6, <2>1, EditsKept DEF KeptInd
<1>7. CASE Create \/ \E m \in Modes : Toggle(m)
  <2>1. ~crossed /\ ~failed
    <3>1. Act /\ \E x : Crossing(x)
      BY <1>7, Zenon DEF Create, Toggle
    <3> QED BY <3>1, CrossedStays, ActKeeps
  <2> QED BY <1>7, <2>1, CommandsKept DEF KeptInd
<1>8. CASE LeavePage
  <2>1. ~crossed /\ ~failed
    BY <1>8 DEF LeavePage, Act
  <2> QED BY <1>1, <1>8, <2>1, LeaveKept DEF KeptInd
<1>9. CASE Clear \/ \E chord \in Chords : Commit(chord)
  <2>1. ~crossed /\ ~failed
    <3>1. Act /\ \E x : Crossing(x)
      BY <1>9, Zenon DEF Clear, Commit, DialogSaves
    <3> QED BY <3>1, CrossedStays, ActKeeps
  <2> QED BY <1>1, <1>9, <2>1, HotkeysKept DEF KeptInd
<1>10. ASSUME NEW m \in Modes, Delete(m) PROVE KeptParts'
  <2>1. ~crossed /\ ~failed
    BY <1>10 DEF Delete, Crossing
  <2> QED BY <1>1, <1>10, <2>1, DeleteKept DEF KeptInd
<1>11. CASE CloseDialog \/ AskDelete \/ Refuse \/ \E m \in Modes : OpenDialog(m)
  <2>1. UNCHANGED <<store, list, inbox, outbox, robbed, wish, draft, persistedMode, persistedPrompt,
                     modeTimer, flow, failed, crossed>>
    BY <1>11 DEF CloseDialog, AskDelete, Refuse, OpenDialog, Act, storeVars, draftVars, timerVars, historyVars
  <2> QED BY <1>1, <2>1, RestKept DEF KeptInd
<1> QED BY <1>2, <1>3, <1>4, <1>5, <1>6, <1>7, <1>8, <1>9, <1>10, <1>11 DEF EditorNext, UserStep

(* With nothing on its way a settled card, and every closed one, is stored. *)
LEMMA KeptMeans == EditorInd /\ KeptInd => EntriesAreKept
<1> SUFFICES ASSUME EditorInd, KeptInd, Quiet, ~failed, ~crossed, NEW m \in Modes \ robbed
    PROVE  store[m] = wish[m]
  BY DEF EntriesAreKept
<1>1. /\ KeptParts /\ CallsInd /\ PageInd /\ StoreInd /\ StoreTypes /\ CardOpen
      /\ inbox = <<>> /\ outbox = <<>> /\ ~modeTimer
  BY DEF KeptInd, KeptParts, EditorInd, StoreInd, Quiet
<1>2. Line = <<>>
  <2>1. CallsOf(outbox) = <<>>
    BY <1>1 DEF CallsOf
  <2> QED BY <1>1, <2>1 DEF Line
<1>3. Settled
  <2>1. draft = None => Settled
    BY <1>1, CardShape
  <2>2. \A n : SavesOf(n) = {}
    BY <1>2 DEF SavesOf
  <2> QED BY <1>1, <2>1, <2>2 DEF KeptParts, DraftIsServed
<1>4. list[m] = store[m]
  <2>1. Effective(m) = {}
    BY <1>1 DEF Effective
  <2> QED BY <1>1, <2>1 DEF StoreInd, LastEffect
<1>5. CASE list[m] = None
  BY <1>1, <1>4, <1>5 DEF PageInd
<1>6. CASE list[m] # None
  <2>1. ~Dialled /\ Stealing = {}
    BY <1>2 DEF Dialled, Stealing
  <2>2. Selected = m => Undrafted(draft) = list[m]
    BY <1>1, <1>3, CardShape
  <2> QED BY <1>1, <1>4, <1>6, <2>1, <2>2 DEF KeptParts, Wished
<1> QED BY <1>5, <1>6

(* As long as no call failed and no step of the user met a call that         *)
(* forgets it, the card, the calls on their way and the list agree.          *)
THEOREM KeptInductive == EditorSpec => [](EditorInd /\ KeptInd)
<1>1. EditorInit => EditorInd /\ KeptInd
  BY InitEditorInd, InitKept
<1>2. EditorInd /\ KeptInd /\ [EditorNext]_editorVars => (EditorInd /\ KeptInd)'
  BY EditorStep, KeptStep
<1> QED BY <1>1, <1>2, PTL DEF EditorSpec

(* What the user entered last is stored once timers and calls have come to   *)
(* rest, unless a call failed or the entry crossed a call.                   *)
THEOREM EntriesKept == EditorSpec => []EntriesAreKept
BY KeptInductive, KeptMeans, PTL
=============================================================================
