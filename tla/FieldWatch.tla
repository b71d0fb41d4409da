----------------------------- MODULE FieldWatch -----------------------------
(***************************************************************************)
(* What one poll of the post-insert observer makes of the screen            *)
(* (nativePostInsertObserver.ts): whether the field the text was pasted     *)
(* into still has the focus, and whether the text in it is an edit of what  *)
(* was pasted.  An identity that could not be read is None; a text is the   *)
(* set of the pieces it consists of, so white space alone is {}.            *)
(***************************************************************************)
CONSTANTS
  None,
  Requests,  \* what an observer may be started for
  Screens    \* what a poll may find: an answer per native read

NoApp == [bundle |-> None, pid |-> None, name |-> None]
NoAx == [present |-> FALSE, bundle |-> None, pid |-> None, name |-> None, window |-> None,
         element |-> None, role |-> None, bare |-> FALSE, text |-> {}]

FirstOf(a, b) == IF a # None THEN a ELSE b

(* safeAsync: a read that throws gives its fallback, one that has not come  *)
(* back when the time they share is over gives nothing.                     *)
Late(answer) == answer.how = "late"
ReadOr(answer, fallback) == IF answer.how = "value" THEN answer.value ELSE fallback

-----------------------------------------------------------------------------
(* Whether there is anything to observe, and a field to recognize again.    *)
BaselineCanBeObserved(request) == request.outcome = "paste_sent"
TargetCanBeObserved(request) == request.ax.present => request.ax.element # None
Observable(request) == BaselineCanBeObserved(request) /\ TargetCanBeObserved(request)

Provenances == {"TextPattern", "ValuePattern"}
RolesCompatible(a, b) == a = b \/ {a, b} \subseteq Provenances

ExpectedElement(request) ==
  IF request.ax.present THEN request.ax.element ELSE request.focused.signature

RoleMatches(request, ax) ==
  LET expected == FirstOf(request.focused.role, request.ax.role)
      unknown == ExpectedElement(request) = None \/ ax.element = None
  IN expected # None =>
       /\ ~({expected, ax.role} \cap Provenances # {} /\ unknown)
       /\ ax.role # None /\ RolesCompatible(expected, ax.role)

(* Every identity known of the target must be found again.                  *)
TargetStillMatches(request, app, ax, window) ==
  /\ \A id \in {"bundle", "pid", "name"} :
       LET expected == FirstOf(request.app[id], request.ax[id])
       IN expected # None => FirstOf(app[id], ax[id]) = expected
  /\ LET expected == FirstOf(request.window, request.ax.window)
     IN expected # None => window = expected
  /\ LET expected == ExpectedElement(request)
     IN request.ax.present \/ expected # None => expected # None /\ ax.element = expected
  /\ RoleMatches(request, ax)

-----------------------------------------------------------------------------
(* The text before the paste.  Nothing at all about the field, not even a   *)
(* role, says that it could not be read.                                    *)
HasBaseline(ax) == ax.present /\ (ax.text # {} \/ ~(ax.bare /\ ax.role = None))

TextCanBeCaptured(request, text) ==
  /\ text # {} /\ request.injected # {}
  /\ request.injected \subseteq text
  /\ HasBaseline(request.ax)
  /\ text # request.ax.text

(* One poll: "captured" when the text is the new last stable one.           *)
Reading(request, screen) ==
  LET app == ReadOr(screen.app, NoApp)
      ax == ReadOr(screen.ax, NoAx)
      window == FirstOf(ReadOr(screen.title, None), ax.window)
  IN IF Late(screen.app) \/ Late(screen.ax) \/ Late(screen.title) THEN "unreadable"
     ELSE IF ~TargetStillMatches(request, app, ax, window) THEN "target_changed"
     ELSE IF ax.present /\ TextCanBeCaptured(request, ax.text) THEN "captured"
     ELSE "unreadable"

Readings == {Reading(r, s) : r \in {r \in Requests : Observable(r)}, s \in Screens}
=============================================================================
