---------------------------- MODULE WindowFrame ----------------------------
(***************************************************************************)
(* Where the main window opens: the frame saved by the last window, checked *)
(* against the work areas of the displays connected now.  A frame or a work *)
(* area gives each axis a position and a size.  The maximized flag, which   *)
(* does not touch the frame, is left out.                                   *)
(***************************************************************************)
EXTENDS Integers, Sequences, FiniteSets

CONSTANTS
  Frames,        \* frames the user gives the window
  DefaultFrame,  \* DEFAULT_MAIN_BOUNDS
  Layouts,       \* sequences of displays, the primary one first
  NoFrame        \* no state file, or one that does not parse

Axes == {"x", "y"}

Rects == [Axes -> [at : Int, size : Nat \ {0}]]

(* window-state.json as readWindowState gives it, if hasSaneSize.           *)
SavedFrames == Rects \cup {NoFrame}

ASSUME FramesAssumption ==
  Frames \subseteq Rects /\ DefaultFrame \in Rects /\ NoFrame \notin Rects

Overlaps(a, b) == a.at < b.at + b.size /\ a.at + a.size > b.at

Intersects(f, w) == \A axis \in Axes : Overlaps(f[axis], w[axis])

(* A display is connected, and no two lie over one another.                 *)
Displays == [bounds : Rects, work : Rects]
ASSUME LayoutsAssumption ==
  \A layout \in Layouts :
    /\ layout \in Seq(Displays) /\ layout # << >>
    /\ \A i, j \in DOMAIN layout : i # j => ~Intersects(layout[i].work, layout[j].work)

Lesser(a, b) == IF a < b THEN a ELSE b

(* The first display the saved frame still meets, 0 for none.               *)
HostOf(f, displays) ==
  IF \E i \in DOMAIN displays : Intersects(f, displays[i])
  THEN CHOOSE i \in DOMAIN displays :
         /\ Intersects(f, displays[i])
         /\ \A j \in 1 .. i - 1 : ~Intersects(f, displays[j])
  ELSE 0

(* Mutant of ClampedTo: the position of the display replaces the frame's.   *)
MovedTo(f, w) ==
  [axis \in Axes |-> [at |-> w[axis].at, size |-> Lesser(f[axis].size, w[axis].size)]]

ClampedTo(f, w) ==
  [axis \in Axes |-> [at |-> f[axis].at, size |-> Lesser(f[axis].size, w[axis].size)]]

CentredOn(f, w) ==
  [axis \in Axes |->
     LET size == Lesser(f[axis].size, w[axis].size)
     IN [at |-> w[axis].at + (w[axis].size - size) \div 2, size |-> size]]

(* pickStartupBounds.                                                       *)
StartupFrame(saved, displays) ==
  IF saved = NoFrame \/ displays = << >> THEN DefaultFrame
  ELSE LET host == HostOf(saved, displays)
       IN IF host # 0 THEN ClampedTo(saved, displays[host])
          ELSE CentredOn(saved, displays[1])

-----------------------------------------------------------------------------
OnScreen(f, displays) == \E i \in DOMAIN displays : Intersects(f, displays[i])

Inside(f, w) ==
  \A axis \in Axes :
    /\ w[axis].at =< f[axis].at
    /\ f[axis].at + f[axis].size =< w[axis].at + w[axis].size

NoLarger(f, w) == \A axis \in Axes : f[axis].size =< w[axis].size
=============================================================================
