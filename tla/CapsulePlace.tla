---------------------------- MODULE CapsulePlace ----------------------------
(***************************************************************************)
(* Where the capsule's window is put when it is shown                       *)
(* (capsulePosition.pure.ts), and whether the window in front fills a       *)
(* display (isFrontmostWindowFullScreen).  A display has bounds and a work  *)
(* area; a rectangle gives each axis a position and a size, a point gives   *)
(* each axis a position.                                                    *)
(***************************************************************************)
EXTENDS Integers, Sequences, FiniteSetsExt

CONSTANTS
  Arrangements, \* sequences of displays the capsule may be put on
  Cursors,      \* where the cursor may be
  CapsuleSize   \* the size of the capsule's window on each axis

PillGap == 72        \* LEGACY_PILL_BOTTOM_GAP
StackPadding == 8    \* CAPSULE_STACK_BOTTOM_PADDING
Clearance == 8       \* MIN_WORKAREA_BOTTOM_CLEARANCE

(* There is a display, and its work area ends no lower than it does.        *)
Rectangles == [{"x", "y"} -> [at : Int, size : Nat]]
ASSUME PlaceAssumption ==
  /\ Cursors \subseteq [{"x", "y"} -> Int] /\ CapsuleSize \in [{"x", "y"} -> Nat]
  /\ \A arrangement \in Arrangements :
       /\ arrangement \in Seq([bounds : Rectangles, work : Rectangles]) /\ arrangement # << >>
       /\ \A i \in DOMAIN arrangement :
            arrangement[i].work.y.at + arrangement[i].work.y.size <=
              arrangement[i].bounds.y.at + arrangement[i].bounds.y.size

End(rect, axis) == rect[axis].at + rect[axis].size

Contains(rect, point) ==
  \A axis \in {"x", "y"} : rect[axis].at <= point[axis] /\ point[axis] < End(rect, axis)

DistanceSquared(point, rect) ==
  LET beyond(axis) == Max({0, rect[axis].at - point[axis], point[axis] - End(rect, axis)})
  IN beyond("x") * beyond("x") + beyond("y") * beyond("y")

NearestDisplay(arrangement, point) ==
  LET distance(i) == DistanceSquared(point, arrangement[i].bounds)
      least == Min({distance(i) : i \in DOMAIN arrangement})
  IN arrangement[Min({i \in DOMAIN arrangement : distance(i) = least})]

(* The first display that has the cursor, or the nearest one.               *)
DisplayForCursor(arrangement, point) ==
  LET holding == {i \in DOMAIN arrangement : Contains(arrangement[i].bounds, point)}
  IN IF holding # {} THEN arrangement[Min(holding)] ELSE NearestDisplay(arrangement, point)

BottomInset(display) == Max({0, End(display.bounds, "y") - End(display.work, "y")})

OverlayGap(display) ==
  Max({0, Max({Clearance, PillGap - BottomInset(display)}) - StackPadding})

CapsuleBounds(arrangement, point) ==
  LET display == DisplayForCursor(arrangement, point)
  IN [x |-> [at |-> display.work.x.at + (display.work.x.size - CapsuleSize.x + 1) \div 2,
             size |-> CapsuleSize.x],
      y |-> [at |-> End(display.work, "y") - CapsuleSize.y - OverlayGap(display),
             size |-> CapsuleSize.y]]

(* The native layer tells the front window's bounds as x, y, width and      *)
(* height, or nothing; a window without a size has none.                    *)
HasBounds(raw) == Len(raw) = 4 /\ raw[3] > 0 /\ raw[4] > 0
WindowBounds(raw) ==
  [x |-> [at |-> raw[1], size |-> raw[3]], y |-> [at |-> raw[2], size |-> raw[4]]]

(* Within a pixel, the window covers all of a display, not its work area    *)
(* only.                                                                    *)
Near(a, b) == a - b \in -1..1
FillsDisplay(raw, arrangement) ==
  /\ HasBounds(raw)
  /\ \E i \in DOMAIN arrangement : \A axis \in {"x", "y"} :
       /\ Near(WindowBounds(raw)[axis].at, arrangement[i].bounds[axis].at)
       /\ Near(WindowBounds(raw)[axis].size, arrangement[i].bounds[axis].size)

-----------------------------------------------------------------------------
(* The capsule is put on a display no other is nearer to the cursor than,   *)
(* inside its work area when it fits there, and the pill in it stands       *)
(* neither on the Dock nor the taskbar: 72 px above the edge of the screen, *)
(* or just above a taller bar.                                              *)
CapsuleIsPlaced ==
  \A arrangement \in Arrangements, point \in Cursors :
    LET at == CapsuleBounds(arrangement, point)
        pillBottom == End(at, "y") - StackPadding
    IN \E i \in DOMAIN arrangement :
         LET bounds == arrangement[i].bounds
             work == arrangement[i].work
             fits == CapsuleSize.x <= work.x.size /\ CapsuleSize.y + PillGap <= work.y.size
         IN /\ \A j \in DOMAIN arrangement :
                 DistanceSquared(point, bounds) <= DistanceSquared(point, arrangement[j].bounds)
            /\ fits => \A axis \in {"x", "y"} :
                 work[axis].at <= at[axis].at /\ End(at, axis) <= End(work, axis)
            /\ pillBottom <= End(work, "y") - Clearance
            /\ pillBottom <= End(bounds, "y") - PillGap
            /\ pillBottom \in {End(work, "y") - Clearance, End(bounds, "y") - PillGap}
=============================================================================
