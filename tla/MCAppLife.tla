----------------------------- MODULE MCAppLife -----------------------------
(***************************************************************************)
(* AppLife on a few profiles of older versions and one of this version,     *)
(* with one or two displays of different widths.                            *)
(***************************************************************************)
EXTENDS AppLife

Rect(x, y, w, h) == [x |-> [at |-> x, size |-> w], y |-> [at |-> y, size |-> h]]

(* A display with a menu bar of 24 px and a Dock of the given height.       *)
Display(x, w, h, bar) ==
  [bounds |-> Rect(x, 0, w, h), work |-> Rect(x, 24, w, h - 24 - bar)]

Primary == Display(0, 600, 400, 40)
Left == Display(-1000, 1000, 400, 0)
MCLayouts == {<<Primary>>, <<Primary, Left>>}

MCDefaultFrame == Rect(0, 24, 400, 200)

(* On the primary display, on the left one, and across both.                *)
MCFrames == {Rect(100, 24, 400, 200), Rect(-900, 24, 800, 200), Rect(-900, 24, 1000, 200)}

(* In front: a full-screen window of the primary display, a maximized one,  *)
(* a window without a size, no window.                                      *)
MCFronts == {<<0, 1, 600, 400>>, <<0, 24, 600, 336>>, <<0, 0, 0, 0>>, <<>>}

(* A Dock lower and higher than the pill's gap, a display far to the right, *)
(* one too narrow for the capsule.                                          *)
MCArrangements ==
  {<<Primary>>, <<Primary, Left>>, <<Left, Display(700, 801, 600, 90)>>,
   <<Display(0, 300, 200, 64), Display(300, 500, 300, 0)>>}
MCCursors ==
  [x : {-1001, -1, 0, 299, 300, 599, 600, 650, 700, 1600}, y : {-5, 0, 399, 400, 900}]
MCCapsuleSize == [x |-> 360, y |-> 200]

MCChords == {{}, {"RightMeta"}, {"LeftMeta"}, {"RightCtrl"}, {"RightCtrl", "RightAlt"}}
MCTerms == {"Soto"}

Mode(name, prompt, chord) == [stockName |-> name, prompt |-> prompt, hotkey |-> chord]

(* The profile an older version left: a default mode, perhaps a mode of the *)
(* user's with a chord of its own, a learned term.                          *)
Old(default, mine, done) ==
  [EmptyDatabase EXCEPT
     !.modes["default"] = default, !.modes["mine"] = mine,
     !.dictionary["Soto"] = "auto_learned", !.done = done]

MCProfiles ==
  {EmptyDatabase,
   Old(Mode(TRUE, "empty", {"LeftMeta"}), None, {"seed"}),
   Old(Mode(TRUE, "empty", {"LeftMeta"}), Mode(FALSE, "own", {"RightMeta"}), {"seed"}),
   Old(Mode(FALSE, "empty", {"RightMeta"}), Mode(FALSE, "own", {"RightCtrl"}), {"seed", "chord"}),
   Old(Mode(TRUE, "own", {"LeftMeta"}), None, {"seed", "chord", "prompts"})}
=============================================================================
