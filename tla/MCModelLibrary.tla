--------------------------- MODULE MCModelLibrary ---------------------------
(***************************************************************************)
(* ModelLibrary for TLC: ids and flows are interchangeable.         *)
(***************************************************************************)
EXTENDS ModelLibrary, TLC

CONSTANTS c1, c2, p1, p2

LibrarySymmetry ==
  Permutations(Configs) \cup Permutations(Pages)
    \cup Permutations(Themes)
=============================================================================
