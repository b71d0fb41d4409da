---------------------------- MODULE MCHistoryPage ----------------------------
(***************************************************************************)
(* HistoryPage for TLC: an unreadable record and one of two days before,    *)
(* then one of the last hour of a day and one of the first of the next.     *)
(***************************************************************************)
EXTENDS HistoryPage

CONSTANTS m1, m2, w1, w2

Four == {"h1", "h2", "h3", "h4"}
Earlier == {"h1", "h2"}
Done == Four \ {"h2"}
Instants == [r \in Four |-> CASE r = "h1" -> 0 [] r = "h2" -> 2 [] r = "h3" -> 7 [] OTHER -> 8]
Modes == [r \in Four |-> CASE r = "h1" -> NoMode [] r = "h2" -> m2 [] OTHER -> m1]
Words == [r \in Four |-> CASE r = "h1" -> {w1} [] r = "h3" -> {w1, w2} [] OTHER -> {w2}]
=============================================================================
