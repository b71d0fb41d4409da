---------------------- MODULE MCPostInsertObservation ----------------------
(***************************************************************************)
(* Two sessions; requests with and without an accessible field, and screens *)
(* that show it, another field, another window or application, or answer    *)
(* late or not at all.                                                      *)
(***************************************************************************)
EXTENDS PostInsertObservation, TLC

Editor == [bundle |-> "editor", pid |-> 1, name |-> "Editor"]
Browser == [bundle |-> "browser", pid |-> 2, name |-> "Browser"]

Field(element, role, text) ==
  [present |-> TRUE, bundle |-> "editor", pid |-> None, name |-> "Editor", window |-> "notes",
   element |-> element, role |-> role, bare |-> role = None, text |-> text]

NoFocus == [signature |-> None, role |-> None]

MCRequests ==
  [outcome : {"paste_sent", "copied_only"}, injected : {{"said"}},
   app : {Editor}, window : {"notes", None},
   focused : {NoFocus, [signature |-> "field", role |-> "TextPattern"]},
   ax : {NoAx} \cup {Field(element, role, text) :
           element \in {"field", None}, role \in {"TextPattern", "AXTextArea", None},
           text \in {{}, {"typed"}, {"typed", "said"}}}]

Value(v) == [how |-> "value", value |-> v]
Answers(values) == {Value(v) : v \in values} \cup {[how |-> "throws"], [how |-> "late"]}

MCScreens ==
  [app : Answers({Editor, Browser, NoApp}),
   title : Answers({"notes", "mail", None}),
   ax : Answers({NoAx} \cup {Field(element, role, text) :
           element \in {"field", "other", None},
           role \in {"TextPattern", "ValuePattern", "AXTextArea", None},
           text \in {{}, {"said"}, {"typed", "said"}}})]
=============================================================================
