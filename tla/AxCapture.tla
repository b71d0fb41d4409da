----------------------------- MODULE AxCapture -----------------------------
(***************************************************************************)
(* What the native accessibility layer reads of the focused control        *)
(* (AxBridge.swift, AxBridge.cs).  A control is a record:                  *)
(*   secureInput  the system is in secure event input (macOS)              *)
(*   elevated     the foreground process is elevated (Windows)             *)
(*   role         its accessibility role                                   *)
(*   value        its text, a sequence of UTF-16 units, or NoValue         *)
(*   range        <<location, length>> of the selection, or NoRange        *)
(* Every unit of a text is a value of its own, so that a property can tell *)
(* which units were read.                                                  *)
(***************************************************************************)
EXTENDS Integers, Sequences, SequencesExt, FiniteSetsExt

CONSTANT ContextUnits    \* units kept on each side of the selection (512)

ASSUME ContextUnitsAssumption == ContextUnits \in Nat

NoValue == <<"no value">>
NoRange == <<"no range">>
NoCapture == [role |-> "no capture"]

Smaller(a, b) == Min({a, b})
Larger(a, b) == Max({a, b})

(* fullText[from..<to], offsets counted from 0.                            *)
Slice(text, from, to) == SubSeq(text, from + 1, to)

Captured(text, start, end, before, after, role) ==
  [text |-> text, start |-> start, end |-> end,
   before |-> before, after |-> after, role |-> role]

(* A variant for checking the checks: the offsets count from the start of  *)
(* the whole text.                                                         *)
BuildContextUnshifted(text, selectionStart, selectionEnd, role) ==
  LET start == Smaller(selectionStart, Len(text))
      end == Smaller(Larger(selectionEnd, start), Len(text))
      beforeStart == Larger(start - ContextUnits, 0)
      afterEnd == Smaller(Len(text), end + ContextUnits)
  IN Captured(Slice(text, beforeStart, afterEnd), start, end,
              Slice(text, beforeStart, start), Slice(text, end, afterEnd), role)

(* AxBridge.swift buildContext: the window around the selection.           *)
BuildContext(text, selectionStart, selectionEnd, role) ==
  LET start == Smaller(selectionStart, Len(text))
      end == Smaller(Larger(selectionEnd, start), Len(text))
      beforeStart == Larger(start - ContextUnits, 0)
      afterEnd == Smaller(Len(text), end + ContextUnits)
  IN Captured(Slice(text, beforeStart, afterEnd), start - beforeStart, end - beforeStart,
              Slice(text, beforeStart, start), Slice(text, end, afterEnd), role)

(* copySelectedRange: no range reads as a caret at the start.              *)
SelectedRange(control) ==
  IF control.range = NoRange THEN <<0, 0>>
  ELSE <<control.range[1], control.range[1] + control.range[2]>>

(* AxBridge.swift capture_focused, once the process is trusted: nothing is *)
(* read of a secure field, nor of any field during secure event input.     *)
CaptureFocused(control) ==
  IF control.secureInput \/ control.role = "AXSecureTextField" \/ control.value = NoValue
  THEN NoCapture
  ELSE BuildContext(control.value, SelectedRange(control)[1], SelectedRange(control)[2],
                    control.role)
=============================================================================
