-------------------------- MODULE SessionRunProofs --------------------------
(***************************************************************************)
(* What SessionRun promises, for every number of runs, every set of        *)
(* screens and every width of the window around a selection.  First what   *)
(* the capture's arithmetic yields: the text read is the window around the *)
(* selection, cut where the text ends, and its parts fit together.  Then   *)
(* what a request tells when names are kept out of it.  Then the inductive *)
(* invariant RunInd, part by part, from two accounts of a step: AcqEffects *)
(* says what becomes of a run's acquisition, Moves what becomes of its     *)
(* pipeline.                                                               *)
(***************************************************************************)
EXTENDS SessionRun, SequenceTheorems, FiniteSetTheorems, TLAPS

-----------------------------------------------------------------------------
(* The capture.                                                             *)
LEMMA SmallerLarger ==
  ASSUME NEW a \in Int, NEW b \in Int
  PROVE  /\ Smaller(a, b) = IF a <= b THEN a ELSE b
         /\ Larger(a, b) = IF a >= b THEN a ELSE b
<1>1. Smaller(a, b) = IF a <= b THEN a ELSE b
  <2> DEFINE least == IF a <= b THEN a ELSE b
  <2>1. least \in {a, b} /\ \A y \in {a, b} : least <= y
    OBVIOUS
  <2>2. \A x \in {a, b} : (\A y \in {a, b} : x <= y) => x = least
    OBVIOUS
  <2> QED BY <2>1, <2>2 DEF Smaller, Min
<1>2. Larger(a, b) = IF a >= b THEN a ELSE b
  <2> DEFINE most == IF a >= b THEN a ELSE b
  <2>1. most \in {a, b} /\ \A y \in {a, b} : most >= y
    OBVIOUS
  <2>2. \A x \in {a, b} : (\A y \in {a, b} : x >= y) => x = most
    OBVIOUS
  <2> QED BY <2>1, <2>2 DEF Larger, Max
<1> QED BY <1>1, <1>2

Controls == {screen.control : screen \in Screens}

LEMMA ControlRange ==
  ASSUME NEW field \in Controls
  PROVE  /\ SelectedRange(field)[1] \in Nat /\ SelectedRange(field)[2] \in Nat
         /\ SelectedRange(field)[1] <= SelectedRange(field)[2]
<1>1. field.range = NoRange \/ field.range \in Nat \X Nat
  BY ScreensAssumption DEF Controls
<1>2. CASE field.range = NoRange
  BY <1>2 DEF SelectedRange
<1>3. CASE field.range # NoRange
  <2>1. field.range[1] \in Nat /\ field.range[2] \in Nat
    BY <1>1, <1>3
  <2>2. SelectedRange(field) = <<field.range[1], field.range[1] + field.range[2]>>
    BY <1>3 DEF SelectedRange
  <2> QED BY <2>1, <2>2
<1> QED BY <1>2, <1>3

(* The window of a text: first and last are the clamped selection, from and *)
(* to the ends of the window.                                               *)
Window(text, first, last, from, to, got, role) ==
  /\ {first, last, from, to} \subseteq Nat
  /\ from <= first /\ first <= last /\ last <= to /\ to <= Len(text)
  /\ from = IF first >= ContextUnits THEN first - ContextUnits ELSE 0
  /\ to = IF last + ContextUnits <= Len(text) THEN last + ContextUnits ELSE Len(text)
  /\ got = Captured(Slice(text, from, to), first - from, last - from,
                    Slice(text, from, first), Slice(text, last, to), role)

LEMMA CaptureWindow ==
  ASSUME NEW field \in Controls, CaptureFocused(field) # NoCapture
  PROVE  /\ ~field.secureInput /\ field.role # "AXSecureTextField"
         /\ \E first, last, from, to :
              /\ first = Smaller(SelectedRange(field)[1], Len(field.value))
              /\ last = Smaller(SelectedRange(field)[2], Len(field.value))
              /\ Window(field.value, first, last, from, to, CaptureFocused(field), field.role)
<1> DEFINE text == field.value
           s == SelectedRange(field)[1]
           e == SelectedRange(field)[2]
           first == Smaller(s, Len(text))
           last == Smaller(e, Len(text))
           from == Larger(first - ContextUnits, 0)
           to == Smaller(Len(text), last + ContextUnits)
<1>1. text \in Seq(ToSet(text))
  BY ScreensAssumption DEF Controls
<1>2. Len(text) \in Nat
  BY <1>1, LenProperties
<1>3. s \in Nat /\ e \in Nat /\ s <= e
  BY ControlRange
<1>4. ~field.secureInput /\ field.role # "AXSecureTextField"
  BY DEF CaptureFocused
<1>5. CaptureFocused(field) = BuildContext(text, s, e, field.role)
  BY DEF CaptureFocused
<1> HIDE DEF text, s, e
<1>6. /\ first = IF s <= Len(text) THEN s ELSE Len(text)
      /\ last = IF e <= Len(text) THEN e ELSE Len(text)
      /\ first \in Nat /\ last \in Nat /\ first <= last /\ last <= Len(text)
  BY <1>2, <1>3, SmallerLarger
<1>7. Smaller(Larger(e, first), Len(text)) = last
  <2>1. first <= e
    BY <1>2, <1>3, <1>6
  <2>2. Larger(e, first) = e
    BY <1>3, <1>6, <2>1, SmallerLarger
  <2> QED BY <2>2
<1>8. /\ from = IF first >= ContextUnits THEN first - ContextUnits ELSE 0
      /\ to = IF last + ContextUnits <= Len(text) THEN last + ContextUnits ELSE Len(text)
  BY <1>2, <1>6, SmallerLarger, ContextUnitsAssumption
<1>9. CaptureFocused(field) =
        Captured(Slice(text, from, to), first - from, last - from,
                 Slice(text, from, first), Slice(text, last, to), field.role)
  BY <1>5, <1>7 DEF BuildContext
<1> HIDE DEF first, last, from, to
<1>10. /\ {first, last, from, to} \subseteq Nat
       /\ from <= first /\ first <= last /\ last <= to /\ to <= Len(text)
  BY <1>2, <1>6, <1>8, ContextUnitsAssumption
<1>11. Window(text, first, last, from, to, CaptureFocused(field), field.role)
  BY <1>8, <1>9, <1>10 DEF Window
<1> QED BY <1>4, <1>11 DEF first, last, text, s, e

(* What the window's parts are.                                             *)
LEMMA WindowParts ==
  ASSUME NEW text, text \in Seq(ToSet(text)), NEW first, NEW last, NEW from, NEW to, NEW role,
         NEW got, Window(text, first, last, from, to, got, role)
  PROVE  /\ got.text \in Seq(ToSet(text)) /\ Len(got.text) = to - from
         /\ got.before \in Seq(ToSet(text)) /\ Len(got.before) = first - from
         /\ got.after \in Seq(ToSet(text)) /\ Len(got.after) = to - last
         /\ SelectedText(got) \in Seq(ToSet(text)) /\ Len(SelectedText(got)) = last - first
         /\ \A i \in 1 .. (to - from) : got.text[i] = text[from + i]
         /\ \A i \in 1 .. (first - from) : got.before[i] = text[from + i]
         /\ \A i \in 1 .. (to - last) : got.after[i] = text[last + i]
         /\ \A i \in 1 .. (last - first) : SelectedText(got)[i] = text[first + i]
         /\ got # NoCapture /\ got.role = role
<1>0. /\ {first, last, from, to} \subseteq Int /\ 0 <= from
      /\ from <= first /\ first <= last /\ last <= to /\ to <= Len(text)
  BY DEF Window
<1>1. got = Captured(Slice(text, from, to), first - from, last - from,
                     Slice(text, from, first), Slice(text, last, to), role)
  BY DEF Window
<1>2. ASSUME NEW a \in Int, NEW b \in Int, 0 <= a, a <= b, b <= Len(text)
      PROVE  /\ Slice(text, a, b) \in Seq(ToSet(text)) /\ Len(Slice(text, a, b)) = b - a
             /\ \A i \in 1 .. (b - a) : Slice(text, a, b)[i] = text[a + i]
  <2>1. \A i \in (a + 1) .. b : text[i] \in ToSet(text)
    BY <1>2, LenProperties, ElementOfSeq
  <2>2. /\ SubSeq(text, a + 1, b) \in Seq(ToSet(text))
        /\ Len(SubSeq(text, a + 1, b)) = IF a + 1 <= b THEN b - (a + 1) + 1 ELSE 0
        /\ \A i \in 1 .. (b - (a + 1) + 1) : SubSeq(text, a + 1, b)[i] = text[(a + 1) + i - 1]
    BY <1>2, <2>1, SubSeqProperties
  <2>3. \A i \in 1 .. (b - a) : i \in 1 .. (b - (a + 1) + 1) /\ (a + 1) + i - 1 = a + i
    BY <1>2
  <2> QED BY <1>2, <2>2, <2>3 DEF Slice
<1>3. /\ got.text = Slice(text, from, to) /\ got.before = Slice(text, from, first)
      /\ got.after = Slice(text, last, to) /\ got.role = role
      /\ got.start = first - from /\ got.end = last - from
  BY <1>1 DEF Captured
<1>4. got # NoCapture
  <2>1. "text" \in DOMAIN got /\ "text" \notin DOMAIN NoCapture
    BY <1>1 DEF Captured, NoCapture
  <2> QED BY <2>1
<1>5. /\ got.text \in Seq(ToSet(text)) /\ Len(got.text) = to - from
      /\ \A i \in 1 .. (to - from) : got.text[i] = text[from + i]
  <2>1. from \in Int /\ to \in Int /\ 0 <= from /\ from <= to /\ to <= Len(text)
    BY <1>0
  <2> QED BY <1>2, <1>3, <2>1
<1>6. /\ got.before \in Seq(ToSet(text)) /\ Len(got.before) = first - from
      /\ \A i \in 1 .. (first - from) : got.before[i] = text[from + i]
  <2>1. from \in Int /\ first \in Int /\ 0 <= from /\ from <= first /\ first <= Len(text)
    BY <1>0
  <2> QED BY <1>2, <1>3, <2>1
<1>7. /\ got.after \in Seq(ToSet(text)) /\ Len(got.after) = to - last
      /\ \A i \in 1 .. (to - last) : got.after[i] = text[last + i]
  <2>1. last \in Int /\ to \in Int /\ 0 <= last /\ last <= to /\ to <= Len(text)
    BY <1>0
  <2> QED BY <1>2, <1>3, <2>1
<1>8. /\ SelectedText(got) \in Seq(ToSet(text)) /\ Len(SelectedText(got)) = last - first
      /\ \A i \in 1 .. (last - first) : SelectedText(got)[i] = text[first + i]
  <2> DEFINE a == first - from
             b == last - from
  <2>1. SelectedText(got) = SubSeq(got.text, a + 1, b)
    BY <1>3, <1>4 DEF SelectedText, Slice
  <2>2. a \in Int /\ b \in Int /\ 0 <= a /\ a <= b /\ b <= Len(got.text)
    BY <1>0, <1>5
  <2>3. \A i \in (a + 1) .. b : got.text[i] \in ToSet(text)
    BY <1>5, <2>2, ElementOfSeq
  <2> HIDE DEF a, b
  <2>4. /\ SubSeq(got.text, a + 1, b) \in Seq(ToSet(text))
        /\ Len(SubSeq(got.text, a + 1, b)) = IF a + 1 <= b THEN b - (a + 1) + 1 ELSE 0
        /\ \A i \in 1 .. (b - (a + 1) + 1) : SubSeq(got.text, a + 1, b)[i] = got.text[(a + 1) + i - 1]
    BY <2>2, <2>3, SubSeqProperties
  <2>5. b - a = last - first /\ Len(SubSeq(got.text, a + 1, b)) = b - a
    BY <1>0, <2>2, <2>4 DEF a, b
  <2>6. ASSUME NEW i \in 1 .. (last - first) PROVE SelectedText(got)[i] = text[first + i]
    <3>1. i \in 1 .. (b - (a + 1) + 1) /\ (a + 1) + i - 1 = a + i
      BY <1>0, <2>2, <2>5
    <3>2. a + i \in 1 .. (to - from) /\ from + (a + i) = first + i
      BY <1>0, <2>2, <2>6 DEF a, b
    <3> QED BY <1>5, <2>1, <2>4, <3>1, <3>2
  <2> QED BY <2>1, <2>4, <2>5, <2>6
<1> QED BY <1>3, <1>4, <1>5, <1>6, <1>7, <1>8

-----------------------------------------------------------------------------
(* From a target to its context.                                            *)
LEMMA ContextOfCapture ==
  ASSUME NEW target, NEW inc, target.capture # NoCapture, target.capture.role # Null
  PROVE  LET kept == HistoryContext(BuildAppContext(target, inc))
             got == target.capture
         IN /\ kept.text = got.text
            /\ kept.start = Len(got.before)
            /\ kept.end = Len(got.before) + Len(SelectedText(got))
<1> DEFINE got == target.capture
           ax == Merge(target)
           ctx == BuildAppContext(target, inc)
<1>1. ax = [bundle |-> NonEmpty(target.app.bundle), name |-> NonEmpty(target.app.name),
            title |-> NonEmpty(target.title), domain |-> Null, ax |-> got]
  BY DEF Merge, AxText
<1>2. ax # NoContext /\ ax.ax = got
  <2>1. "ax" \in DOMAIN ax /\ "ax" \notin DOMAIN NoContext
    BY <1>1 DEF NoContext
  <2> QED BY <1>1, <2>1
<1> HIDE DEF ax
<1>3. /\ ctx.text = got.text /\ ctx.role = got.role /\ ctx.before = got.before
      /\ ctx.selection = SelectedText(got)
  BY <1>2 DEF BuildAppContext, ax
<1> HIDE DEF ctx, got
<1> QED BY <1>3 DEF HistoryContext, BaseContext, ctx, got

TellsTheWindow(field, got, kept) ==
  LET first == Smaller(SelectedRange(field)[1], Len(field.value))
      last == Smaller(SelectedRange(field)[2], Len(field.value))
      near == {p \in DOMAIN field.value : first - ContextUnits < p /\ p <= last + ContextUnits}
  IN /\ ~field.secureInput /\ field.role # "AXSecureTextField"
     /\ ToSet(got.text) = {field.value[p] : p \in near}
     /\ got.text = got.before \o SelectedText(got) \o got.after
     /\ Slice(kept.text, kept.start, kept.end) = [i \in 1..(last - first) |-> field.value[first + i]]

LEMMA CaptureIsWindow ==
  ASSUME NEW field \in Controls, NEW got, got = CaptureFocused(field), got # NoCapture,
         NEW target, target.capture = got, NEW inc
  PROVE  TellsTheWindow(field, got, HistoryContext(BuildAppContext(target, inc)))
<1> DEFINE text == field.value
<1>1. PICK first, last, from, to :
        /\ first = Smaller(SelectedRange(field)[1], Len(text))
        /\ last = Smaller(SelectedRange(field)[2], Len(text))
        /\ Window(text, first, last, from, to, got, field.role)
  BY CaptureWindow
<1>2. ~field.secureInput /\ field.role # "AXSecureTextField"
  BY CaptureWindow
<1>3. text \in Seq(ToSet(text)) /\ field.role # Null
  BY ScreensAssumption DEF Controls
<1>4. DOMAIN text = 1 .. Len(text) /\ Len(text) \in Nat
  BY <1>3, LenProperties
<1> HIDE DEF text
<1>5. /\ got.text \in Seq(ToSet(text)) /\ Len(got.text) = to - from
      /\ got.before \in Seq(ToSet(text)) /\ Len(got.before) = first - from
      /\ got.after \in Seq(ToSet(text)) /\ Len(got.after) = to - last
      /\ SelectedText(got) \in Seq(ToSet(text)) /\ Len(SelectedText(got)) = last - first
      /\ \A i \in 1 .. (to - from) : got.text[i] = text[from + i]
      /\ \A i \in 1 .. (first - from) : got.before[i] = text[from + i]
      /\ \A i \in 1 .. (to - last) : got.after[i] = text[last + i]
      /\ \A i \in 1 .. (last - first) : SelectedText(got)[i] = text[first + i]
      /\ got.role = field.role
  BY <1>1, <1>3, WindowParts
<1>6. /\ {first, last, from, to} \subseteq Int /\ 0 <= from
      /\ from <= first /\ first <= last /\ last <= to /\ to <= Len(text)
      /\ from = IF first >= ContextUnits THEN first - ContextUnits ELSE 0
      /\ to = IF last + ContextUnits <= Len(text) THEN last + ContextUnits ELSE Len(text)
  BY <1>1 DEF Window
<1>7. ToSet(got.text) =
        {text[p] : p \in {p \in DOMAIN text : first - ContextUnits < p /\ p <= last + ContextUnits}}
  <2>1. {p \in DOMAIN text : first - ContextUnits < p /\ p <= last + ContextUnits} = (from + 1) .. to
    <3>1. ContextUnits \in Int /\ Len(text) \in Int
      BY <1>4, ContextUnitsAssumption
    <3>2. from \in Int /\ to \in Int /\ first \in Int /\ last \in Int
      BY <1>6
    <3>3. \A p \in Int : (first - ContextUnits < p /\ 1 <= p) <=> from + 1 <= p
      BY <1>6, <3>1, <3>2
    <3>4. \A p \in Int : (p <= last + ContextUnits /\ p <= Len(text)) <=> p <= to
      BY <1>6, <3>1, <3>2
    <3>5. \A p \in Int : p \in 1 .. Len(text) /\ first - ContextUnits < p /\ p <= last + ContextUnits
                         <=> p \in (from + 1) .. to
      <4>1. ASSUME NEW p \in Int
            PROVE  (1 <= p /\ p <= Len(text) /\ first - ContextUnits < p /\ p <= last + ContextUnits)
                     <=> (from + 1 <= p /\ p <= to)
        BY <3>3, <3>4
      <4>2. ASSUME NEW p \in Int, NEW a \in Int, NEW b \in Int
            PROVE  p \in a .. b <=> a <= p /\ p <= b
        OBVIOUS
      <4> QED BY <3>1, <3>2, <4>1, <4>2
    <3>6. 1 .. Len(text) \subseteq Int /\ (from + 1) .. to \subseteq Int
      BY <3>1, <3>2
    <3> QED BY <1>4, <3>5, <3>6
  <2>2. DOMAIN got.text = 1 .. (to - from)
    BY <1>5, LenProperties
  <2>3. \A i \in 1 .. (to - from) : from + i \in (from + 1) .. to
    BY <1>6
  <2>4. \A p \in (from + 1) .. to : p - from \in 1 .. (to - from) /\ from + (p - from) = p
    BY <1>6
  <2>5. {got.text[i] : i \in 1 .. (to - from)} = {text[p] : p \in (from + 1) .. to}
    <3>1. \A i \in 1 .. (to - from) : got.text[i] = text[from + i]
      BY <1>5
    <3> QED BY <2>3, <2>4, <3>1
  <2> QED BY <2>1, <2>2, <2>5 DEF ToSet
<1>8. got.text = got.before \o SelectedText(got) \o got.after
  <2> DEFINE S == ToSet(text)
             front == got.before \o SelectedText(got)
             all == front \o got.after
  <2>1. /\ front \in Seq(S) /\ Len(front) = last - from
        /\ \A i \in 1 .. (last - from) : front[i] = text[from + i]
    <3>1. /\ front \in Seq(S) /\ Len(front) = Len(got.before) + Len(SelectedText(got))
          /\ \A i \in 1 .. Len(got.before) + Len(SelectedText(got)) :
               front[i] = IF i <= Len(got.before) THEN got.before[i]
                          ELSE SelectedText(got)[i - Len(got.before)]
      <4>1. got.before \in Seq(S) /\ SelectedText(got) \in Seq(S)
        BY <1>5
      <4> QED BY <4>1, ConcatProperties
    <3>2. Len(got.before) + Len(SelectedText(got)) = last - from
      BY <1>5, <1>6
    <3>3. ASSUME NEW i \in 1 .. (last - from) PROVE front[i] = text[from + i]
      <4>1. CASE i <= first - from
        <5>1. i \in 1 .. (first - from)
          BY <1>6, <4>1
        <5> QED BY <1>5, <3>1, <3>2, <4>1, <5>1
      <4>2. CASE ~(i <= first - from)
        <5>1. i - (first - from) \in 1 .. (last - first) /\ first + (i - (first - from)) = from + i
          BY <1>6, <4>2
        <5> QED BY <1>5, <3>1, <3>2, <4>2, <5>1
      <4> QED BY <4>1, <4>2
    <3> QED BY <3>1, <3>2, <3>3
  <2> HIDE DEF front
  <2>2. /\ all \in Seq(S) /\ Len(all) = Len(front) + Len(got.after)
        /\ \A i \in 1 .. Len(front) + Len(got.after) :
             all[i] = IF i <= Len(front) THEN front[i] ELSE got.after[i - Len(front)]
    <3>1. front \in Seq(S) /\ got.after \in Seq(S)
      BY <1>5, <2>1
    <3> QED BY <3>1, ConcatProperties
  <2>3. Len(front) + Len(got.after) = to - from
    BY <1>5, <1>6, <2>1
  <2> HIDE DEF all
  <2>4. ASSUME NEW i \in 1 .. (to - from) PROVE all[i] = got.text[i]
    <3>1. CASE i <= last - from
      <4>1. i \in 1 .. (last - from)
        BY <1>6, <3>1
      <4> QED BY <1>5, <2>1, <2>2, <2>3, <3>1, <4>1
    <3>2. CASE ~(i <= last - from)
      <4>0. {i, first, from, last, to} \subseteq Int /\ i <= to - from /\ i > last - from
        BY <1>6, <3>2
      <4>1. i - (last - from) \in 1 .. (to - last) /\ last + (i - (last - from)) = from + i
        BY <4>0
      <4>2. all[i] = got.after[i - (last - from)]
        BY <2>1, <2>2, <2>3, <3>2
      <4>3. got.after[i - (last - from)] = text[from + i] /\ got.text[i] = text[from + i]
        BY <1>5, <4>1
      <4> QED BY <4>2, <4>3
    <3> QED BY <3>1, <3>2
  <2>5. all = got.text
    <3>1. Len(all) = Len(got.text) /\ \A i \in 1 .. Len(all) : all[i] = got.text[i]
      BY <1>5, <2>2, <2>3, <2>4
    <3> QED BY <1>5, <2>2, <3>1, SeqEqual
  <2> QED BY <2>5 DEF all, front
<1>9. LET kept == HistoryContext(BuildAppContext(target, inc))
      IN Slice(kept.text, kept.start, kept.end) = [i \in 1..(last - first) |-> text[first + i]]
  <2> DEFINE a == first - from
             b == (first - from) + (last - first)
             slice == SubSeq(got.text, a + 1, b)
  <2>1. LET kept == HistoryContext(BuildAppContext(target, inc))
        IN kept.text = got.text /\ kept.start = a /\ kept.end = b
    <3>1. target.capture # NoCapture /\ target.capture.role # Null
      BY <1>3, <1>5
    <3>2. LET kept == HistoryContext(BuildAppContext(target, inc))
          IN /\ kept.text = target.capture.text
             /\ kept.start = Len(target.capture.before)
             /\ kept.end = Len(target.capture.before) + Len(SelectedText(target.capture))
      BY <3>1, ContextOfCapture
    <3> QED BY <1>5, <3>2
  <2>2. a \in Int /\ b \in Int /\ 0 <= a /\ a <= b /\ b <= Len(got.text)
    <3>1. Len(got.text) = to - from
      BY <1>5
    <3>2. first \in Int /\ last \in Int /\ from \in Int /\ to \in Int
      BY <1>6
    <3> QED BY <1>6, <3>1, <3>2
  <2>3. \A i \in (a + 1) .. b : got.text[i] \in ToSet(text)
    BY <1>5, <2>2, ElementOfSeq
  <2>4. b - a = last - first
    BY <1>6
  <2>5. a + from = first /\ b <= to - from
    BY <1>6
  <2> HIDE DEF a, b
  <2>6. /\ slice \in Seq(ToSet(text))
        /\ Len(slice) = IF a + 1 <= b THEN b - (a + 1) + 1 ELSE 0
        /\ \A i \in 1 .. (b - (a + 1) + 1) : slice[i] = got.text[(a + 1) + i - 1]
    BY <2>2, <2>3, SubSeqProperties
  <2> HIDE DEF slice
  <2>7. Len(slice) = last - first
    BY <1>6, <2>2, <2>4, <2>6
  <2>8. ASSUME NEW i \in 1 .. (last - first) PROVE slice[i] = text[first + i]
    <3>1. i \in 1 .. (b - (a + 1) + 1) /\ (a + 1) + i - 1 = a + i
      BY <1>6, <2>2, <2>4
    <3>2. i \in Int /\ 1 <= i /\ i <= b - a /\ {first, from, to} \subseteq Int
      BY <1>6, <2>4
    <3>3. a + i \in 1 .. (to - from)
      BY <2>2, <2>5, <3>2
    <3>4. from + (a + i) = first + i
      BY <2>2, <2>5, <3>2
    <3> QED BY <1>5, <2>6, <3>1, <3>3, <3>4
  <2>9. slice = [i \in 1..(last - first) |-> text[first + i]]
    <3>1. slice \in [1 .. Len(slice) -> ToSet(text)]
      BY <2>6, LenProperties
    <3> QED BY <2>7, <2>8, <3>1
  <2> QED BY <2>1, <2>9 DEF Slice, slice
<1> QED BY <1>1, <1>2, <1>7, <1>8, <1>9 DEF text, TellsTheWindow

-----------------------------------------------------------------------------
(* What a request tells.                                                    *)

(* Without the names a context depends on the bundle and the capture only.  *)
LEMMA NamelessContext ==
  ASSUME NEW target
  PROVE  LET ctx == BuildAppContext(target, FALSE)
             text == AxText(target.capture)
             bundle == Or(target.app.bundle, NonEmpty(target.app.bundle))
         IN /\ ctx.identity.bundle = bundle
            /\ DOMAIN ctx.identity = {"bundle", "name", "title", "domain"}
            /\ ctx.role = text.role /\ ctx.before = text.before /\ ctx.after = text.after
            /\ ctx.text = text.text /\ ctx.selection = SelectedText(target.capture)
            /\ ctx.include = FALSE
            /\ ctx.profile = Profile([bundle |-> bundle, name |-> Null, title |-> Null, domain |-> Null])
<1> DEFINE b == NonEmpty(target.app.bundle)
           full == [bundle |-> b, name |-> NonEmpty(target.app.name),
                    title |-> NonEmpty(target.title), domain |-> Null, ax |-> AxText(target.capture)]
           ax == Merge(target)
           id == Identity(target)
           text == IF ax = NoContext THEN AxText(NoCapture) ELSE ax.ax
           Of(field) == IF ax = NoContext THEN Null ELSE ax[field]
<1>1. ax = full \/ (ax = NoContext /\ target.capture = NoCapture /\ b = Null)
  BY DEF Merge
<1>2. full # NoContext
  <2>1. "ax" \in DOMAIN full /\ "ax" \notin DOMAIN NoContext
    BY DEF NoContext
  <2> QED BY <2>1
<1>3. Of("bundle") = b /\ text = AxText(target.capture)
  <2>1. CASE ax = NoContext
    BY <1>1, <1>2, <2>1
  <2>2. CASE ax # NoContext
    <3>1. ax = full
      BY <1>1, <2>2
    <3>2. ax["bundle"] = b /\ ax.ax = AxText(target.capture)
      BY <3>1
    <3> QED BY <2>2, <3>2
  <2> QED BY <2>1, <2>2
<1>4. id = [bundle |-> Or(target.app.bundle, Of("bundle")), name |-> Or(target.app.name, Of("name")),
            title |-> Of("title"), domain |-> Of("domain")]
  BY DEF Identity
<1> HIDE DEF ax, Of, full, b
<1> DEFINE ctx == BuildAppContext(target, FALSE)
           profile == Profile(ProfileIdentity(id, FALSE))
           selection == SelectedText(target.capture)
<1>5. ctx = [identity |-> id, role |-> text.role, selection |-> selection,
             before |-> text.before, after |-> text.after, text |-> text.text,
             profile |-> profile, include |-> FALSE]
  BY DEF BuildAppContext, ax
<1> HIDE DEF text, id, ctx
<1>6. /\ id.bundle = Or(target.app.bundle, b)
      /\ DOMAIN id = {"bundle", "name", "title", "domain"}
  BY <1>3, <1>4
<1>7. ProfileIdentity(id, FALSE) =
        [bundle |-> Or(target.app.bundle, b), name |-> Null, title |-> Null, domain |-> Null]
  BY <1>3, <1>4 DEF ProfileIdentity
<1>8. profile = Profile([bundle |-> Or(target.app.bundle, b), name |-> Null, title |-> Null,
                         domain |-> Null])
  BY <1>7
<1> HIDE DEF profile, selection
<1>9. /\ ctx.identity = id /\ ctx.role = text.role /\ ctx.before = text.before
      /\ ctx.after = text.after /\ ctx.text = text.text /\ ctx.selection = selection
      /\ ctx.include = FALSE /\ ctx.profile = profile
  BY <1>5
<1> QED BY <1>3, <1>6, <1>8, <1>9 DEF b, ctx, selection

Rows(bundle, role, before, after) ==
  {row \in {<<"bundle", bundle>>} : NonEmpty(bundle) # Null}
  \cup {row \in {<<"role", role>>} : NonEmpty(role) # Null}
  \cup {row \in {<<"before", before>>} : before # <<>>}
  \cup {row \in {<<"after", after>>} : after # <<>>}

LEMMA NamelessRows ==
  ASSUME NEW ctx, ctx.include = FALSE,
         DOMAIN ctx.identity = {"bundle", "name", "title", "domain"},
         ctx.text = <<>> => ctx.before = <<>> /\ ctx.after = <<>>
  PROVE  ContextRows(ModelContext(ctx)) = Rows(ctx.identity.bundle, ctx.role, ctx.before, ctx.after)
<1> DEFINE base == BaseContext(ctx)
           full == [text |-> ctx.text, start |-> Len(ctx.before),
                    end |-> Len(ctx.before) + Len(ctx.selection),
                    before |-> ctx.before, after |-> ctx.after, role |-> ctx.role,
                    bundle |-> ctx.identity.bundle, name |-> ctx.identity.name,
                    title |-> ctx.identity.title, domain |-> ctx.identity.domain]
<1>1. NonEmpty(Null) = Null
  BY DEF NonEmpty, Null
<1>2. full # NoContext
  <2>1. "text" \in DOMAIN full /\ "text" \notin DOMAIN NoContext
    BY DEF NoContext
  <2> QED BY <2>1
<1>3. CASE base = NoContext
  <2>1. ctx.text = <<>> /\ ctx.role = Null /\ ctx.identity["bundle"] = Null
    BY <1>2, <1>3 DEF BaseContext
  <2>2. Rows(ctx.identity.bundle, ctx.role, ctx.before, ctx.after) = {}
    BY <1>1, <2>1 DEF Rows
  <2>3. ContextRows(ModelContext(ctx)) = {}
    BY <1>3 DEF ModelContext, ContextRows
  <2> QED BY <2>2, <2>3
<1>4. CASE base # NoContext
  <2> DEFINE shown == [full EXCEPT !.name = Null, !.title = Null, !.domain = Null]
  <2>1. base = full
    BY <1>4 DEF BaseContext
  <2>2. ModelContext(ctx) = shown
    BY <1>4, <2>1 DEF ModelContext
  <2>3. /\ shown["bundle"] = ctx.identity.bundle /\ shown["role"] = ctx.role
        /\ shown["before"] = ctx.before /\ shown["after"] = ctx.after
        /\ shown["name"] = Null /\ shown["title"] = Null /\ shown["domain"] = Null
        /\ "text" \in DOMAIN shown
    OBVIOUS
  <2> HIDE DEF shown
  <2>4. shown # NoContext
    <3>1. "text" \notin DOMAIN NoContext
      BY DEF NoContext
    <3> QED BY <2>3, <3>1
  <2>5. ContextRows(shown) =
          {<<f, shown[f]>> : f \in {g \in {"bundle", "name", "title", "domain", "role"} :
                                     NonEmpty(shown[g]) # Null}}
          \cup {<<f, shown[f]>> : f \in {g \in {"before", "after"} : shown[g] # <<>>}}
    BY <2>4 DEF ContextRows
  <2>6. {<<f, shown[f]>> : f \in {g \in {"bundle", "name", "title", "domain", "role"} :
                                     NonEmpty(shown[g]) # Null}}
        = {row \in {<<"bundle", shown["bundle"]>>} : NonEmpty(shown["bundle"]) # Null}
          \cup {row \in {<<"role", shown["role"]>>} : NonEmpty(shown["role"]) # Null}
    BY <1>1, <2>3
  <2>7. {<<f, shown[f]>> : f \in {g \in {"before", "after"} : shown[g] # <<>>}}
        = {row \in {<<"before", shown["before"]>>} : shown["before"] # <<>>}
          \cup {row \in {<<"after", shown["after"]>>} : shown["after"] # <<>>}
    OBVIOUS
  <2>8. ContextRows(shown) = Rows(shown["bundle"], shown["role"], shown["before"], shown["after"])
    BY <2>5, <2>6, <2>7 DEF Rows
  <2> QED BY <2>2, <2>3, <2>8
<1> QED BY <1>3, <1>4

(* The names of a target leave no trace in its evidence.                    *)
LEMMA NamesLeaveNoTrace ==
  ASSUME NEW target, NEW other,
         other.capture = target.capture, other.app.bundle = target.app.bundle,
         AxText(target.capture).text = <<>> =>
           AxText(target.capture).before = <<>> /\ AxText(target.capture).after = <<>>
  PROVE  Evidence(BuildAppContext(target, FALSE)) = Evidence(BuildAppContext(other, FALSE))
<1> DEFINE text == AxText(target.capture)
           bundle == Or(target.app.bundle, NonEmpty(target.app.bundle))
           one == BuildAppContext(target, FALSE)
           two == BuildAppContext(other, FALSE)
<1>1. \A ctx \in {one, two} :
        /\ ctx.identity.bundle = bundle
        /\ DOMAIN ctx.identity = {"bundle", "name", "title", "domain"}
        /\ ctx.role = text.role /\ ctx.before = text.before /\ ctx.after = text.after
        /\ ctx.text = text.text /\ ctx.include = FALSE
        /\ ctx.profile = Profile([bundle |-> bundle, name |-> Null, title |-> Null, domain |-> Null])
  BY NamelessContext
<1> HIDE DEF one, two, text, bundle
<1>2. \A ctx \in {one, two} :
        ContextRows(ModelContext(ctx)) = Rows(bundle, text.role, text.before, text.after)
  BY <1>1, NamelessRows DEF text
<1> QED BY <1>1, <1>2 DEF Evidence, one, two

-----------------------------------------------------------------------------
(* The inductive invariant.                                                 *)
Apps == {NoApp} \cup {screen.app : screen \in Screens}
Titles == {Null} \cup {screen.title : screen \in Screens}
Texts == {"none", "blank", "stop", "words"}
Calls == {"probe", "capture", "title"}
Early == {"none", "recording", "cancelled", "context"}
Asking == {"omni", "http", "realtime", "llm"}
Ready == {"floor", "inserting", "done"}
Left == {"superseded", "failed", "empty"}

Acquisitions ==
  [stage: {"none", "done"} \cup Calls, waiting: BOOLEAN, late: BOOLEAN, app: Apps,
   capture: {NoCapture} \cup {CaptureFocused(field) : field \in Controls},
   from: {NoCapture} \cup Controls, title: Titles]

Pipelines ==
  [at: Early \cup Asking \cup Ready \cup Left, engine: {"none"} \cup Engines,
   raw: Texts, final: Texts, llm: BOOLEAN]

Sockets ==
  [ws: {"none", "connecting", "open", "closing", "closed"},
   streamed: BOOLEAN, settled: BOOLEAN]

RunTypeOK ==
  /\ include \in BOOLEAN /\ keeps \in BOOLEAN
  /\ axInFlight \in {NoCall} \cup (Runs \X Calls)
  /\ acq \in [Runs -> Acquisitions]
  /\ generation \in 0 .. MaxRuns /\ active \in {0, generation}
  /\ disposeSlot \in 0 .. generation
  /\ run \in [Runs -> Pipelines]
  /\ socket \in [Runs -> Sockets]
  /\ sent = [r \in Runs |-> sent[r]]

(* Nothing is known of a run that has not begun; the active one records.    *)
RunsBegin ==
  /\ \A r \in Runs : run[r].at = "none" <=> r > generation
  /\ \A r \in Runs : r > generation => acq[r] = NoAcquisition
  /\ active # 0 => run[active].at = "recording"

(* A stage that waits waits for the call in flight.                         *)
CallsAreAwaited ==
  \A r \in Runs : acq[r].waiting => axInFlight = <<r, acq[r].stage>>

(* A capture is what the control it was taken from shows.                   *)
CapturesAreRead ==
  \A r \in Runs :
    acq[r].capture # NoCapture =>
      acq[r].from \in Controls /\ acq[r].capture = CaptureFocused(acq[r].from)

(* A pipeline has its context, and what it sent is evidence of it.          *)
RequestsTellTheContext ==
  \A r \in Runs :
    /\ run[r].at \in Asking \cup {"floor", "inserting"} => acq[r].stage = "done"
    /\ sent[r] # NoRequest =>
         /\ acq[r].stage = "done"
         /\ sent[r] = Evidence(Context(r))

(* A pipeline that waits for its socket's promise is the one the promise    *)
(* still has to answer.                                                     *)
SocketsAreAwaited ==
  \A r \in Runs :
    /\ run[r].at \in Early => socket[r] = NoSocket
    /\ run[r].at = "realtime" => ~socket[r].settled
    /\ socket[r].ws # "none" /\ ~socket[r].settled => run[r].at = "realtime"

(* The language model has answered exactly the runs that asked it.          *)
AnswersAreStamped ==
  \A r \in Runs :
    /\ run[r].at \in Early \cup Asking => ~run[r].llm
    /\ run[r].at = "omni" => run[r].engine = "omni"
    /\ run[r].at \in {"http", "realtime", "llm"} => run[r].engine # "omni"
    /\ run[r].at \in Ready =>
         run[r].llm = (run[r].engine # "omni") /\ run[r].final \in {"stop", "words"}

(* History keeps one record of each insertion.                              *)
RecordsAreKept ==
  \A r \in Runs :
    LET records == {rec \in history : rec.run = r}
    IN IF run[r].at = "done" /\ keeps
       THEN \E outcome \in {"inserted", "failed"} : records = {RecordFor(r, outcome)}
       ELSE records = {}

RunInd ==
  /\ RunTypeOK /\ RunsBegin /\ CallsAreAwaited /\ CapturesAreRead
  /\ RequestsTellTheContext /\ SocketsAreAwaited /\ AnswersAreStamped /\ RecordsAreKept

LEMMA AfterStage ==
  After("probe") = "capture" /\ After("capture") = "title" /\ After("title") = "done"
<1> DEFINE S == {"probe", "capture", "title", "done"}
<1>1. ToSet(Stages) = S
  BY DEF ToSet, Stages
<1>2. \A stage, s \in S :
        (\E i \in 1 .. 3 : Stages[i] = stage /\ Stages[i + 1] = s)
        <=> <<stage, s>> \in {<<"probe", "capture">>, <<"capture", "title">>, <<"title", "done">>}
  <2>1. Stages[1] = "probe" /\ Stages[2] = "capture" /\ Stages[3] = "title" /\ Stages[4] = "done"
    BY DEF Stages
  <2>2. ASSUME NEW stage, NEW s
        PROVE (\E i \in 1 .. 3 : Stages[i] = stage /\ Stages[i + 1] = s)
              <=> \/ Stages[1] = stage /\ Stages[2] = s
                  \/ Stages[2] = stage /\ Stages[3] = s
                  \/ Stages[3] = stage /\ Stages[4] = s
    <3>1. \A i \in 1 .. 3 : i = 1 \/ i = 2 \/ i = 3
      OBVIOUS
    <3> QED BY <3>1
  <2> QED BY <2>1, <2>2
<1>3. \A stage \in S : After(stage) = CHOOSE s \in S : <<stage, s>> \in
        {<<"probe", "capture">>, <<"capture", "title">>, <<"title", "done">>}
  BY <1>1, <1>2 DEF After
<1> QED BY <1>3

(* What an acquisition becomes is an acquisition.                           *)
LEMMA AcquisitionMoves ==
  /\ NoAcquisition \in Acquisitions
  /\ \A screen \in Screens :
       [NoAcquisition EXCEPT !.stage = "probe", !.app = screen.app] \in Acquisitions
  /\ \A x \in Acquisitions :
       /\ [x EXCEPT !.waiting = TRUE] \in Acquisitions
       /\ [x EXCEPT !.late = TRUE] \in Acquisitions
       /\ x.stage \in Calls =>
            /\ Advanced(x) \in Acquisitions
            /\ Advanced([x EXCEPT !.late = TRUE]) \in Acquisitions
            /\ \A screen \in Screens :
                 Answered(x, x.stage, screen) \in Acquisitions
                 /\ Answered(x, x.stage, screen).stage = x.stage
<1> USE DEF Acquisitions
<1>1. NoAcquisition \in Acquisitions
  BY DEF NoAcquisition, Apps, Titles
<1>2. ASSUME NEW screen \in Screens
      PROVE  [NoAcquisition EXCEPT !.stage = "probe", !.app = screen.app] \in Acquisitions
  BY <1>1 DEF NoAcquisition, Calls, Apps
<1>3. ASSUME NEW x \in Acquisitions
      PROVE  /\ [x EXCEPT !.waiting = TRUE] \in Acquisitions
             /\ [x EXCEPT !.late = TRUE] \in Acquisitions
  OBVIOUS
<1>4. ASSUME NEW x \in Acquisitions, x.stage \in Calls
      PROVE  Advanced(x) \in Acquisitions
  <2> DEFINE next == After(x.stage)
  <2>1. next \in {"done"} \cup Calls
    BY <1>4, AfterStage DEF Calls
  <2> HIDE DEF next
  <2>2. [x EXCEPT !.stage = next, !.waiting = FALSE, !.late = @ /\ next # "done"] \in Acquisitions
    BY <1>4, <2>1
  <2> QED BY <2>2 DEF Advanced, next
<1>5. ASSUME NEW x \in Acquisitions, x.stage \in Calls, NEW screen \in Screens
      PROVE  Answered(x, x.stage, screen) \in Acquisitions
             /\ Answered(x, x.stage, screen).stage = x.stage
  <2>1. CASE x.stage = "probe"
    BY <1>5, <2>1 DEF Answered
  <2>2. CASE x.stage = "capture"
    <3> DEFINE got == CaptureFocused(screen.control)
               source == IF got = NoCapture THEN NoCapture ELSE screen.control
    <3>1. got \in {CaptureFocused(field) : field \in Controls} /\ source \in {NoCapture} \cup Controls
      BY DEF Controls
    <3> HIDE DEF got, source
    <3>2. [x EXCEPT !.capture = got, !.from = source] \in Acquisitions
          /\ [x EXCEPT !.capture = got, !.from = source].stage = x.stage
      BY <1>5, <3>1
    <3> QED BY <2>2, <3>2 DEF Answered, got, source
  <2>3. CASE x.stage = "title"
    <3>1. [x EXCEPT !.title = screen.title] \in Acquisitions
          /\ [x EXCEPT !.title = screen.title].stage = x.stage
      BY <1>5 DEF Titles
    <3> QED BY <2>3, <3>1 DEF Answered
  <2> QED BY <1>5, <2>1, <2>2, <2>3 DEF Calls
<1>6. ASSUME NEW x \in Acquisitions, x.stage \in Calls
      PROVE  Advanced([x EXCEPT !.late = TRUE]) \in Acquisitions
  <2> DEFINE y == [x EXCEPT !.late = TRUE]
  <2>1. y \in Acquisitions /\ y.stage = x.stage
    BY <1>6
  <2> HIDE DEF y
  <2>2. Advanced(y) \in Acquisitions
    BY <1>4, <1>6, <2>1
  <2> QED BY <2>2 DEF y
<1> QED BY <1>1, <1>2, <1>3, <1>4, <1>5, <1>6

(* What a pipeline becomes is a pipeline, and likewise for a socket.        *)
LEMMA PipelineMoves ==
  /\ \A at \in Early \cup Asking \cup Ready \cup Left :
       /\ [NoRun EXCEPT !.at = at] \in Pipelines
       /\ \A x \in Pipelines : [x EXCEPT !.at = at] \in Pipelines
  /\ \A x \in Pipelines :
       /\ \A engine \in Engines : [x EXCEPT !.at = engine, !.engine = engine] \in Pipelines
       /\ \A text \in Texts :
            /\ [x EXCEPT !.at = "llm", !.raw = text] \in Pipelines
            /\ [x EXCEPT !.at = "floor", !.raw = text, !.final = text] \in Pipelines
            /\ [x EXCEPT !.at = "floor", !.final = text, !.llm = TRUE] \in Pipelines
<1> DEFINE Places == Early \cup Asking \cup Ready \cup Left
<1>1. Engines \cup {"llm", "floor"} \subseteq Places /\ "none" \in Places /\ "none" \in Texts
  BY DEF Early, Asking, Ready, Left, Engines, Texts
<1> HIDE DEF Places
<1>2. Pipelines = [at: Places, engine: {"none"} \cup Engines, raw: Texts, final: Texts, llm: BOOLEAN]
  BY DEF Pipelines, Places
<1>3. NoRun \in Pipelines
  BY <1>1, <1>2 DEF NoRun
<1>4. ASSUME NEW x \in Pipelines, NEW at \in Places
      PROVE  [x EXCEPT !.at = at] \in Pipelines
  BY <1>2
<1>5. ASSUME NEW x \in Pipelines, NEW engine \in Engines
      PROVE  [x EXCEPT !.at = engine, !.engine = engine] \in Pipelines
  BY <1>1, <1>2
<1>6. ASSUME NEW x \in Pipelines, NEW text \in Texts
      PROVE  /\ [x EXCEPT !.at = "llm", !.raw = text] \in Pipelines
             /\ [x EXCEPT !.at = "floor", !.raw = text, !.final = text] \in Pipelines
             /\ [x EXCEPT !.at = "floor", !.final = text, !.llm = TRUE] \in Pipelines
  BY <1>1, <1>2
<1> QED BY <1>3, <1>4, <1>5, <1>6 DEF Places

LEMMA SocketMoves ==
  /\ NoSocket \in Sockets
  /\ [NoSocket EXCEPT !.settled = TRUE, !.ws = "closing"] \in Sockets
  /\ [NoSocket EXCEPT !.settled = TRUE, !.ws = "closed"] \in Sockets
  /\ \A x \in Sockets :
       /\ [x EXCEPT !.streamed = TRUE] \in Sockets
       /\ \A ws \in {"connecting", "open", "closing"} : [x EXCEPT !.ws = ws] \in Sockets
  BY DEF Sockets, NoSocket

LEMMA NextIsRun ==
  ASSUME RunTypeOK, StartRecording
  PROVE  generation + 1 \in Runs
<1>1. generation \in 0 .. MaxRuns /\ generation < MaxRuns /\ MaxRuns \in Nat
  BY MaxRunsAssumption DEF RunTypeOK, StartRecording
<1> QED BY <1>1 DEF Runs

LEMMA AcqTyped ==
  ASSUME RunTypeOK, [Next]_vars
  PROVE  acq' \in [Runs -> Acquisitions]
<1> USE AcquisitionMoves
<1>0. acq \in [Runs -> Acquisitions] /\ (axInFlight = NoCall \/ axInFlight \in Runs \X Calls)
  BY DEF RunTypeOK
<1>1. CASE UNCHANGED acq
  BY <1>0, <1>1
<1>2. CASE StartRecording
  <2>1. generation + 1 \in Runs
    BY <1>2, NextIsRun
  <2> QED BY <1>0, <1>2, <2>1 DEF StartRecording
<1>3. CASE AxReturns
  <2>1. axInFlight[1] \in Runs /\ axInFlight[2] \in Calls
    BY <1>0, <1>3 DEF AxReturns
  <2>2. CASE acq' # acq
    <3> DEFINE r == axInFlight[1]
    <3>1. PICK screen \in Screens :
            /\ acq[r].stage = axInFlight[2]
            /\ acq' = [acq EXCEPT ![r] = Advanced(Answered(@, axInFlight[2], screen))]
      BY <1>3, <2>2 DEF AxReturns
    <3>2. Advanced(Answered(acq[r], acq[r].stage, screen)) \in Acquisitions
      BY <1>0, <2>1, <3>1
    <3> QED BY <1>0, <2>1, <3>1, <3>2
  <2> QED BY <1>0, <2>2
<1>4. CASE AxFails
  <2>1. axInFlight[1] \in Runs /\ axInFlight[2] \in Calls
    BY <1>0, <1>4 DEF AxFails
  <2>2. CASE acq' # acq
    <3> DEFINE r == axInFlight[1]
    <3>1. acq[r].stage = axInFlight[2] /\ acq' = [acq EXCEPT ![r] = Advanced(@)]
      BY <1>4, <2>2 DEF AxFails, Fallback
    <3>2. Advanced(acq[r]) \in Acquisitions
      BY <1>0, <2>1, <3>1
    <3> HIDE AcquisitionMoves
    <3> QED BY <1>0, <2>1, <3>1, <3>2
  <2> QED BY <1>0, <2>2
<1>5. ASSUME NEW r \in Runs, StageBegins(r) PROVE acq' \in [Runs -> Acquisitions]
  BY <1>0, <1>5 DEF StageBegins, Fallback, Calls
<1>6. ASSUME NEW r \in Runs, DeadlinePasses(r) PROVE acq' \in [Runs -> Acquisitions]
  BY <1>0, <1>6 DEF DeadlinePasses, Calls
<1>7. ASSUME NEW r \in Runs, acq' = [acq EXCEPT ![r] = NoAcquisition]
      PROVE  acq' \in [Runs -> Acquisitions]
  BY <1>0, <1>7
<1> QED
  BY <1>1, <1>2, <1>3, <1>4, <1>5, <1>6, <1>7
  DEF Next, OwnStep, vars, AudioArrives, CancelRecording, ContextSuperseded, ResolveFails,
      RecordingRefused, AskEngine, RequestAborts, RequestFails, SocketTimesOut, Announce, Inserted,
      RecognizerAnswers, OmniAnswers, LlmAnswers, SocketOpens, SessionUpdated,
      TranscriptionCompletes, SocketFails, SocketCloses, Forgets, EndsAt, SettleReject, Recognized

LEMMA ActiveIsRun ==
  ASSUME RunTypeOK, active # 0
  PROVE  active \in Runs /\ active = generation
<1>1. generation \in 0 .. MaxRuns /\ active = generation /\ MaxRuns \in Nat
  BY MaxRunsAssumption DEF RunTypeOK
<1> QED BY <1>1 DEF Runs

LEMMA RunTyped ==
  ASSUME RunTypeOK, [Next]_vars
  PROVE  run' \in [Runs -> Pipelines]
<1> USE PipelineMoves
<1>0. run \in [Runs -> Pipelines]
  BY DEF RunTypeOK
<1>1. CASE UNCHANGED run
  BY <1>0, <1>1
<1>2. ASSUME NEW r \in Runs, NEW at \in Early \cup Asking \cup Ready \cup Left,
             run' = [run EXCEPT ![r].at = at] \/ run' = [run EXCEPT ![r] = [NoRun EXCEPT !.at = at]]
      PROVE  run' \in [Runs -> Pipelines]
  <2>1. /\ run[r] \in Pipelines /\ [run[r] EXCEPT !.at = at] \in Pipelines
        /\ [NoRun EXCEPT !.at = at] \in Pipelines
    BY <1>0
  <2> HIDE PipelineMoves
  <2> QED BY <1>0, <1>2, <2>1
<1>3. CASE StartRecording
  BY <1>2, <1>3, NextIsRun DEF StartRecording, Early
<1>4. CASE AudioArrives \/ CancelRecording
  <2>1. active \in Runs
    BY <1>4, ActiveIsRun DEF AudioArrives, CancelRecording
  <2> QED BY <1>2, <1>4, <2>1 DEF AudioArrives, CancelRecording, Early
<1>5. ASSUME NEW r \in Runs, NEW engine \in Engines, AskEngine(r, engine)
      PROVE  run' \in [Runs -> Pipelines]
  BY <1>0, <1>5 DEF AskEngine
<1>6. ASSUME NEW r \in Runs, OmniAnswers(r) \/ LlmAnswers(r) PROVE run' \in [Runs -> Pipelines]
  <2>1. PICK text \in {"stop", "words"} :
          \/ run' = [run EXCEPT ![r] = [@ EXCEPT !.at = "floor", !.raw = text, !.final = text]]
          \/ run' = [run EXCEPT ![r] = [@ EXCEPT !.at = "floor", !.final = text, !.llm = TRUE]]
    BY <1>6 DEF OmniAnswers, LlmAnswers
  <2>2. text \in Texts /\ run[r] \in Pipelines
    BY <1>0 DEF Texts
  <2>3. /\ [run[r] EXCEPT !.at = "floor", !.raw = text, !.final = text] \in Pipelines
        /\ [run[r] EXCEPT !.at = "floor", !.final = text, !.llm = TRUE] \in Pipelines
    BY <2>2
  <2> HIDE PipelineMoves
  <2> QED BY <1>0, <2>1, <2>3
<1>7. ASSUME NEW r \in Runs, NEW at \in Left, Forgets(r, at) PROVE run' \in [Runs -> Pipelines]
  BY <1>2, <1>7 DEF Forgets
<1>8. ASSUME NEW r \in Runs, NEW text \in {"blank", "words"}, Recognized(r, text)
      PROVE  run' \in [Runs -> Pipelines]
  <2>1. text \in Texts /\ run[r] \in Pipelines /\ "empty" \in Left
    BY <1>0 DEF Texts, Left
  <2>2. [run[r] EXCEPT !.at = "llm", !.raw = text] \in Pipelines
    BY <2>1
  <2>3. CASE text = "blank"
    BY <1>7, <1>8, <2>1, <2>3 DEF Recognized
  <2>4. CASE text # "blank"
    <3>1. run' = [run EXCEPT ![r] = [@ EXCEPT !.at = "llm", !.raw = text]]
      BY <1>8, <2>4 DEF Recognized
    <3> HIDE PipelineMoves
    <3> QED BY <1>0, <2>2, <3>1
  <2> QED BY <2>3, <2>4
<1>9. ASSUME NEW r \in Runs, Announce(r) \/ Inserted(r) PROVE run' \in [Runs -> Pipelines]
  BY <1>0, <1>2, <1>7, <1>9 DEF Announce, EndsAt, Inserted, Ready, Left
<1> QED
  BY <1>1, <1>3, <1>4, <1>5, <1>6, <1>7, <1>8, <1>9
  DEF Next, OwnStep, vars, AxReturns, AxFails, StageBegins, DeadlinePasses, ContextSuperseded,
      ResolveFails, RecordingRefused, RequestAborts, RequestFails, SocketTimesOut,
      RecognizerAnswers, SocketOpens, SessionUpdated, TranscriptionCompletes, SocketFails,
      SocketCloses, EndsAt, SettleReject, Left

(* Disposing of a run's socket only closes it.                              *)
LEMMA DisposedCloses ==
  ASSUME RunTypeOK, NEW r
  PROVE  /\ Disposed(r) \in [Runs -> Sockets]
         /\ \A q \in Runs :
              \/ Disposed(r)[q] = socket[q]
              \/ socket[q].ws \in {"connecting", "open"}
                 /\ Disposed(r)[q] = [socket[q] EXCEPT !.ws = "closing"]
<1>1. socket \in [Runs -> Sockets]
  BY DEF RunTypeOK
<1>2. \A q \in Runs : socket[q] \in Sockets /\ [socket[q] EXCEPT !.ws = "closing"] \in Sockets
  BY <1>1, SocketMoves
<1> QED BY <1>1, <1>2 DEF Disposed

LEMMA SocketTyped ==
  ASSUME RunTypeOK, [Next]_vars
  PROVE  socket' \in [Runs -> Sockets]
<1> USE SocketMoves
<1>0. socket \in [Runs -> Sockets]
  BY DEF RunTypeOK
<1>1. ASSUME NEW r, socket' = Disposed(r) PROVE socket' \in [Runs -> Sockets]
  BY <1>1, DisposedCloses
<1>2. ASSUME NEW r \in Runs, NEW engine \in Engines, AskEngine(r, engine)
      PROVE  socket' \in [Runs -> Sockets]
  <2> DEFINE closed == Disposed(disposeSlot)
  <2>1. closed \in [Runs -> Sockets]
    BY DisposedCloses
  <2>2. socket' = IF engine = "realtime" THEN [closed EXCEPT ![r].ws = "connecting"] ELSE closed
    BY <1>2 DEF AskEngine
  <2> HIDE DEF closed
  <2> QED BY <2>1, <2>2
<1>3. ASSUME NEW r \in Runs, Settle(r) PROVE socket' \in [Runs -> Sockets]
  BY <1>0, <1>3 DEF Settle
<1>4. ASSUME NEW r \in Runs, SocketOpens(r) \/ SessionUpdated(r) \/ SocketCloses(r)
      PROVE  socket' \in [Runs -> Sockets]
  <2>1. /\ socket[r] \in Sockets /\ [socket[r] EXCEPT !.ws = "open"] \in Sockets
        /\ [socket[r] EXCEPT !.streamed = TRUE] \in Sockets
        /\ [NoSocket EXCEPT !.settled = TRUE, !.ws = "closed"] \in Sockets
    BY <1>0
  <2>2. \/ socket' = [socket EXCEPT ![r].ws = "open"]
        \/ socket' = [socket EXCEPT ![r].streamed = TRUE]
        \/ socket' = [socket EXCEPT ![r] = [NoSocket EXCEPT !.settled = TRUE, !.ws = "closed"]]
    BY <1>4 DEF SocketOpens, SessionUpdated, SocketCloses
  <2> HIDE SocketMoves
  <2> QED BY <1>0, <2>1, <2>2
<1>5. ASSUME NEW r \in Runs, NEW at, EndsAt(r, at) PROVE socket' \in [Runs -> Sockets]
  BY <1>0, <1>1, <1>5 DEF EndsAt
<1> QED
  BY <1>0, <1>1, <1>2, <1>3, <1>4, <1>5
  DEF Next, OwnStep, vars, StartRecording, AudioArrives, CancelRecording, AxReturns, AxFails,
      StageBegins, DeadlinePasses, ContextSuperseded, ResolveFails, RecordingRefused,
      RequestAborts, RequestFails, SocketTimesOut, Announce, Inserted, RecognizerAnswers,
      OmniAnswers, LlmAnswers, TranscriptionCompletes, SocketFails, SettleReject

(* A pipeline that has its context takes the slot.                          *)
MovesSlot == \E r \in Runs : run[r].at = "context" /\ disposeSlot' = r

(* The rest of the state keeps its type.                                    *)
LEMMA CountersTyped ==
  ASSUME RunTypeOK, RunsBegin, [Next]_vars
  PROVE  /\ include' = include /\ keeps' = keeps
         /\ axInFlight' \in {NoCall} \cup (Runs \X Calls)
         /\ generation' \in 0 .. MaxRuns /\ active' \in {0, generation'}
         /\ disposeSlot' \in 0 .. generation'
         /\ sent' = [r \in Runs |-> sent'[r]]
<1>1. sent = [r \in Runs |-> sent[r]] /\ generation \in 0 .. MaxRuns
      /\ disposeSlot \in 0 .. generation /\ MaxRuns \in Nat /\ active \in {0, generation}
  BY MaxRunsAssumption DEF RunTypeOK
<1>2. include' = include /\ keeps' = keeps
  BY DEF Next, OwnStep, vars, settings, StartRecording, AudioArrives, CancelRecording, AxReturns,
         AxFails, StageBegins, DeadlinePasses, ContextSuperseded, ResolveFails, RecordingRefused,
         AskEngine, RequestAborts, RequestFails, SocketTimesOut, Announce, Inserted,
         RecognizerAnswers, OmniAnswers, LlmAnswers, SocketOpens, SessionUpdated,
         TranscriptionCompletes, SocketFails, SocketCloses
<1>3. axInFlight' \in {NoCall} \cup (Runs \X Calls)
  <2>1. \/ UNCHANGED axInFlight \/ axInFlight' = NoCall
        \/ \E r \in Runs : acq[r].stage \in Calls /\ axInFlight' = <<r, acq[r].stage>>
    BY DEF Next, OwnStep, vars, StartRecording, AudioArrives, CancelRecording, AxReturns,
           AxFails, StageBegins, DeadlinePasses, ContextSuperseded, ResolveFails,
           RecordingRefused, AskEngine, RequestAborts, RequestFails, SocketTimesOut, Announce,
           Inserted, RecognizerAnswers, OmniAnswers, LlmAnswers, SocketOpens, SessionUpdated,
           TranscriptionCompletes, SocketFails, SocketCloses, Calls
  <2> QED BY <2>1 DEF RunTypeOK
<1>4. sent' = [r \in Runs |-> sent'[r]]
  <2>1. UNCHANGED sent \/ \E r \in Runs : \E request : sent' = [sent EXCEPT ![r] = request]
    BY DEF Next, OwnStep, vars, StartRecording, AudioArrives, CancelRecording, AxReturns,
           AxFails, StageBegins, DeadlinePasses, ContextSuperseded, ResolveFails,
           RecordingRefused, AskEngine, RequestAborts, RequestFails, SocketTimesOut, Announce,
           Inserted, RecognizerAnswers, OmniAnswers, LlmAnswers, SocketOpens, SessionUpdated,
           TranscriptionCompletes, SocketFails, SocketCloses, Forgets, EndsAt, SettleReject,
           Recognized
  <2> QED BY <1>1, <2>1
<1>5. CASE StartRecording
  <2>1. /\ generation < MaxRuns /\ generation' = generation + 1
        /\ active' = generation' /\ disposeSlot' = 0
    BY <1>5 DEF StartRecording
  <2>2. generation + 1 \in 0 .. MaxRuns /\ 0 \in 0 .. generation + 1
    BY <1>1, <2>1
  <2> QED BY <1>2, <1>3, <1>4, <2>1, <2>2
<1>6. CASE UNCHANGED generation /\ active' \in {0, active}
           /\ (disposeSlot' \in {0, disposeSlot} \/ MovesSlot)
  <2>1. ASSUME NEW r \in Runs, run[r].at = "context" PROVE r \in 0 .. generation
    BY <1>1, <2>1 DEF Runs, RunsBegin
  <2>2. 0 \in 0 .. generation
    BY <1>1
  <2> QED BY <1>1, <1>2, <1>3, <1>4, <1>6, <2>1, <2>2 DEF MovesSlot
<1>7. StartRecording
      \/ (/\ UNCHANGED generation /\ active' \in {0, active}
          /\ (disposeSlot' \in {0, disposeSlot} \/ MovesSlot))
  <2>1. StartRecording \/ UNCHANGED generation
    BY DEF Next, OwnStep, vars, AudioArrives, CancelRecording, AxReturns, AxFails, StageBegins,
           DeadlinePasses, ContextSuperseded, ResolveFails, RecordingRefused, AskEngine,
           RequestAborts, RequestFails, SocketTimesOut, Announce, Inserted, RecognizerAnswers,
           OmniAnswers, LlmAnswers, SocketOpens, SessionUpdated, TranscriptionCompletes,
           SocketFails, SocketCloses, FreesSlot, EndsAt, SettleReject, Recognized, MovesSlot
  <2>2. StartRecording \/ active' \in {0, active}
    BY DEF Next, OwnStep, vars, AudioArrives, CancelRecording, AxReturns, AxFails, StageBegins,
           DeadlinePasses, ContextSuperseded, ResolveFails, RecordingRefused, AskEngine,
           RequestAborts, RequestFails, SocketTimesOut, Announce, Inserted, RecognizerAnswers,
           OmniAnswers, LlmAnswers, SocketOpens, SessionUpdated, TranscriptionCompletes,
           SocketFails, SocketCloses, FreesSlot, EndsAt, SettleReject, Recognized, MovesSlot
  <2>3. StartRecording \/ disposeSlot' \in {0, disposeSlot} \/ MovesSlot
    BY DEF Next, OwnStep, vars, AudioArrives, CancelRecording, AxReturns, AxFails, StageBegins,
           DeadlinePasses, ContextSuperseded, ResolveFails, RecordingRefused, AskEngine,
           RequestAborts, RequestFails, SocketTimesOut, Announce, Inserted, RecognizerAnswers,
           OmniAnswers, LlmAnswers, SocketOpens, SessionUpdated, TranscriptionCompletes,
           SocketFails, SocketCloses, FreesSlot, EndsAt, SettleReject, Recognized, MovesSlot
  <2> QED BY <2>1, <2>2, <2>3
<1> QED BY <1>2, <1>3, <1>4, <1>5, <1>6, <1>7

LEMMA TypesKept ==
  ASSUME RunTypeOK, RunsBegin, [Next]_vars
  PROVE  RunTypeOK'
<1>1. include \in BOOLEAN /\ keeps \in BOOLEAN
  BY DEF RunTypeOK
<1> QED BY <1>1, AcqTyped, RunTyped, SocketTyped, CountersTyped DEF RunTypeOK, Runs

-----------------------------------------------------------------------------
(* What a step does to one run.                                             *)

(* The actions that end a run before its text is inserted.                  *)
Ends(r) == \E at \in Left : Forgets(r, at)

LEMMA AcqSteps ==
  ASSUME [Next]_vars
  PROVE  \/ UNCHANGED <<acq, axInFlight>>
         \/ StartRecording \/ AxReturns \/ AxFails
         \/ \E r \in Runs :
              \/ StageBegins(r) \/ DeadlinePasses(r)
              \/ UNCHANGED axInFlight /\ (Ends(r) \/ Inserted(r))
<1> USE DEF Ends, Left
<1>1. CASE UNCHANGED vars
  BY <1>1 DEF vars
<1>2. CASE AudioArrives \/ CancelRecording
  BY <1>2 DEF AudioArrives, CancelRecording
<1>3. ASSUME NEW r \in Runs,
             \/ ContextSuperseded(r) \/ ResolveFails(r) \/ RecordingRefused(r)
             \/ RequestFails(r) \/ SocketTimesOut(r) \/ SocketFails(r)
      PROVE  UNCHANGED axInFlight /\ Ends(r)
  BY <1>3 DEF ContextSuperseded, ResolveFails, RecordingRefused, RequestFails, SocketTimesOut,
              SocketFails, EndsAt, SettleReject
<1>4. ASSUME NEW r \in Runs,
             \/ Announce(r) \/ SocketCloses(r) \/ RecognizerAnswers(r) \/ TranscriptionCompletes(r)
      PROVE  UNCHANGED axInFlight /\ (UNCHANGED acq \/ Ends(r))
  BY <1>4 DEF Announce, SocketCloses, RecognizerAnswers, TranscriptionCompletes, Recognized, EndsAt
<1>5. ASSUME NEW r \in Runs, NEW engine \in Engines,
             \/ AskEngine(r, engine) \/ OmniAnswers(r) \/ LlmAnswers(r) \/ SocketOpens(r)
             \/ SessionUpdated(r)
      PROVE  UNCHANGED <<acq, axInFlight>>
  BY <1>5 DEF AskEngine, OmniAnswers, LlmAnswers, SocketOpens, SessionUpdated
<1>6. ASSUME NEW r \in Runs, Inserted(r) PROVE UNCHANGED axInFlight
  BY <1>6 DEF Inserted
<1>7. Engines # {}
  BY DEF Engines
<1> HIDE DEF Ends, Left
<1> QED BY <1>1, <1>2, <1>3, <1>4, <1>5, <1>6, <1>7 DEF Next, OwnStep, RequestAborts

(* What becomes of an acquisition.                                          *)
LEMMA AcqEffects ==
  ASSUME RunTypeOK, [Next]_vars, NEW r \in Runs
  PROVE  \/ acq'[r] = acq[r]
         \/ acq'[r] = NoAcquisition /\ run'[r].at \in Ended /\ sent'[r] = NoRequest
         \/ /\ StartRecording /\ r = generation + 1
            /\ acq'[r].capture = NoCapture /\ ~acq'[r].waiting
         \/ /\ acq[r].stage \in Calls
            /\ UNCHANGED <<run, sent>>
            /\ \/ acq'[r].capture = acq[r].capture /\ acq'[r].from = acq[r].from
               \/ acq'[r].capture = NoCapture
               \/ acq'[r].from \in Controls /\ acq'[r].capture = CaptureFocused(acq'[r].from)
<1> DEFINE Effect ==
         \/ acq'[r].capture = acq[r].capture /\ acq'[r].from = acq[r].from
         \/ acq'[r].capture = NoCapture
         \/ acq'[r].from \in Controls /\ acq'[r].capture = CaptureFocused(acq'[r].from)
<1>1. /\ acq \in [Runs -> Acquisitions] /\ run \in [Runs -> Pipelines]
      /\ sent = [q \in Runs |-> sent[q]]
      /\ axInFlight # NoCall => axInFlight[1] \in Runs /\ axInFlight[2] \in Calls
  BY DEF RunTypeOK
<1>2. ASSUME NEW x \in Acquisitions
      PROVE  /\ Advanced(x).capture = x.capture /\ Advanced(x).from = x.from
             /\ LET y == [x EXCEPT !.late = TRUE]
                IN Advanced(y).capture = x.capture /\ Advanced(y).from = x.from
  BY <1>2 DEF Advanced, Acquisitions
<1>3. CASE StartRecording
  <2>1. PICK screen \in Screens :
          acq' = [acq EXCEPT ![generation + 1] =
                    [NoAcquisition EXCEPT !.stage = "probe", !.app = screen.app]]
    BY <1>3 DEF StartRecording
  <2>2. [NoAcquisition EXCEPT !.stage = "probe", !.app = screen.app].capture = NoCapture
        /\ ~[NoAcquisition EXCEPT !.stage = "probe", !.app = screen.app].waiting
    BY DEF NoAcquisition
  <2> QED BY <1>1, <1>3, <2>1, <2>2
<1>4. CASE AxReturns
  <2>1. CASE acq'[r] # acq[r]
    <3>1. PICK screen \in Screens :
            /\ r = axInFlight[1]
            /\ acq[r].stage = axInFlight[2]
            /\ acq' = [acq EXCEPT ![r] = Advanced(Answered(@, axInFlight[2], screen))]
      BY <1>1, <1>4, <2>1 DEF AxReturns
    <3> DEFINE y == Answered(acq[r], acq[r].stage, screen)
               got == CaptureFocused(screen.control)
               source == IF got = NoCapture THEN NoCapture ELSE screen.control
    <3>2. acq[r].stage \in Calls /\ acq'[r] = Advanced(y) /\ acq[r] \in Acquisitions
      BY <1>1, <1>4, <3>1 DEF AxReturns
    <3>3. y \in Acquisitions
      BY <1>1, <3>2, AcquisitionMoves
    <3>4. \/ y.capture = acq[r].capture /\ y.from = acq[r].from
          \/ y.capture = got /\ y.from = source
      <4>1. CASE acq[r].stage \in {"probe", "title"}
        BY <3>2, <4>1 DEF Answered, Acquisitions
      <4>2. CASE acq[r].stage = "capture"
        <5>1. y = [acq[r] EXCEPT !.capture = got, !.from = source]
          BY <4>2 DEF Answered
        <5> QED BY <3>2, <5>1 DEF Acquisitions
      <4> QED BY <3>2, <4>1, <4>2 DEF Calls
    <3>5. screen.control \in Controls
      BY DEF Controls
    <3> HIDE DEF y, got
    <3>6. Effect
      BY <1>2, <3>2, <3>3, <3>4, <3>5 DEF got
    <3> QED BY <1>4, <3>2, <3>6 DEF AxReturns
  <2> QED BY <2>1
<1>5. CASE AxFails
  <2>1. CASE acq'[r] # acq[r]
    <3>1. acq'[r] = Advanced(acq[r]) /\ acq[r].stage \in Calls /\ acq[r] \in Acquisitions
      BY <1>1, <1>5, <2>1 DEF AxFails, Fallback
    <3> QED BY <1>2, <1>5, <3>1 DEF AxFails
  <2> QED BY <2>1
<1>6. ASSUME NEW q \in Runs, StageBegins(q) \/ DeadlinePasses(q)
      PROVE  acq'[r] = acq[r] \/ (acq[r].stage \in Calls /\ UNCHANGED <<run, sent>> /\ Effect)
  <2>1. CASE q # r
    BY <1>1, <1>6, <2>1 DEF StageBegins, DeadlinePasses, Fallback
  <2>2. CASE q = r
    <3> DEFINE y == [acq[r] EXCEPT !.late = TRUE]
    <3>1. /\ acq[r].stage \in Calls /\ acq[r] \in Acquisitions /\ UNCHANGED <<run, sent>>
          /\ \/ acq'[r] = Advanced(acq[r]) \/ acq'[r] = Advanced(y) \/ acq'[r] = y
             \/ acq'[r] = [acq[r] EXCEPT !.waiting = TRUE]
      BY <1>1, <1>6, <2>2 DEF StageBegins, DeadlinePasses, Fallback, Calls
    <3>2. /\ y.capture = acq[r].capture /\ y.from = acq[r].from
          /\ [acq[r] EXCEPT !.waiting = TRUE].capture = acq[r].capture
          /\ [acq[r] EXCEPT !.waiting = TRUE].from = acq[r].from
      BY <3>1 DEF Acquisitions
    <3>3. acq'[r].capture = acq[r].capture /\ acq'[r].from = acq[r].from
      BY <1>2, <3>1, <3>2
    <3> QED BY <3>1, <3>3
  <2> QED BY <2>1, <2>2
<1>7. ASSUME NEW q \in Runs, Ends(q)
      PROVE  acq'[r] = acq[r] \/ (/\ acq'[r] = NoAcquisition /\ run'[r].at \in Ended
                                  /\ sent'[r] = NoRequest)
  <2>1. PICK at \in Left : Forgets(q, at)
    BY <1>7 DEF Ends
  <2>2. [NoRun EXCEPT !.at = at].at = at
    BY DEF NoRun
  <2> QED BY <1>1, <2>1, <2>2 DEF Forgets, Ended, Left
<1>8. ASSUME NEW q \in Runs, Inserted(q)
      PROVE  acq'[r] = acq[r] \/ (/\ acq'[r] = NoAcquisition /\ run'[r].at \in Ended
                                  /\ sent'[r] = NoRequest)
  <2>1. [run[q] EXCEPT !.at = "done"].at = "done"
    BY <1>1 DEF Pipelines
  <2> QED BY <1>1, <1>8, <2>1 DEF Inserted, Ended
<1> QED BY <1>3, <1>4, <1>5, <1>6, <1>7, <1>8, AcqSteps

(* What becomes of a pipeline.                                              *)
Heard(r) == \E text \in {"blank", "words"} : Recognized(r, text)

LEMMA RunSteps ==
  ASSUME RunTypeOK, SocketsAreAwaited, [Next]_vars
  PROVE  \/ UNCHANGED run /\ (UNCHANGED sent)
         \/ StartRecording \/ AudioArrives \/ CancelRecording
         \/ \E r \in Runs :
              \/ \E engine \in Engines : AskEngine(r, engine)
              \/ OmniAnswers(r) \/ LlmAnswers(r) \/ Announce(r) \/ Inserted(r)
              \/ run[r].at \in {"http", "realtime"} /\ Heard(r)
              \/ run[r].at \in {"context", "floor"} \cup Asking /\ Ends(r)
<1> USE DEF Ends, Left
<1>1. CASE UNCHANGED vars \/ AxReturns \/ AxFails
  BY <1>1 DEF vars, AxReturns, AxFails
<1>2. ASSUME NEW r \in Runs, StageBegins(r) \/ DeadlinePasses(r) \/ SocketOpens(r) \/ SessionUpdated(r)
      PROVE  UNCHANGED <<run, sent>>
  BY <1>2 DEF StageBegins, DeadlinePasses, SocketOpens, SessionUpdated
<1>3. ASSUME NEW r \in Runs,
             \/ ContextSuperseded(r) \/ ResolveFails(r) \/ RecordingRefused(r)
             \/ RequestFails(r) \/ SocketTimesOut(r)
      PROVE  run[r].at \in {"context"} \cup Asking /\ Ends(r)
  BY <1>3 DEF ContextSuperseded, ResolveFails, RecordingRefused, RequestFails, SocketTimesOut,
              EndsAt, SettleReject, Asking
<1>4. ASSUME NEW r \in Runs, socket[r].ws \in {"connecting", "open", "closing"}, ~socket[r].settled
      PROVE  run[r].at = "realtime" /\ run[r].at \in Asking
  BY <1>4 DEF SocketsAreAwaited, Asking
<1>5. ASSUME NEW r \in Runs, SocketFails(r)
      PROVE  run[r].at \in Asking /\ Ends(r)
  BY <1>4, <1>5 DEF SocketFails, SettleReject, Settle
<1>6. ASSUME NEW r \in Runs, SocketCloses(r)
      PROVE  UNCHANGED <<run, sent>> \/ (run[r].at \in Asking /\ Ends(r))
  BY <1>4, <1>6 DEF SocketCloses
<1>7. ASSUME NEW r \in Runs, RecognizerAnswers(r) \/ TranscriptionCompletes(r)
      PROVE  run[r].at \in {"http", "realtime"} /\ Heard(r)
  BY <1>4, <1>7 DEF RecognizerAnswers, TranscriptionCompletes, Settle, Heard
<1> HIDE DEF Ends, Left
<1> QED BY <1>1, <1>2, <1>3, <1>5, <1>6, <1>7 DEF Next, OwnStep, RequestAborts

LEMMA RunEffects ==
  ASSUME RunTypeOK, SocketsAreAwaited, [Next]_vars, NEW r \in Runs
  PROVE  \/ run'[r] = run[r] /\ sent'[r] = sent[r]
         \/ StartRecording /\ r = generation + 1 /\ run'[r] = [run[r] EXCEPT !.at = "recording"]
            /\ sent'[r] = sent[r]
         \/ /\ active # 0 /\ r = active /\ active' = 0 /\ sent'[r] = sent[r]
            /\ \E at \in {"context", "cancelled"} : run'[r] = [run[r] EXCEPT !.at = at]
         \/ \E engine \in Engines : AskEngine(r, engine)
         \/ OmniAnswers(r) \/ LlmAnswers(r) \/ Announce(r) \/ Inserted(r)
         \/ run[r].at \in {"http", "realtime"} /\ Heard(r)
         \/ run[r].at \in {"context", "floor"} \cup Asking /\ Ends(r)
<1>1. run \in [Runs -> Pipelines] /\ sent = [q \in Runs |-> sent[q]]
  BY DEF RunTypeOK
<1>2. CASE StartRecording
  BY <1>1, <1>2, NextIsRun DEF StartRecording
<1>3. CASE AudioArrives \/ CancelRecording
  <2>1. active \in Runs
    BY <1>3, ActiveIsRun DEF AudioArrives, CancelRecording
  <2> QED BY <1>1, <1>3, <2>1 DEF AudioArrives, CancelRecording
<1>4. ASSUME NEW q \in Runs, q # r,
             \/ \E engine \in Engines : AskEngine(q, engine)
             \/ OmniAnswers(q) \/ LlmAnswers(q) \/ Announce(q) \/ Inserted(q)
             \/ Heard(q) \/ Ends(q)
      PROVE  run'[r] = run[r] /\ sent'[r] = sent[r]
  BY <1>1, <1>4 DEF AskEngine, OmniAnswers, LlmAnswers, Announce, Inserted, Heard, Ends,
                    Recognized, EndsAt, Forgets
<1> QED BY <1>2, <1>3, <1>4, RunSteps

-----------------------------------------------------------------------------
(* The parts of the invariant, one by one.                                  *)

Same(r, fields) == \A f \in fields : run'[r][f] = run[r][f]

(* The moves of a run, field by field.                                      *)
Moves(r) ==
  \/ run'[r] = run[r] /\ sent'[r] = sent[r]
  \/ /\ StartRecording /\ r = generation + 1 /\ run'[r].at = "recording"
     /\ Same(r, {"engine", "llm", "final"}) /\ sent'[r] = sent[r]
  \/ /\ active # 0 /\ r = active /\ active' = 0 /\ run'[r].at \in {"context", "cancelled"}
     /\ Same(r, {"engine", "llm", "final"}) /\ sent'[r] = sent[r]
  \/ /\ run[r].at = "context" /\ acq[r].stage = "done" /\ run'[r].at \in Engines
     /\ run'[r].engine = run'[r].at /\ Same(r, {"llm", "final"}) /\ UNCHANGED acq
     /\ sent'[r] \in {sent[r], Evidence(Context(r))}
  \/ /\ run[r].at = "omni" /\ run'[r].at = "floor" /\ run'[r].final \in {"stop", "words"}
     /\ Same(r, {"engine", "llm"}) /\ UNCHANGED <<acq, sent>>
  \/ /\ run[r].at = "llm" /\ run'[r].at = "floor" /\ run'[r].final \in {"stop", "words"}
     /\ run'[r].llm /\ Same(r, {"engine"}) /\ UNCHANGED <<acq, sent>>
  \/ /\ run[r].at \in {"http", "realtime"} /\ run'[r].at = "llm"
     /\ Same(r, {"engine", "llm", "final"}) /\ UNCHANGED acq /\ sent'[r] = Evidence(Context(r))
  \/ /\ run[r].at = "floor" /\ run'[r].at = "inserting"
     /\ Same(r, {"engine", "llm", "final"}) /\ UNCHANGED <<acq, sent>>
  \/ /\ run[r].at = "inserting" /\ run'[r].at = "done" /\ Inserted(r)
     /\ Same(r, {"engine", "llm", "final", "raw"}) /\ sent'[r] = NoRequest
  \/ /\ run[r].at \in {"context", "floor"} \cup Asking /\ run'[r].at \in Left
     /\ ~run'[r].llm /\ sent'[r] = NoRequest

LEMMA RunsMove ==
  ASSUME RunTypeOK, SocketsAreAwaited, [Next]_vars, NEW r \in Runs
  PROVE  Moves(r)
<1>1. /\ run \in [Runs -> Pipelines] /\ sent = [q \in Runs |-> sent[q]] /\ run[r] \in Pipelines
      /\ acq \in [Runs -> Acquisitions]
  BY DEF RunTypeOK
<1>2. ASSUME NEW at PROVE /\ [run[r] EXCEPT !.at = at].at = at
                          /\ \A f \in {"engine", "llm", "final", "raw"} :
                               [run[r] EXCEPT !.at = at][f] = run[r][f]
  BY <1>1 DEF Pipelines
<1>3. CASE /\ StartRecording /\ r = generation + 1 /\ run'[r] = [run[r] EXCEPT !.at = "recording"]
           /\ sent'[r] = sent[r]
  BY <1>2, <1>3 DEF Moves, Same
<1>4. CASE /\ active # 0 /\ r = active /\ active' = 0 /\ sent'[r] = sent[r]
           /\ \E at \in {"context", "cancelled"} : run'[r] = [run[r] EXCEPT !.at = at]
  BY <1>2, <1>4 DEF Moves, Same
<1>5. ASSUME NEW engine \in Engines, AskEngine(r, engine) PROVE Moves(r)
  <2>1. /\ run[r].at = "context" /\ acq[r].stage = "done" /\ UNCHANGED acq
        /\ run' = [run EXCEPT ![r] = [@ EXCEPT !.at = engine, !.engine = engine]]
        /\ sent' = IF engine = "omni" THEN [sent EXCEPT ![r] = Evidence(Context(r))] ELSE sent
    BY <1>5 DEF AskEngine
  <2>2. run'[r] = [run[r] EXCEPT !.at = engine, !.engine = engine]
    BY <1>1, <2>1
  <2>3. run'[r].at = engine /\ run'[r].engine = engine /\ Same(r, {"llm", "final"})
    BY <1>1, <2>2 DEF Same, Pipelines
  <2>4. sent'[r] \in {sent[r], Evidence(Context(r))}
    BY <1>1, <2>1
  <2> QED BY <2>1, <2>3, <2>4 DEF Moves
<1>6. CASE OmniAnswers(r)
  <2>1. PICK text \in {"stop", "words"} :
          run' = [run EXCEPT ![r] = [@ EXCEPT !.at = "floor", !.raw = text, !.final = text]]
    BY <1>6 DEF OmniAnswers
  <2>2. run'[r].at = "floor" /\ run'[r].final = text /\ Same(r, {"engine", "llm"})
    BY <1>1, <2>1 DEF Same, Pipelines
  <2> QED BY <1>6, <2>2 DEF Moves, OmniAnswers
<1>7. CASE LlmAnswers(r)
  <2>1. PICK text \in {"stop", "words"} :
          run' = [run EXCEPT ![r] = [@ EXCEPT !.at = "floor", !.final = text, !.llm = TRUE]]
    BY <1>7 DEF LlmAnswers
  <2>2. run'[r].at = "floor" /\ run'[r].final = text /\ run'[r].llm /\ Same(r, {"engine"})
    BY <1>1, <2>1 DEF Same, Pipelines
  <2> QED BY <1>7, <2>2 DEF Moves, LlmAnswers
<1>8. ASSUME run[r].at \in {"context", "floor"} \cup Asking, Ends(r) PROVE Moves(r)
  <2>1. PICK at \in Left : Forgets(r, at)
    BY <1>8 DEF Ends
  <2>2. run'[r].at = at /\ ~run'[r].llm /\ sent'[r] = NoRequest
    BY <1>1, <2>1 DEF Forgets, NoRun
  <2> QED BY <1>8, <2>2 DEF Moves
<1>9. CASE Announce(r)
  <2>1. CASE Superseded(r)
    BY <1>8, <1>9, <2>1 DEF Announce, EndsAt, Ends, Left
  <2>2. CASE ~Superseded(r)
    <3>1. run' = [run EXCEPT ![r].at = "inserting"] /\ UNCHANGED <<acq, sent>> /\ run[r].at = "floor"
      BY <1>9, <2>2 DEF Announce
    <3> QED BY <1>1, <1>2, <3>1 DEF Moves, Same
  <2> QED BY <2>1, <2>2
<1>10. CASE Inserted(r)
  <2>1. /\ run' = [run EXCEPT ![r].at = "done"] /\ run[r].at = "inserting"
        /\ sent' = [sent EXCEPT ![r] = NoRequest]
    BY <1>10 DEF Inserted
  <2> QED BY <1>1, <1>2, <1>10, <2>1 DEF Moves, Same
<1>11. CASE run[r].at \in {"http", "realtime"} /\ Heard(r)
  <2>1. PICK text \in {"blank", "words"} : Recognized(r, text)
    BY <1>11 DEF Heard
  <2>2. CASE text = "blank"
    BY <1>8, <1>11, <2>1, <2>2 DEF Recognized, Ends, Left, Asking
  <2>3. CASE text # "blank"
    <3>1. /\ run' = [run EXCEPT ![r] = [@ EXCEPT !.at = "llm", !.raw = text]]
          /\ sent' = [sent EXCEPT ![r] = Evidence(Context(r))] /\ UNCHANGED acq
      BY <2>1, <2>3 DEF Recognized
    <3>2. run'[r].at = "llm" /\ Same(r, {"engine", "llm", "final"})
      BY <1>1, <3>1 DEF Same, Pipelines
    <3> QED BY <1>1, <1>11, <3>1, <3>2 DEF Moves
  <2> QED BY <2>2, <2>3
<1>12. CASE run'[r] = run[r] /\ sent'[r] = sent[r]
  BY <1>12 DEF Moves
<1> QED BY <1>3, <1>4, <1>5, <1>6, <1>7, <1>8, <1>9, <1>10, <1>11, <1>12, RunEffects

-----------------------------------------------------------------------------
(* The parts of the invariant, one by one.                                  *)
LEMMA BeginsKept ==
  ASSUME RunInd, [Next]_vars
  PROVE  RunsBegin'
<1>1. RunTypeOK /\ RunsBegin /\ SocketsAreAwaited
  BY DEF RunInd
<1>2. generation \in Nat /\ active \in {0, generation} /\ MaxRuns \in Nat
  BY <1>1, MaxRunsAssumption DEF RunTypeOK
<1>3. StartRecording \/ (generation' = generation /\ active' \in {0, active})
  BY DEF Next, OwnStep, vars, AudioArrives, CancelRecording, AxReturns, AxFails, StageBegins,
         DeadlinePasses, ContextSuperseded, ResolveFails, RecordingRefused, AskEngine,
         RequestAborts, RequestFails, SocketTimesOut, Announce, Inserted, RecognizerAnswers,
         OmniAnswers, LlmAnswers, SocketOpens, SessionUpdated, TranscriptionCompletes,
         SocketFails, SocketCloses
<1>4. CASE StartRecording
  <2> DEFINE next == generation + 1
  <2>1. /\ run' = [run EXCEPT ![next].at = "recording"] /\ generation' = next /\ active' = next
        /\ \A r \in Runs : r # next => acq'[r] = acq[r]
    BY <1>1, <1>4 DEF StartRecording, RunTypeOK
  <2>2. next \in Runs /\ run \in [Runs -> Pipelines]
    BY <1>1, <1>4, NextIsRun DEF RunTypeOK
  <2>3. run'[next].at = "recording" /\ \A r \in Runs : r # next => run'[r] = run[r]
    BY <2>1, <2>2 DEF Pipelines
  <2>4. ASSUME NEW r \in Runs
        PROVE  /\ run'[r].at = "none" <=> r > next
               /\ r > next => acq'[r] = NoAcquisition
    <3>1. CASE r = next
      BY <1>2, <2>3, <3>1
    <3>2. CASE r # next
      <4>1. r > generation <=> r > next
        BY <1>2, <3>2 DEF Runs
      <4> QED BY <1>1, <2>1, <2>3, <3>2, <4>1 DEF RunsBegin
    <3> QED BY <3>1, <3>2
  <2> QED BY <2>1, <2>3, <2>4 DEF RunsBegin
<1>5. CASE ~StartRecording
  <2>1. ASSUME NEW r \in Runs
        PROVE  /\ run'[r].at = "none" <=> run[r].at = "none"
               /\ active' = r => run'[r].at = run[r].at
    <3>1. r # 0
      BY DEF Runs
    <3>2. active' = r => run[r].at = "recording"
      BY <1>1, <1>3, <1>5, <3>1 DEF RunsBegin
    <3>3. Moves(r)
      BY <1>1, RunsMove
    <3> QED BY <1>1, <1>5, <3>1, <3>2, <3>3 DEF RunsBegin, Moves, Engines, Left, Asking
  <2>2. ASSUME NEW r \in Runs, r > generation PROVE acq'[r] = NoAcquisition
    <3>1. acq[r] = NoAcquisition /\ acq[r].stage \notin Calls /\ run[r].at = "none"
      <4>1. NoAcquisition.stage \notin Calls
        BY DEF NoAcquisition, Calls
      <4> QED BY <1>1, <2>2, <4>1 DEF RunsBegin
    <3>2. run'[r].at = "none"
      BY <2>1, <3>1
    <3> QED BY <1>1, <1>5, <3>1, <3>2, AcqEffects DEF Ended
  <2>3. active' # 0 => active' \in Runs
    BY <1>1, <1>3, <1>5, ActiveIsRun
  <2> QED BY <1>1, <1>3, <1>5, <2>1, <2>2, <2>3 DEF RunsBegin
<1> QED BY <1>4, <1>5

LEMMA CapturesKept ==
  ASSUME RunInd, [Next]_vars
  PROVE  CapturesAreRead'
<1>1. RunTypeOK /\ CapturesAreRead
  BY DEF RunInd
<1>2. ASSUME NEW r \in Runs, acq'[r].capture # NoCapture
      PROVE  acq'[r].from \in Controls /\ acq'[r].capture = CaptureFocused(acq'[r].from)
  <2>1. CASE acq'[r] = NoAcquisition
    BY <1>2, <2>1 DEF NoAcquisition
  <2>2. CASE acq'[r].capture = acq[r].capture /\ acq'[r].from = acq[r].from
    BY <1>1, <1>2, <2>2 DEF CapturesAreRead
  <2> QED BY <1>1, <1>2, <2>1, <2>2, AcqEffects
<1> QED BY <1>2 DEF CapturesAreRead, Runs

LEMMA RequestsKept ==
  ASSUME RunInd, [Next]_vars
  PROVE  RequestsTellTheContext'
<1>1. RunTypeOK /\ RequestsTellTheContext /\ SocketsAreAwaited /\ RunsBegin
  BY DEF RunInd
<1>2. include' = include
  BY <1>1, CountersTyped
<1>3. ASSUME NEW r \in Runs
      PROVE  /\ run'[r].at \in Asking \cup {"floor", "inserting"} => acq'[r].stage = "done"
             /\ sent'[r] # NoRequest =>
                  acq'[r].stage = "done" /\ sent'[r] = Evidence(Context(r))'
  <2>1. Moves(r)
    BY <1>1, RunsMove
  <2>2. acq'[r] = acq[r] => Context(r)' = Context(r)
    BY <1>2 DEF Context, Target
  <2>3. CASE acq'[r] = acq[r]
    BY <1>1, <2>1, <2>2, <2>3 DEF RequestsTellTheContext, Moves, Asking, Left, Engines
  <2>4. CASE acq'[r] # acq[r]
    <3>1. CASE run'[r].at \in Ended /\ sent'[r] = NoRequest
      BY <3>1 DEF Ended, Asking
    <3>2. CASE StartRecording /\ r = generation + 1
      <4>1. acq[r] = NoAcquisition
        <5>1. generation \in Nat
          BY <1>1, MaxRunsAssumption DEF RunTypeOK
        <5> QED BY <1>1, <3>2, <5>1 DEF RunsBegin
      <4>2. sent[r] = NoRequest /\ sent'[r] = sent[r] /\ run'[r].at = "recording"
        <5>1. run' = [run EXCEPT ![r].at = "recording"] /\ sent' = sent
          BY <3>2 DEF StartRecording
        <5>2. run'[r].at = "recording"
          BY <1>1, <5>1 DEF RunTypeOK, Pipelines
        <5> QED BY <1>1, <4>1, <5>1, <5>2 DEF RequestsTellTheContext, NoAcquisition
      <4> QED BY <4>2 DEF Asking
    <3>3. CASE acq[r].stage \in Calls /\ UNCHANGED <<run, sent>>
      BY <1>1, <3>3 DEF RequestsTellTheContext, Calls
    <3> QED BY <1>1, <2>4, <3>1, <3>2, <3>3, AcqEffects
  <2> QED BY <2>3, <2>4
<1> QED BY <1>3 DEF RequestsTellTheContext, Runs

LEMMA StampsKept ==
  ASSUME RunInd, [Next]_vars
  PROVE  AnswersAreStamped'
<1>1. RunTypeOK /\ AnswersAreStamped /\ SocketsAreAwaited /\ RunsBegin
  BY DEF RunInd
<1>2. ASSUME NEW r \in Runs
      PROVE  /\ run'[r].at \in Early \cup Asking => ~run'[r].llm
             /\ run'[r].at = "omni" => run'[r].engine = "omni"
             /\ run'[r].at \in {"http", "realtime", "llm"} => run'[r].engine # "omni"
             /\ run'[r].at \in Ready =>
                  /\ run'[r].llm = (run'[r].engine # "omni")
                  /\ run'[r].final \in {"stop", "words"}
  <2>1. run[r].llm \in BOOLEAN /\ run'[r].llm \in BOOLEAN
    BY <1>1, RunTyped DEF RunTypeOK, Pipelines
  <2>2. /\ run[r].at \in Early \cup Asking => ~run[r].llm
        /\ run[r].at = "omni" => run[r].engine = "omni"
        /\ run[r].at \in {"http", "realtime", "llm"} => run[r].engine # "omni"
        /\ run[r].at \in Ready =>
             run[r].llm = (run[r].engine # "omni") /\ run[r].final \in {"stop", "words"}
    BY <1>1 DEF AnswersAreStamped
  <2>3. CASE StartRecording /\ r = generation + 1
    <3>1. generation \in Nat
      BY <1>1, MaxRunsAssumption DEF RunTypeOK
    <3>2. run[r].at = "none"
      BY <1>1, <2>3, <3>1 DEF RunsBegin
    <3>3. run' = [run EXCEPT ![r].at = "recording"] /\ run \in [Runs -> Pipelines]
      BY <1>1, <2>3 DEF StartRecording, RunTypeOK
    <3>4. run'[r].at = "recording" /\ run'[r].llm = run[r].llm
      BY <3>3 DEF Pipelines
    <3> QED BY <2>1, <2>2, <3>2, <3>4 DEF Early, Asking, Ready
  <2>4. CASE active # 0 /\ r = active
    <3>1. run[r].at = "recording"
      BY <1>1, <2>4 DEF RunsBegin
    <3>2. Moves(r)
      BY <1>1, RunsMove
    <3> QED BY <2>1, <2>2, <2>3, <3>1, <3>2 DEF Moves, Same, Early, Asking, Ready
  <2>5. CASE ~(StartRecording /\ r = generation + 1) /\ ~(active # 0 /\ r = active)
    <3>1. Moves(r)
      BY <1>1, RunsMove
    <3> QED BY <2>1, <2>2, <2>5, <3>1 DEF Moves, Same, Early, Asking, Ready, Engines, Left
  <2> QED BY <2>3, <2>4, <2>5
<1> QED BY <1>2 DEF AnswersAreStamped, Runs

LEMMA RecordsKept ==
  ASSUME RunInd, [Next]_vars
  PROVE  RecordsAreKept'
<1>1. RunTypeOK /\ RecordsAreKept /\ SocketsAreAwaited /\ RunsBegin
  BY DEF RunInd
<1>2. keeps' = keeps
  BY <1>1, CountersTyped
<1>3. UNCHANGED history \/ \E q \in Runs : Inserted(q)
  BY DEF Next, OwnStep, vars, StartRecording, AudioArrives, CancelRecording, AxReturns, AxFails,
         StageBegins, DeadlinePasses, ContextSuperseded, ResolveFails, RecordingRefused,
         AskEngine, RequestAborts, RequestFails, SocketTimesOut, Announce, RecognizerAnswers,
         OmniAnswers, LlmAnswers, SocketOpens, SessionUpdated, TranscriptionCompletes,
         SocketFails, SocketCloses
<1> DEFINE Of(h, r) == {rec \in h : rec.run = r}
           Kept(h, r) == IF run[r].at = "done" /\ keeps
                         THEN \E outcome \in {"inserted", "failed"} : Of(h, r) = {RecordFor(r, outcome)}
                         ELSE Of(h, r) = {}
<1>4. \A r \in Runs : Kept(history, r)
  BY <1>1 DEF RecordsAreKept
<1>5. ASSUME NEW r \in Runs PROVE Kept(history, r)'
  <2>1. CASE Inserted(r)
    <3>1. /\ run[r].at = "inserting" /\ run' = [run EXCEPT ![r].at = "done"]
          /\ \E outcome \in {"inserted", "failed"} :
               history' = IF keeps THEN history \cup {RecordFor(r, outcome)} ELSE history
      BY <2>1 DEF Inserted
    <3>2. run'[r].at = "done" /\ \A f \in {"raw", "final", "llm"} : run'[r][f] = run[r][f]
      BY <1>1, <3>1 DEF RunTypeOK, Pipelines
    <3>3. \A outcome : RecordFor(r, outcome)' = RecordFor(r, outcome)
      BY <3>2 DEF RecordFor
    <3>4. \A outcome : RecordFor(r, outcome).run = r
      BY DEF RecordFor
    <3>5. Of(history, r) = {}
      BY <1>4, <3>1
    <3> QED BY <1>2, <3>1, <3>2, <3>3, <3>4, <3>5
  <2>2. CASE ~Inserted(r)
    <3>1. Of(history', r) = Of(history, r)
      <4>1. CASE UNCHANGED history
        BY <4>1
      <4>2. ASSUME NEW q \in Runs, Inserted(q) PROVE Of(history', r) = Of(history, r)
        <5>1. q # r
          BY <2>2, <4>2
        <5>2. \A outcome : RecordFor(q, outcome).run = q
          BY DEF RecordFor
        <5> QED BY <4>2, <5>1, <5>2 DEF Inserted
      <4> QED BY <1>3, <4>1, <4>2
    <3>2. (run'[r].at = "done" <=> run[r].at = "done")
          /\ (run[r].at = "done" => run'[r] = run[r])
      <4>1. CASE active # 0 /\ r = active
        <5>1. run[r].at = "recording"
          BY <1>1, <4>1 DEF RunsBegin
        <5> QED BY <1>1, <2>2, <5>1, RunsMove DEF Moves, Asking, Engines, Left
      <4>2. CASE StartRecording /\ r = generation + 1
        <5>1. generation \in Nat
          BY <1>1, MaxRunsAssumption DEF RunTypeOK
        <5>2. run[r].at = "none"
          BY <1>1, <4>2, <5>1 DEF RunsBegin
        <5> QED BY <1>1, <2>2, <5>2, RunsMove DEF Moves, Asking, Engines, Left
      <4>3. CASE ~(active # 0 /\ r = active) /\ ~(StartRecording /\ r = generation + 1)
        BY <1>1, <2>2, <4>3, RunsMove DEF Moves, Asking, Engines, Left
      <4> QED BY <4>1, <4>2, <4>3
    <3>3. run'[r] = run[r] => \A outcome : RecordFor(r, outcome)' = RecordFor(r, outcome)
      BY DEF RecordFor
    <3> QED BY <1>2, <1>4, <3>1, <3>2, <3>3
  <2> QED BY <2>1, <2>2
<1> QED BY <1>5 DEF RecordsAreKept, Runs

LEMMA CallsKept ==
  ASSUME RunInd, [Next]_vars
  PROVE  CallsAreAwaited'
<1>1. RunTypeOK /\ CallsAreAwaited /\ RunsBegin
  BY DEF RunInd
<1>2. /\ acq \in [Runs -> Acquisitions]
      /\ axInFlight # NoCall => axInFlight[1] \in Runs /\ axInFlight[2] \in Calls
  BY <1>1 DEF RunTypeOK
<1>3. \A x \in Acquisitions : ~Advanced(x).waiting
  BY DEF Advanced, Acquisitions
<1>4. ~NoAcquisition.waiting
  BY DEF NoAcquisition
<1>5. ASSUME NEW r \in Runs, acq'[r].waiting
      PROVE  axInFlight' = <<r, acq'[r].stage>>
  <2>1. CASE UNCHANGED <<acq, axInFlight>>
    BY <1>1, <1>5, <2>1 DEF CallsAreAwaited
  <2>2. CASE StartRecording
    <3>1. PICK screen \in Screens :
            acq' = [acq EXCEPT ![generation + 1] =
                      [NoAcquisition EXCEPT !.stage = "probe", !.app = screen.app]]
      BY <2>2 DEF StartRecording
    <3>2. ~[NoAcquisition EXCEPT !.stage = "probe", !.app = screen.app].waiting
      BY DEF NoAcquisition
    <3>3. acq'[r] = acq[r]
      BY <1>2, <1>5, <3>1, <3>2
    <3> QED BY <1>1, <1>5, <2>2, <3>3 DEF CallsAreAwaited, StartRecording
  <2>3. CASE AxReturns \/ AxFails
    <3> DEFINE q == axInFlight[1]
    <3>1. q \in Runs /\ axInFlight # NoCall /\ axInFlight' = NoCall /\ axInFlight[2] \in Calls
      BY <1>2, <2>3 DEF AxReturns, AxFails
    <3>2. acq[q].waiting /\ acq[q].stage = axInFlight[2] => ~acq'[q].waiting
      <4>1. ASSUME acq[q].waiting, acq[q].stage = axInFlight[2]
            PROVE  ~acq'[q].waiting
        <5>1. acq[q] \in Acquisitions
          BY <1>2, <3>1
        <5>2. CASE AxFails
          BY <1>2, <1>3, <3>1, <4>1, <5>1, <5>2 DEF AxFails, Fallback
        <5>3. CASE AxReturns
          <6>1. PICK screen \in Screens :
                  acq' = [acq EXCEPT ![q] = Advanced(Answered(@, axInFlight[2], screen))]
            BY <4>1, <5>3 DEF AxReturns
          <6>2. Answered(acq[q], axInFlight[2], screen) \in Acquisitions
            BY <3>1, <4>1, <5>1, AcquisitionMoves
          <6> QED BY <1>2, <1>3, <3>1, <6>1, <6>2
        <5> QED BY <2>3, <5>2, <5>3
      <4> QED BY <4>1
    <3>3. r # q => acq'[r] = acq[r]
      BY <1>2, <2>3, <3>1 DEF AxReturns, AxFails, Fallback
    <3>4. ~(acq[q].waiting /\ acq[q].stage = axInFlight[2]) => UNCHANGED acq
      BY <2>3 DEF AxReturns, AxFails
    <3>5. ~acq[r].waiting \/ (r = q /\ acq[q].stage = axInFlight[2])
      BY <1>1, <3>1 DEF CallsAreAwaited
    <3> QED BY <1>5, <3>2, <3>3, <3>4, <3>5
  <2>4. ASSUME NEW q \in Runs, StageBegins(q)
        PROVE  axInFlight' = <<r, acq'[r].stage>>
    <3>1. CASE acq' = Fallback(q) /\ UNCHANGED axInFlight
      BY <1>1, <1>2, <1>3, <1>5, <3>1 DEF CallsAreAwaited, Fallback
    <3>2. CASE /\ axInFlight = NoCall /\ axInFlight' = <<q, acq[q].stage>>
               /\ acq' = [acq EXCEPT ![q].waiting = TRUE]
      <4>1. q # r => ~acq'[r].waiting
        <5>1. ~acq[r].waiting
          BY <1>1, <1>2, <3>2 DEF CallsAreAwaited, NoCall, Runs
        <5> QED BY <1>2, <3>2, <5>1
      <4>2. acq'[q].stage = acq[q].stage
        BY <1>2, <3>2 DEF Acquisitions
      <4> QED BY <1>5, <3>2, <4>1, <4>2
    <3> QED BY <2>4, <3>1, <3>2 DEF StageBegins
  <2>5. ASSUME NEW q \in Runs, DeadlinePasses(q)
        PROVE  axInFlight' = <<r, acq'[r].stage>>
    <3> DEFINE y == [acq[q] EXCEPT !.late = TRUE]
    <3>1. y \in Acquisitions /\ y.waiting = acq[q].waiting /\ y.stage = acq[q].stage
      BY <1>2 DEF Acquisitions
    <3>2. acq' = [acq EXCEPT ![q] = IF acq[q].waiting THEN Advanced(y) ELSE y]
          /\ UNCHANGED axInFlight
      BY <2>5 DEF DeadlinePasses
    <3> HIDE DEF y
    <3> QED BY <1>1, <1>2, <1>3, <1>5, <3>1, <3>2 DEF CallsAreAwaited
  <2>6. ASSUME NEW q \in Runs, UNCHANGED axInFlight, Ends(q) \/ Inserted(q)
        PROVE  axInFlight' = <<r, acq'[r].stage>>
    <3>1. acq' = [acq EXCEPT ![q] = NoAcquisition]
      BY <2>6 DEF Ends, Forgets, Inserted
    <3> QED BY <1>1, <1>2, <1>4, <1>5, <2>6, <3>1 DEF CallsAreAwaited
  <2> QED BY <2>1, <2>2, <2>3, <2>4, <2>5, <2>6, AcqSteps
<1> QED BY <1>5 DEF CallsAreAwaited, Runs


(* Without its promise being settled a socket can only be closed.           *)
LEMMA SocketsKept ==
  ASSUME RunInd, [Next]_vars
  PROVE  SocketsAreAwaited'
<1>1. RunTypeOK /\ SocketsAreAwaited /\ RunsBegin
  BY DEF RunInd
<1>2. socket \in [Runs -> Sockets] /\ socket' \in [Runs -> Sockets] /\ run \in [Runs -> Pipelines]
      /\ generation \in Nat
  BY <1>1, SocketTyped, MaxRunsAssumption DEF RunTypeOK
<1> DEFINE Awaited(at, s) ==
             /\ at \in Early => s = NoSocket
             /\ at = "realtime" => ~s.settled
             /\ s.ws # "none" /\ ~s.settled => at = "realtime"
           Like(s, t) ==
             \/ s = t
             \/ t.ws \in {"connecting", "open"} /\ s = [t EXCEPT !.ws = "closing"]
           Stays(r) == Like(socket'[r], socket[r])
                       /\ (run[r].at = "realtime" => run'[r].at = "realtime")
           Settled(r) == socket'[r].settled /\ run'[r].at \notin Early \cup {"realtime"}
           Asked(r) == run'[r].at = "realtime" /\ ~socket'[r].settled
           Talks(r) == /\ run'[r] = run[r] /\ socket'[r].settled = socket[r].settled
                       /\ socket[r].ws # "none"
<1>3. \A r \in Runs : Awaited(run[r].at, socket[r])
  BY <1>1 DEF SocketsAreAwaited
<1>4. ASSUME NEW q PROVE \A r \in Runs : Like(Disposed(q)[r], socket[r])
  BY <1>1, DisposedCloses
<1>5. ASSUME NEW s \in Sockets, NEW t \in Sockets, Like(s, t)
      PROVE  /\ s.settled = t.settled /\ (s.ws = "none" <=> t.ws = "none")
             /\ t = NoSocket => s = NoSocket
  BY <1>5 DEF Sockets, NoSocket
<1>6. NoSocket.ws = "none" /\ ~NoSocket.settled
  BY DEF NoSocket
<1>7. ASSUME NEW r \in Runs, Stays(r) PROVE Awaited(run'[r].at, socket'[r])
  <2>1. Moves(r) /\ Awaited(run[r].at, socket[r])
    BY <1>1, <1>3, RunsMove
  <2>2. StartRecording /\ r = generation + 1 => run[r].at = "none"
    BY <1>1, <1>2 DEF RunsBegin
  <2>3. active # 0 /\ r = active => run[r].at = "recording"
    BY <1>1 DEF RunsBegin
  <2>4. /\ run'[r].at \in Early => run[r].at \in Early
        /\ run'[r].at = "realtime" => run[r].at \in {"realtime", "context"}
    BY <2>1, <2>2, <2>3 DEF Moves, Early, Engines, Left, Asking
  <2>5. /\ socket'[r].settled = socket[r].settled
        /\ socket'[r].ws = "none" <=> socket[r].ws = "none"
        /\ socket[r] = NoSocket => socket'[r] = NoSocket
    BY <1>2, <1>5, <1>7
  <2> HIDE DEF Like
  <2> QED BY <1>6, <1>7, <2>1, <2>4, <2>5 DEF Early
<1>8. ASSUME NEW r \in Runs, Settled(r) \/ Asked(r) \/ Talks(r)
      PROVE  Awaited(run'[r].at, socket'[r])
  BY <1>3, <1>6, <1>8 DEF Early
<1> HIDE DEF Like, Awaited
<1>9. \A r \in Runs : Like(socket[r], socket[r])
  BY DEF Like
<1>10. ASSUME NEW r \in Runs,
              \/ UNCHANGED vars \/ StartRecording \/ AudioArrives \/ CancelRecording
              \/ AxReturns \/ AxFails
       PROVE  Stays(r)
  <2>1. UNCHANGED socket \/ \E q : socket' = Disposed(q)
    BY <1>10 DEF vars, StartRecording, AudioArrives, CancelRecording, AxReturns, AxFails
  <2>2. run'[r] = run[r] \/ run[r].at \in {"none", "recording"}
    <3>1. CASE StartRecording
      BY <1>1, <1>2, <3>1 DEF StartRecording, RunsBegin
    <3>2. CASE AudioArrives \/ CancelRecording
      BY <1>1, <1>2, <3>2 DEF AudioArrives, CancelRecording, RunsBegin
    <3> QED BY <1>10, <3>1, <3>2 DEF vars, AxReturns, AxFails
  <2> QED BY <1>4, <1>9, <2>1, <2>2
<1>11. ASSUME NEW r \in Runs, NEW q \in Runs,
              \/ StageBegins(q) \/ DeadlinePasses(q) \/ ContextSuperseded(q) \/ ResolveFails(q)
              \/ RecordingRefused(q) \/ RequestFails(q) \/ Announce(q) \/ Inserted(q)
              \/ RecognizerAnswers(q) \/ OmniAnswers(q) \/ LlmAnswers(q)
       PROVE  Stays(r)
  <2>1. UNCHANGED socket \/ \E p : socket' = Disposed(p)
    BY <1>11 DEF StageBegins, DeadlinePasses, ContextSuperseded, ResolveFails, RecordingRefused,
         RequestFails, Announce, Inserted, RecognizerAnswers, OmniAnswers, LlmAnswers, EndsAt
  <2>2. UNCHANGED run \/ run[q].at # "realtime"
    BY <1>11 DEF StageBegins, DeadlinePasses, ContextSuperseded, ResolveFails, RecordingRefused,
         RequestFails, Announce, Inserted, RecognizerAnswers, OmniAnswers, LlmAnswers
  <2>3. r # q => run'[r] = run[r]
    BY <1>2, <1>11 DEF StageBegins, DeadlinePasses, ContextSuperseded, ResolveFails,
         RecordingRefused, RequestFails, Announce, Inserted, RecognizerAnswers, OmniAnswers,
         LlmAnswers, EndsAt, Forgets, Recognized
  <2> QED BY <1>4, <1>9, <2>1, <2>2, <2>3
<1>12. ASSUME NEW r \in Runs, NEW q \in Runs, NEW engine \in Engines, AskEngine(q, engine)
       PROVE  Stays(r) \/ Asked(r)
  <2> DEFINE closed == Disposed(disposeSlot)
  <2>1. /\ run[q].at = "context"
        /\ run' = [run EXCEPT ![q] = [@ EXCEPT !.at = engine, !.engine = engine]]
        /\ socket' = IF engine = "realtime" THEN [closed EXCEPT ![q].ws = "connecting"] ELSE closed
    BY <1>12 DEF AskEngine
  <2>2. closed \in [Runs -> Sockets] /\ Like(closed[r], socket[r])
    BY <1>1, <1>4, DisposedCloses
  <2> HIDE DEF closed
  <2>3. CASE engine # "realtime" \/ q # r
    BY <1>2, <2>1, <2>2, <2>3
  <2>4. CASE engine = "realtime" /\ q = r
    <3>1. socket[q] = NoSocket
      BY <1>3, <2>1 DEF Awaited, Early
    <3>2. closed[q] = NoSocket
      BY <1>2, <1>5, <2>2, <2>4, <3>1 DEF Like
    <3>3. ~socket'[q].settled
      BY <2>1, <2>2, <2>4, <3>2 DEF NoSocket
    <3>4. run'[q].at = "realtime"
      BY <1>2, <2>1, <2>4 DEF Pipelines
    <3> QED BY <2>4, <3>3, <3>4
  <2> QED BY <2>3, <2>4
<1>13. ASSUME NEW r \in Runs, NEW q \in Runs, SocketOpens(q) \/ SessionUpdated(q)
       PROVE  Stays(r) \/ Talks(r)
  <2>1. CASE q # r
    BY <1>2, <1>9, <1>13, <2>1 DEF SocketOpens, SessionUpdated
  <2>2. CASE q = r
    BY <1>2, <1>13, <2>2 DEF SocketOpens, SessionUpdated, Sockets
  <2> QED BY <2>1, <2>2
<1>14. ASSUME NEW r \in Runs, NEW q \in Runs,
              TranscriptionCompletes(q) \/ SocketFails(q) \/ SocketTimesOut(q)
       PROVE  Stays(r) \/ Settled(r)
  <2>1. Settle(q) /\ (Heard(q) \/ Ends(q))
    BY <1>14 DEF TranscriptionCompletes, SocketFails, SocketTimesOut, SettleReject, Heard, Ends, Left
  <2>2. CASE q # r
    BY <1>2, <1>9, <2>1, <2>2 DEF Settle, Heard, Ends, Recognized, Forgets
  <2>3. CASE q = r
    <3>1. socket'[r].settled
      BY <1>2, <2>1, <2>3 DEF Settle, NoSocket
    <3>2. run'[r].at \in {"llm"} \cup Left
      <4>1. ASSUME NEW at \in Left, Forgets(q, at) PROVE run'[q].at \in Left
        BY <1>2, <4>1 DEF Forgets, NoRun
      <4>2. ASSUME NEW text, run' = [run EXCEPT ![q] = [@ EXCEPT !.at = "llm", !.raw = text]]
            PROVE  run'[q].at = "llm"
        BY <1>2, <4>2 DEF Pipelines
      <4>3. CASE Ends(q)
        BY <2>3, <4>1, <4>3 DEF Ends
      <4>4. CASE Heard(q)
        BY <2>3, <4>1, <4>2, <4>4 DEF Heard, Recognized, Left
      <4> QED BY <2>1, <4>3, <4>4
    <3> QED BY <3>1, <3>2 DEF Early, Left
  <2> QED BY <2>2, <2>3
<1>15. ASSUME NEW r \in Runs, NEW q \in Runs, SocketCloses(q)
       PROVE  Stays(r) \/ Settled(r)
  <2>1. CASE q # r
    BY <1>2, <1>9, <1>15, <2>1 DEF SocketCloses, Forgets
  <2>2. CASE q = r
    <3>1. socket'[r].settled
      BY <1>2, <1>15, <2>2 DEF SocketCloses, NoSocket
    <3>2. run'[r].at \notin Early \cup {"realtime"}
      <4>1. CASE socket[r].settled
        BY <1>3, <1>6, <1>15, <2>2, <4>1 DEF SocketCloses, Awaited
      <4>2. CASE ~socket[r].settled
        BY <1>2, <1>15, <2>2, <4>2 DEF SocketCloses, Forgets, NoRun, Early
      <4> QED BY <4>1, <4>2
    <3> QED BY <3>1, <3>2
  <2> QED BY <2>1, <2>2
<1>16. ASSUME NEW r \in Runs PROVE Awaited(run'[r].at, socket'[r])
  <2>1. Stays(r) \/ Settled(r) \/ Asked(r) \/ Talks(r)
    BY <1>10, <1>11, <1>12, <1>13, <1>14, <1>15 DEF Next, OwnStep, RequestAborts
  <2> QED BY <1>7, <1>8, <2>1
<1> QED BY <1>16 DEF SocketsAreAwaited, Awaited, Runs

LEMMA RunIndInit ==
  ASSUME Init
  PROVE  RunInd
<1> USE DEF Init
<1>1. RunTypeOK
  <2>1. NoRun \in Pipelines
    BY DEF NoRun, Pipelines, Early, Texts
  <2>2. /\ acq \in [Runs -> Acquisitions] /\ run \in [Runs -> Pipelines]
        /\ socket \in [Runs -> Sockets] /\ sent = [r \in Runs |-> sent[r]]
    BY <2>1, AcquisitionMoves, SocketMoves
  <2>3. generation \in 0 .. MaxRuns /\ active \in {0, generation} /\ disposeSlot \in 0 .. generation
    BY MaxRunsAssumption
  <2> QED BY <2>2, <2>3 DEF RunTypeOK
<1>2. RunsBegin /\ SocketsAreAwaited /\ AnswersAreStamped
  BY DEF RunsBegin, SocketsAreAwaited, AnswersAreStamped, NoRun, NoSocket, Runs, Early, Asking, Ready
<1>3. CallsAreAwaited /\ CapturesAreRead
  BY DEF CallsAreAwaited, CapturesAreRead, NoAcquisition
<1>4. RequestsTellTheContext
  BY DEF RequestsTellTheContext, NoRun, Asking
<1>5. RecordsAreKept
  BY DEF RecordsAreKept, NoRun
<1> QED BY <1>1, <1>2, <1>3, <1>4, <1>5 DEF RunInd

LEMMA RunIndNext ==
  ASSUME RunInd, [Next]_vars
  PROVE  RunInd'
<1>1. RunTypeOK'
  BY TypesKept DEF RunInd
<1> QED BY <1>1, BeginsKept, CallsKept, CapturesKept, RequestsKept, SocketsKept, StampsKept,
           RecordsKept DEF RunInd

(* The inductive invariant: what every reachable state of the runs has.     *)
THEOREM RunInductive == Spec => []RunInd
<1>1. Init => RunInd
  BY RunIndInit
<1>2. RunInd /\ [Next]_vars => RunInd'
  BY RunIndNext
<1> QED BY <1>1, <1>2, PTL DEF Spec

-----------------------------------------------------------------------------
(* What the invariant says of a run.                                        *)
LEMMA RunIndShape ==
  ASSUME RunInd
  PROVE  SessionShape
BY DEF RunInd, RunTypeOK, RunsBegin, CallsAreAwaited, SessionShape

LEMMA RunIndWindow ==
  ASSUME RunInd
  PROVE  CaptureIsTheWindow
<1> SUFFICES ASSUME NEW r \in Runs, acq[r].capture # NoCapture
             PROVE  TellsTheWindow(acq[r].from, acq[r].capture, HistoryContext(Context(r)))
  BY DEF CaptureIsTheWindow, TellsTheWindow
<1>1. acq[r].from \in Controls /\ acq[r].capture = CaptureFocused(acq[r].from)
  BY DEF RunInd, CapturesAreRead
<1>2. Target(r).capture = acq[r].capture
  BY DEF Target
<1> QED BY <1>1, <1>2, CaptureIsWindow DEF Context

LEMMA RunIndHistory ==
  ASSUME RunInd
  PROVE  HistoryTellsTheRun
<1>1. RecordsAreKept /\ AnswersAreStamped /\ run \in [Runs -> Pipelines]
  BY DEF RunInd, RunTypeOK
<1> SUFFICES ASSUME NEW r \in Runs
             PROVE  LET records == {rec \in history : rec.run = r}
                    IN /\ Cardinality(records) = IF run[r].at = "done" /\ keeps THEN 1 ELSE 0
                       /\ \A rec \in records :
                            /\ rec.llm = (run[r].engine # "omni")
                            /\ Or(rec.processed, rec.raw) = FinalText(run[r].final)
                            /\ (rec.status = "completed") = (rec.outcome = "inserted")
  BY DEF HistoryTellsTheRun
<1> DEFINE records == {rec \in history : rec.run = r}
<1>2. CASE run[r].at = "done" /\ keeps
  <2>1. PICK outcome \in {"inserted", "failed"} : records = {RecordFor(r, outcome)}
    BY <1>1, <1>2 DEF RecordsAreKept
  <2> DEFINE rec == RecordFor(r, outcome)
             final == FinalText(run[r].final)
  <2>2. Cardinality(records) = 1
    BY <2>1, FS_Singleton
  <2>3. run[r].llm = (run[r].engine # "omni") /\ run[r].final \in {"stop", "words"}
    BY <1>1, <1>2 DEF AnswersAreStamped, Ready
  <2>4. /\ rec.llm = run[r].llm /\ rec.raw = run[r].raw
        /\ rec.processed = IF final = run[r].raw THEN Null ELSE final
        /\ rec.outcome = outcome /\ rec.status = StatusFor(outcome)
    BY DEF RecordFor
  <2>5. final # Null
    BY <2>3 DEF FinalText, Null
  <2>6. Or(rec.processed, rec.raw) = final
    BY <2>4, <2>5 DEF Or
  <2>7. (rec.status = "completed") = (rec.outcome = "inserted")
    BY <2>4 DEF StatusFor
  <2> HIDE DEF rec
  <2> QED BY <1>2, <2>1, <2>2, <2>3, <2>4, <2>6, <2>7 DEF rec
<1>3. CASE ~(run[r].at = "done" /\ keeps)
  BY <1>1, <1>3, FS_EmptySet DEF RecordsAreKept
<1> QED BY <1>2, <1>3

(* What SessionRunInv says of recordings is evaluated: it is about the      *)
(* constants alone.  The rest holds of every reachable state: a stage that  *)
(* waits is woken, a capture is the window around the selection of a field  *)
(* that is not secure, and history tells each insertion once and truly.     *)
THEOREM SessionSafe == SegmentsAreFound /\ SpeechIsHeard /\ Spec => []SessionRunInv
<1>1. RunInd => SessionShape /\ CaptureIsTheWindow /\ HistoryTellsTheRun
  BY RunIndShape, RunIndWindow, RunIndHistory
<1>2. Spec => [](SessionShape /\ CaptureIsTheWindow /\ HistoryTellsTheRun)
  BY <1>1, RunInductive, PTL
<1>3. (SegmentsAreFound /\ SpeechIsHeard) => [](SegmentsAreFound /\ SpeechIsHeard)
  OBVIOUS
<1> QED BY <1>2, <1>3, PTL DEF SessionRunInv

(* A capture without text has nothing around the selection either.          *)
LEMMA CaptureOfNothing ==
  ASSUME NEW field \in Controls, CaptureFocused(field) # NoCapture,
         CaptureFocused(field).text = <<>>
  PROVE  CaptureFocused(field).before = <<>> /\ CaptureFocused(field).after = <<>>
<1> DEFINE text == field.value
           got == CaptureFocused(field)
<1>1. PICK first, last, from, to : Window(text, first, last, from, to, got, field.role)
  BY CaptureWindow
<1>2. text \in Seq(ToSet(text))
  BY ScreensAssumption DEF Controls
<1> HIDE DEF text, got
<1>3. /\ Len(got.text) = to - from
      /\ got.before \in Seq(ToSet(text)) /\ Len(got.before) = first - from
      /\ got.after \in Seq(ToSet(text)) /\ Len(got.after) = to - last
  BY <1>1, <1>2, WindowParts
<1>4. Len(got.text) = 0
  BY DEF got
<1>5. /\ {first, last, from, to} \subseteq Int
      /\ from <= first /\ first <= last /\ last <= to
  BY <1>1 DEF Window
<1>6. Len(got.before) = 0 /\ Len(got.after) = 0
  BY <1>3, <1>4, <1>5
<1>7. got.before = <<>> /\ got.after = <<>>
  BY <1>3, <1>6, EmptySeq
<1> QED BY <1>7 DEF got

LEMMA RunIndPrivate ==
  ASSUME RunInd
  PROVE  RequestIsPrivate
<1> SUFFICES ASSUME NEW r \in Runs, sent[r] # NoRequest, ~include
             PROVE  LET nameless == [Target(r) EXCEPT !.app.name = Null, !.title = Null]
                    IN sent[r] = Evidence(BuildAppContext(nameless, FALSE))
  BY DEF RequestIsPrivate
<1> DEFINE nameless == [Target(r) EXCEPT !.app.name = Null, !.title = Null]
<1>1. acq[r] \in Acquisitions /\ include = FALSE
  BY DEF RunInd, RunTypeOK
<1>2. sent[r] = Evidence(BuildAppContext(Target(r), FALSE))
  BY <1>1 DEF RunInd, RequestsTellTheContext, Context
<1>3. DOMAIN acq[r].app = {"bundle", "name"}
  <2>1. acq[r].app \in Apps
    BY <1>1 DEF Acquisitions
  <2> QED BY <2>1, ScreensAssumption DEF Apps, NoApp
<1>4. nameless.capture = Target(r).capture /\ nameless.app.bundle = Target(r).app.bundle
  BY <1>3 DEF Target
<1>5. LET text == AxText(Target(r).capture)
      IN text.text = <<>> => text.before = <<>> /\ text.after = <<>>
  <2>1. CASE acq[r].capture = NoCapture
    BY <2>1 DEF Target, AxText, Captured
  <2>2. CASE acq[r].capture # NoCapture
    <3>1. acq[r].from \in Controls /\ acq[r].capture = CaptureFocused(acq[r].from)
      BY <2>2 DEF RunInd, CapturesAreRead
    <3>2. AxText(Target(r).capture) = acq[r].capture
      BY <2>2 DEF Target, AxText
    <3> QED BY <2>2, <3>1, <3>2, CaptureOfNothing
  <2> QED BY <2>1, <2>2
<1> HIDE DEF nameless
<1> QED BY <1>2, <1>4, <1>5, NamesLeaveNoTrace DEF nameless

(* With the names of windows and applications kept out of requests, no      *)
(* request tells of one.                                                    *)
THEOREM RequestPrivate == Spec => []RequestIsPrivate
<1>1. RunInd => RequestIsPrivate
  BY RunIndPrivate
<1> QED BY <1>1, RunInductive, PTL

(* An acquired context does not change while its session lasts.             *)
THEOREM ContextFixed == Spec => ContextIsFixed
<1>1. RunInd /\ [Next]_vars =>
        [\A r \in Runs : acq[r].stage = "done" => acq'[r] = acq[r] \/ run'[r].at \in Ended]_vars
  <2> SUFFICES ASSUME RunInd, [Next]_vars, NEW r \in Runs, acq[r].stage = "done"
               PROVE  acq'[r] = acq[r] \/ run'[r].at \in Ended
    OBVIOUS
  <2>1. RunTypeOK /\ RunsBegin
    BY DEF RunInd
  <2>2. ~(r = generation + 1)
    <3>1. generation \in Nat
      BY <2>1, MaxRunsAssumption DEF RunTypeOK
    <3> QED BY <2>1, <3>1 DEF RunsBegin, NoAcquisition
  <2> QED BY <2>1, <2>2, AcqEffects DEF Calls
<1> QED BY <1>1, RunInductive, PTL DEF Spec, ContextIsFixed
=============================================================================
