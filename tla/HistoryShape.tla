---------------------------- MODULE HistoryShape ----------------------------
(***************************************************************************)
(* The pure shaping of dictation records into what the history page shows:  *)
(* the search, the filter chips, and the rows grouped by day, newest first. *)
(*                                                                          *)
(* Time is a natural number, DayLength instants a day and YearLength days a *)
(* year, so that a calendar date is a day of some year; instant 0 is the    *)
(* created_at that cannot be read.                                          *)
(***************************************************************************)
EXTENDS Integers, Sequences, SequencesExt, FiniteSets

CONSTANTS
  Records,        \* the ids of history records
  CreatedAt,      \* the instant of each record
  ModeOf,         \* the mode of each record, or NoMode
  NoMode,         \* mode_id is null
  CanonicalModes, \* the modes that have a chip of their own
  Completed,      \* the records with status completed
  Says,           \* the words of a record's texts, target app and title
  DayLength, YearLength

ASSUME ShapeAssumption ==
  /\ CreatedAt \in [Records -> Nat]
  /\ \A r, s \in Records : CreatedAt[r] = CreatedAt[s] => r = s
  /\ Completed \subseteq Records
  /\ NoMode \notin CanonicalModes
  /\ DayLength \in Nat \ {0} /\ YearLength \in Nat \ {0}

All == "all"
Blank == "blank"    \* a query of white space

-----------------------------------------------------------------------------
(* filterHistoryRecords: a blank query lets everything through.            *)
Matching(records, query) == {r \in records : query = Blank \/ query \in Says[r]}

(* historyMatchesFilter, for the filter ids of the chips.                  *)
InFilter(r, filter) == filter = All \/ ModeOf[r] = filter

(* historyFilterChips: "all", then one chip for each canonical mode.        *)
Chips == {All} \cup CanonicalModes
ChipCount(records, chip) ==
  IF chip = All THEN Cardinality(records)
                ELSE Cardinality({r \in records : ModeOf[r] = chip})

-----------------------------------------------------------------------------
DayOf(instant) == instant \div DayLength
DateOf(instant) == DayOf(instant) % YearLength

(* dayBucketLabel and the group key made of it: neither holds the year.     *)
DayLabel(r, now) ==
  LET diff == DayOf(now) - DayOf(CreatedAt[r])
  IN IF CreatedAt[r] = 0 THEN <<"unknown", 0>>
     ELSE <<CASE diff <= 0 -> "today" [] diff = 1 -> "yesterday" [] OTHER -> "monthDay",
            DateOf(CreatedAt[r])>>

(* created_at DESC.                                                        *)
NewestFirst(records) ==
  SetToSortSeq(records, LAMBDA r, s : CreatedAt[r] > CreatedAt[s])

(* historyDesignGroups: the labels in the order of their first row, and the *)
(* rows under each.                                                         *)
Ordered(records, filter, query) ==
  NewestFirst({r \in Matching(records, query) : InFilter(r, filter)})

GroupLabels(records, now, filter, query) ==
  LET labelled == [i \in DOMAIN Ordered(records, filter, query) |->
                     DayLabel(Ordered(records, filter, query)[i], now)]
  IN FoldLeft(LAMBDA labels, label :
                IF Contains(labels, label) THEN labels ELSE Append(labels, label),
              <<>>, labelled)

GroupRows(label, records, now, filter, query) ==
  SelectSeq(Ordered(records, filter, query), LAMBDA r : DayLabel(r, now) = label)

(* flatItems without the headers: the rows as they are listed.             *)
Listed(records, now, filter, query) ==
  FlattenSeq([g \in DOMAIN GroupLabels(records, now, filter, query) |->
                GroupRows(GroupLabels(records, now, filter, query)[g],
                          records, now, filter, query)])

(* todayOverview, the sessions the home page counts: since midnight.        *)
TodaySessions(records, now) ==
  {r \in records \cap Completed : CreatedAt[r] \in (DayOf(now) * DayLength) .. now}

-----------------------------------------------------------------------------
(* Grouping by day only puts headers between the rows: it loses, repeats    *)
(* and reorders nothing, and no day is listed twice.  It holds for records  *)
(* of one year; the 250 records of somebody who dictates rarely can reach   *)
(* back to the same date a year ago, which then shares a group.             *)
WithinAYear(records, now) ==
  \A r \in records : CreatedAt[r] = 0 \/ DayOf(now) - DayOf(CreatedAt[r]) < YearLength

DaysKeepOrder(records, nows, queries) ==
  \A now \in nows, filter \in Chips, query \in queries :
    WithinAYear(records, now) =>
      Listed(records, now, filter, query) = Ordered(records, filter, query)

(* The number on a chip is the number of rows its filter leaves.           *)
ChipsCountRows(records) ==
  \A chip \in Chips : ChipCount(records, chip) = Len(Ordered(records, chip, Blank))

(* A header reads "yesterday" only above rows of that calendar day, at      *)
(* whatever hour the page looks, and "today" never above an earlier day's.  *)
(* (Rows that a clock set back put into the future stand under "today".)    *)
HeadersTellTheDay(records, nows) ==
  \A now \in nows, r \in records :
    LET label == DayLabel(r, now)[1]
    IN /\ label = "today" => CreatedAt[r] # 0 /\ DayOf(CreatedAt[r]) >= DayOf(now)
       /\ label = "yesterday" => DayOf(CreatedAt[r]) + 1 = DayOf(now)

(* The home page and the history page agree on today: what the one counts   *)
(* stands under the header "today" of the other, and the completed sessions *)
(* there are counted, all but those a clock set back put into the future.   *)
(* (The unreadable instant 0 would be today on its own day only.)           *)
HomeCountsToday(records, nows) ==
  \A now \in nows : DayOf(now) > 0 =>
    TodaySessions(records, now) =
      {r \in records \cap Completed : DayLabel(r, now)[1] = "today" /\ CreatedAt[r] <= now}
=============================================================================
