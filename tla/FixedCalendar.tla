---------------------------- MODULE FixedCalendar ---------------------------
(***************************************************************************)
(* The slots of a fixed schedule of the node service, day by day: daily,   *)
(* weekly on a weekday, or monthly on a day that short months clamp.  Time *)
(* is counted in half days, so that a day has two times a slot can be at;  *)
(* Months gives the lengths of the months the model runs through.          *)
(***************************************************************************)
EXTENDS Integers, Sequences

CONSTANTS Months,    \* lengths of the months
          MonthDays, \* the days of the month that schedules are set to
          MaxLate    \* bound on the half days a firing comes late

ASSUME CalendarAssumption ==
    /\ Months \in Seq(Nat \ {0}) /\ Months # << >>
    /\ MonthDays \subseteq Nat \ {0}
    /\ MaxLate \in Nat

VARIABLES row,    \* the row of the schedule: frequency, weekday, day of month, time
          chosen, \* the row as its owner asked for it
          base,   \* the moment of the last create or markSent
          next    \* next_send_at

vars == <<row, chosen, base, next>>

Rows == [freq : {"daily"}, weekday : {1}, day : {1}, half : {0, 1}]
        \cup [freq : {"weekly"}, weekday : 0 .. 6, day : {1}, half : {0, 1}]
        \cup [freq : {"monthly"}, weekday : {1}, day : MonthDays, half : {0, 1}]

FirstDay[m \in 1 .. Len(Months)] ==
  IF m = 1 THEN 0 ELSE FirstDay[m - 1] + Months[m - 1]

LastDay == FirstDay[Len(Months)] - 1   \* the last month only serves as a next one
DayOf(t) == t \div 2
WeekdayOf(d) == d % 7
MonthOf(d) == CHOOSE m \in 1 .. Len(Months) :
                FirstDay[m] <= d /\ d < FirstDay[m] + Months[m]

\* Mutant: a day the month does not have runs over into the next month.
MonthlyDateOver(m, r) == 2 * (FirstDay[m] + r.day - 1) + r.half

\* setMonthlyDate
MonthlyDate(m, r) ==
  LET day == IF r.day < Months[m] THEN r.day ELSE Months[m]
  IN 2 * (FirstDay[m] + day - 1) + r.half

\* calculateNextFixedSendAt: the slot of this day, week or month, or the next
\* one when that is not after the base.
NextSlot(r, t) ==
  LET day   == DayOf(t)
      delta == (r.weekday - WeekdayOf(day) + 7) % 7
      month == MonthOf(day)
      Later(this, following) == IF this <= t THEN following ELSE this
  IN IF r.freq = "weekly"
       THEN Later(2 * (day + delta) + r.half, 2 * (day + delta + 7) + r.half)
     ELSE IF r.freq = "monthly"
       THEN Later(MonthlyDate(month, r), MonthlyDate(month + 1, r))
     ELSE Later(2 * day + r.half, 2 * (day + 1) + r.half)

\* normalizeSchedule: parseInt(...) || 1 turns Sunday, which is 0, into Monday.
ReadRow(r) == [freq |-> r.freq, weekday |-> IF r.weekday = 0 THEN 1 ELSE r.weekday,
               day |-> r.day, half |-> r.half]

Init == /\ row \in Rows
        /\ chosen = row
        /\ base \in 0 .. 2 * LastDay
        /\ next = NextSlot(row, base)

\* The tick that finds the schedule due marks it as sent.
MarkSent ==
  \E late \in 0 .. MaxLate :
    /\ next + late <= 2 * LastDay
    /\ base' = next + late
    /\ row' = ReadRow(row)
    /\ next' = NextSlot(row', base')
    /\ UNCHANGED chosen

Spec == Init /\ [][MarkSent]_vars
-----------------------------------------------------------------------------
\* What a slot of a row is, said without arithmetic on dates.
IsSlot(r, t) ==
  LET d == DayOf(t)
      m == MonthOf(d)
      dayOfMonth == d - FirstDay[m] + 1
  IN /\ t % 2 = r.half
     /\ r.freq = "weekly" => WeekdayOf(d) = r.weekday
     /\ r.freq = "monthly" =>
          dayOfMonth = r.day \/ (dayOfMonth < r.day /\ dayOfMonth = Months[m])

\* No slot is passed over and none comes twice: the next time is a slot, it lies
\* after the last sending, and no slot lies between (calculateNextFixedSendAt).
NextIsLeast == /\ IsSlot(row, next)
               /\ next > base
               /\ \A t \in base + 1 .. next - 1 : ~IsSlot(row, t)

\* The schedule keeps the slots its owner chose.  The code does not: a weekly
\* schedule for Sunday becomes one for Monday when its row is read.
ChosenSlotKept == IsSlot(chosen, next)
=============================================================================
