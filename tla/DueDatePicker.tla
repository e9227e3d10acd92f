--------------------------- MODULE DueDatePicker ----------------------------
(***************************************************************************)
(* Choosing a due date in the browser (apps/web/src/components/ui/         *)
(* DueDatePicker.tsx, DatePickerInput.tsx, lib/calendar.ts, lib/format.ts) *)
(* and reading it back.  The form holds a calendar day, the API an         *)
(* instant: noon of that day in UTC.  The page turns the instant back into *)
(* a day twice, by cutting the UTC date off for the form and in local time *)
(* for display, and the project's statistics compare instants.             *)
(* Instants are hours; day d of a clock begins at hour 24 * d.             *)
(***************************************************************************)
EXTENDS Integers, Sequences

CONSTANTS
  MonthLengths, \* lengths of consecutive months
  FirstWeekday, \* weekday of day 1, Monday = 0
  Offsets,      \* hours that the browser's clock is ahead of UTC
  Hours,        \* bound: instants at which something is done
  Pickable      \* bound: days somebody clicks on

ASSUME DateConstantsOK ==
  Offsets \subseteq -12..14 /\ Hours \subseteq Int /\ Pickable \subseteq Int

NoDay == 0      \* the empty value, and the null of due_at

VARIABLES
  offset,  \* of the browser
  clock,   \* the time now
  done,    \* the task is DONE
  dueAt,   \* the task's due date, an instant
  dueDate, \* the form's value, a day
  open,    \* the calendar is open
  view,    \* month the calendar shows
  picked   \* history: the day that was last submitted

dateVars == <<offset, clock, done, dueAt, dueDate, open, view, picked>>

-----------------------------------------------------------------------------
Months == 1..Len(MonthLengths)

FirstOf[m \in 1..(Len(MonthLengths) + 1)] ==
  IF m = 1 THEN 1 ELSE FirstOf[m - 1] + MonthLengths[m - 1]

DaysOf(m) == FirstOf[m]..(FirstOf[m + 1] - 1)

LocalDay(instant) == (instant + offset) \div 24
UtcDay(instant)   == instant \div 24

\* getTodayDateInput.
Today == LocalDay(clock)

\* parseDateInput and getViewFromValue: the month of a day, or of today.
MonthOf(day) == CHOOSE m \in Months : day \in DaysOf(m)
ViewFromValue(day) == MonthOf(IF day = NoDay THEN Today ELSE day)

\* (getDay() + 6) % 7 of the first of the month: days from Monday to it.
StartOffset(m) == (FirstWeekday + FirstOf[m] - 1) % 7

\* getCalendarMonthDays: six weeks.
CalendarMonthDays(m) == {FirstOf[m] - StartOffset(m) + i : i \in 0..41}

\* Mutant of DateInputToIso: midnight instead of noon.
DateInputToMidnight(day) == 24 * day

DateInputToIso(day) == 24 * day + 12

\* toDateInputValue cuts the UTC date off; formatDate shows the local one.
DateInputValue(instant) == IF instant = NoDay THEN NoDay ELSE UtcDay(instant)
FormatDate(instant) == LocalDay(instant)

\* daysUntilDue: local midnights are compared.
DaysUntilDue(instant) == LocalDay(instant) - Today

\* DueDateDisplay: the day that is shown, and whether it is called overdue.
Display == [day     |-> FormatDate(dueAt),
            overdue |-> dueAt # NoDay /\ DaysUntilDue(dueAt) < 0]

\* What the form shows of the day that is chosen in it.
Preview == FormatDate(DateInputToIso(dueDate))

\* overdueDue of the statistics (status: { not: DONE }, dueAt: { lt: now }).
CountedOverdue == ~done /\ dueAt # NoDay /\ dueAt < clock

-----------------------------------------------------------------------------
DateInit ==
  /\ offset \in Offsets /\ clock \in Hours /\ done = FALSE
  /\ dueAt = NoDay /\ dueDate = NoDay /\ open = FALSE
  /\ view = ViewFromValue(NoDay) /\ picked = NoDay

Later ==
  /\ \E h \in Hours : h > clock /\ clock' = h
  /\ UNCHANGED <<offset, done, dueAt, dueDate, open, view, picked>>

\* The task is closed.  An open form may be of an older copy of the task, and the
\* API takes a due date for a task that is DONE.
Finish ==
  /\ ~done /\ done' = TRUE
  /\ UNCHANGED <<offset, clock, dueAt, dueDate, open, view, picked>>

\* openDueDateForm, or startEditing: the form starts from the task's due date.
FillForm ==
  /\ dueDate' = DateInputValue(dueAt) /\ open' = FALSE
  /\ UNCHANGED <<offset, clock, done, dueAt, view, picked>>

\* Tomorrow, In 3 days, Next week, In 2 weeks: from the local today.
Preset ==
  /\ \E days \in {1, 3, 7, 14} : dueDate' = Today + days
  /\ open' = FALSE
  /\ UNCHANGED <<offset, clock, done, dueAt, view, picked>>

OpenCalendar ==
  /\ ~open /\ open' = TRUE /\ view' = ViewFromValue(dueDate)
  /\ UNCHANGED <<offset, clock, done, dueAt, dueDate, picked>>

\* Trigger, Escape, a press outside, a scroll or a resize.
CloseCalendar ==
  /\ open /\ open' = FALSE
  /\ UNCHANGED <<offset, clock, done, dueAt, dueDate, view, picked>>

ShiftMonth ==
  /\ open /\ view' \in {view - 1, view + 1} \cap Months
  /\ UNCHANGED <<offset, clock, done, dueAt, dueDate, open, picked>>

\* A day of the grid, also of a neighbouring month, Today, or Clear.
Pick(day) ==
  /\ open /\ dueDate' = day /\ open' = FALSE
  /\ UNCHANGED <<offset, clock, done, dueAt, view, picked>>

PickDay   == \E day \in CalendarMonthDays(view) \cap Pickable : Pick(day)
PickToday == Pick(Today)
PickClear == Pick(NoDay)

\* The input is required: an empty form is not submitted.
SubmitDue ==
  /\ dueDate # NoDay
  /\ dueAt' = DateInputToIso(dueDate) /\ picked' = dueDate /\ open' = FALSE
  /\ UNCHANGED <<offset, clock, done, dueDate, view>>

DateNext == \/ Later \/ Finish \/ FillForm \/ Preset \/ OpenCalendar \/ CloseCalendar \/ ShiftMonth
            \/ PickDay \/ PickToday \/ PickClear \/ SubmitDue

DateSpec == DateInit /\ [][DateNext]_dateVars

-----------------------------------------------------------------------------
\* A day survives the way to the API and back: the form gets it back anywhere,
\* the page shows it, before and after, except where clocks are twelve hours or
\* more ahead of UTC, and calls the task overdue only if the statistics count
\* it, which they may do half a day earlier, while the page still says that it
\* is due today, or if it is DONE: the page says overdue whatever the status, the
\* statistics leave tasks that are DONE out.
DaySurvives ==
  picked # NoDay =>
    /\ DateInputValue(dueAt) = picked
    /\ Display.day # picked => offset >= 12
    /\ dueDate \notin {NoDay, Preview} => offset >= 12
    /\ Display.overdue => CountedOverdue \/ done
    /\ CountedOverdue => DaysUntilDue(dueAt) <= 0
=============================================================================
