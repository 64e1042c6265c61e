----------------------------- MODULE Countdown -----------------------------
(***************************************************************************)
(* The countdown to the next reset of a SIM's data limit                   *)
(* (_compute_days_until_reset): days of a calendar with leap years, looked *)
(* at once a day at one hour.  Every poll computes it anew from the limit  *)
(* the router reports and from the clock.  The limit is enabled and has    *)
(* all its fields; the clock is the router's.                              *)
(***************************************************************************)
EXTENDS Integers, FiniteSetsExt

CONSTANTS
  Days, Hours, Months,    \* values of the fields of a limit
  Noon,                   \* the hour at which the countdown is looked at
  FirstYear, LastYear     \* the calendar that is gone through

VARIABLES
  now,     \* the day, [year, month, day]
  limit,   \* the limit the router reports
  days     \* what the sensor shows

countVars == <<now, limit, days>>

Periods == {"day", "week", "month", "season", "year"}
Limits  == [period : Periods, day : Days, hour : Hours, month : Months]

-----------------------------------------------------------------------------
(* Calendar.                                                               *)

Between(low, high, n) == Max({low, Min({high, n})})

Leap(year) == year % 4 = 0

MonthDays(year, month) ==
  CASE month = 2 -> IF Leap(year) THEN 29 ELSE 28
    [] month \in {4, 6, 9, 11} -> 30
    [] OTHER -> 31

\* Days of the year that lie before the month.
Before(year, month) ==
  <<0, 31, 59, 90, 120, 151, 181, 212, 243, 273, 304, 334>>[month]
    + (IF month > 2 /\ Leap(year) THEN 1 ELSE 0)

\* Days from the last of 1900, which was a Monday, to the last before the month.
MonthStart(year, month) ==
  365 * (year - 1901) + ((year - 1901) \div 4) + Before(year, month)

DayNumber(date) == MonthStart(date.year, date.month) + date.day

IsoWeekday(date) == (DayNumber(date) % 7) + 1

NextDay(date) ==
  IF date.day < MonthDays(date.year, date.month)
    THEN [date EXCEPT !.day = @ + 1]
  ELSE IF date.month < 12
    THEN [date EXCEPT !.day = 1, !.month = @ + 1]
  ELSE [year |-> date.year + 1, month |-> 1, day |-> 1]

-----------------------------------------------------------------------------
(* The countdown, in hours since the same origin.                          *)

Instant(date, hour) == 24 * DayNumber(date) + hour

\* `if candidate <= now`, the later one.
Later(candidate, later, present) ==
  IF candidate <= present THEN later ELSE candidate

Daily(date, l, present) ==
  LET candidate == Instant(date, l.hour)
  IN  Later(candidate, candidate + 24, present)

Weekly(date, l, present) ==
  LET ahead     == (Between(1, 7, l.day) - IsoWeekday(date)) % 7
      candidate == Instant(date, l.hour) + 24 * ahead
  IN  Later(candidate, candidate + 24 * 7, present)

Anchor(year, month, l) ==
  Instant([year |-> year, month |-> month, day |-> Between(1, 28, l.day)],
          Between(0, 23, l.hour))

\* Faulty variant: months of thirty days.
MonthlyOfThirty(date, l, present) ==
  LET candidate == Anchor(date.year, date.month, l)
  IN  Later(candidate, candidate + 24 * 30, present)

Monthly(date, l, present) ==
  Later(Anchor(date.year, date.month, l),
        IF date.month = 12 THEN Anchor(date.year + 1, 1, l)
                           ELSE Anchor(date.year, date.month + 1, l),
        present)

\* The next quarter's reset is taken to be 92 days after this quarter's.
Seasonal(date, l, present) ==
  LET quarter   == (date.month - 1) \div 3
      candidate == Anchor(date.year, 3 * quarter + Between(1, 3, l.month), l)
  IN  Later(candidate, candidate + 24 * 92, present)

Yearly(date, l, present) ==
  LET month == Between(1, 12, l.month)
  IN  Later(Anchor(date.year, month, l), Anchor(date.year + 1, month, l), present)

NextReset(date, l, present) ==
  CASE l.period = "day"    -> Daily(date, l, present)
    [] l.period = "week"   -> Weekly(date, l, present)
    [] l.period = "month"  -> Monthly(date, l, present)
    [] l.period = "season" -> Seasonal(date, l, present)
    [] l.period = "year"   -> Yearly(date, l, present)

DaysUntilReset(date, l) ==
  LET present == Instant(date, Noon)
  IN  (NextReset(date, l, present) - present) \div 24

-----------------------------------------------------------------------------
CountdownInit ==
  /\ now = [year |-> FirstYear, month |-> 1, day |-> 1]
  /\ limit \in Limits
  /\ days = DaysUntilReset(now, limit)

\* A poll a day later.
Tomorrow ==
  /\ now.year < LastYear \/ now.month < 12 \/ now.day < 31
  /\ now' = NextDay(now)
  /\ days' = DaysUntilReset(now', limit)
  /\ UNCHANGED limit

\* A poll after another period was chosen on the router.
ChoosePeriod ==
  \E p \in Periods \ {limit.period} :
    /\ limit' = [limit EXCEPT !.period = p]
    /\ days' = DaysUntilReset(now, limit')
    /\ UNCHANGED now

CountdownNext == Tomorrow \/ ChoosePeriod

-----------------------------------------------------------------------------
(* Properties.                                                             *)

\* The limit is reset on this date.
ResetOn(date, l) ==
  CASE l.period = "day"    -> TRUE
    [] l.period = "week"   -> IsoWeekday(date) = Min({7, l.day})
    [] l.period = "month"  -> date.day = l.day
    [] l.period = "season" ->
         date.day = l.day /\ ((date.month - 1) % 3) + 1 = Min({3, l.month})
    [] l.period = "year"   -> date.day = l.day /\ date.month = l.month

\* Between noon and the next noon the limit is reset.
ResetComes ==
  \/ ResetOn(now, limit) /\ limit.hour > Noon
  \/ ResetOn(now', limit) /\ limit.hour <= Noon

\* Whole days left a day before the reset's day: a full one at its very hour.
Left == IF limit.hour = Noon THEN 1 ELSE 0

\* By how much a countdown may be too long: from one quarter to the next it is
\* 89 days (February to May) to 92.
Slack == IF limit.period = "season" THEN 3 ELSE 0

\* What makes CountdownFalls inductive: the days are those of the calendar, and
\* what is shown has been computed for today.
Dates ==
  {d \in [year : FirstYear..LastYear, month : 1..12, day : 1..31] :
     d.day <= MonthDays(d.year, d.month)}

IInv ==
  /\ now \in Dates /\ limit \in Limits
  /\ days = DaysUntilReset(now, limit)

\* The countdown of a limit that is left alone falls by one a day, through
\* ends of months and years and through February 29th, and has run out
\* when the reset comes; that of a season may be up to three days long
\* (_compute_days_until_reset).
CountdownFalls ==
  [][now' # now =>
       IF ResetComes THEN days - Left \in 0..Slack
                     ELSE days - days' \in 1..(1 + Slack) /\ days' >= 0]_countVars
=============================================================================
