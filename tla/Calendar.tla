---------------------------------- MODULE Calendar ---------------------------------
(***************************************************************************)
(* frequency.py: the periods that follow a history, the one a day lies in, *)
(* whether it is over, and the frequency a history is taken to have.  A    *)
(* date is the number of days since 1 January 1996, a Monday.              *)
(***************************************************************************)
EXTENDS Integers, Sequences, FiniteSets, FiniteSetsExt

CONSTANTS
    FirstDays,  \* days a history may begin on
    MaxPeriods  \* bound: the periods one history spans

VARIABLES
    frequency,
    first,    \* the first period of the history
    step,     \* periods since, recorded or not
    recorded  \* the periods the history has

vars == <<frequency, first, step, recorded>>

Frequency == {"daily", "weekly", "monthly", "quarterly"}

\* datetime.date, by months since January 1996: every fourth year of the calendar is a leap year
Leap(year) == year % 4 = 0
DaysBefore == <<0, 31, 59, 90, 120, 151, 181, 212, 243, 273, 304, 334>>
MonthStart(month) ==
    LET year == month \div 12  of == month % 12
    IN 365 * year + (year + 3) \div 4 + DaysBefore[of + 1] + (IF Leap(year) /\ of > 1 THEN 1 ELSE 0)
DaysIn(month) == MonthStart(month + 1) - MonthStart(month)
Month(day) ==
    CHOOSE month \in (day \div 31)..(day \div 28) :
        MonthStart(month) <= day /\ day < MonthStart(month + 1)
DayOfMonth(day) == day - MonthStart(Month(day))
Weekday(day) == day % 7

\* the days of a month counted from 0
AddMonthsUncapped(anchor, months) == MonthStart(Month(anchor) + months) + DayOfMonth(anchor)
AddMonths(anchor, months) ==
    LET month == Month(anchor) + months
    IN MonthStart(month) + Min({DayOfMonth(anchor), DaysIn(month) - 1})

AddPeriods(anchor, count, of) ==
    CASE of = "daily" -> anchor + count
      [] of = "weekly" -> anchor + 7 * count
      [] of = "monthly" -> AddMonths(anchor, count)
      [] of = "quarterly" -> AddMonths(anchor, 3 * count)

PeriodStart(day, of) ==
    CASE of = "daily" -> day
      [] of = "weekly" -> day - Weekday(day)
      [] of = "monthly" -> MonthStart(Month(day))
      [] of = "quarterly" -> MonthStart(3 * (Month(day) \div 3))

PeriodEnd(period, of) == AddPeriods(PeriodStart(period, of), 1, of) - 1

PeriodIsSettled(period, coveredThrough, of) ==
    \/ PeriodEnd(period, of) <= coveredThrough
    \/ PeriodStart(period, of) < PeriodStart(coveredThrough, of)

-----------------------------------------------------------------------------
(* infer_frequency *)

Bands == <<[of |-> "daily", low |-> 1, high |-> 1, days |-> 100],
           [of |-> "weekly", low |-> 6, high |-> 8, days |-> 700],
           [of |-> "monthly", low |-> 27, high |-> 32, days |-> 3044],
           [of |-> "quarterly", low |-> 88, high |-> 93, days |-> 9131]>>

InBand(gap, b) == Bands[b].low <= gap /\ gap <= Bands[b].high

\* the span over APPROX_DAYS, rounded: no span is half way
Expected(span, b) == Max({1, (200 * span + Bands[b].days) \div (2 * Bands[b].days) + 1})

\* what each period is followed by, and the one in the middle of them by length
Following(periods, p) == Min({q \in periods : q > p})
Gap(periods) == [p \in periods \ {Max(periods)} |-> Following(periods, p) - p]
MedianGap(gap) ==
    LET n == Cardinality(DOMAIN gap)
    IN CHOOSE g \in {gap[p] : p \in DOMAIN gap} :
          /\ Cardinality({p \in DOMAIN gap : gap[p] < g}) <= n \div 2
          /\ Cardinality({p \in DOMAIN gap : gap[p] <= g}) > n \div 2

InferFrequency(periods) ==
    IF Cardinality(periods) < 3 THEN "none"
    ELSE LET gap == Gap(periods)
             n == Cardinality(DOMAIN gap)
             span == Max(periods) - Min(periods)
             covered(b) == 10 * Cardinality(periods) >= 3 * Expected(span, b)
             agrees(b) == 2 * Cardinality({p \in DOMAIN gap : InBand(gap[p], b)}) >= n
             likely == {b \in DOMAIN Bands : InBand(MedianGap(gap), b) /\ agrees(b) /\ covered(b)}
             possible == {b \in DOMAIN Bands : covered(b)}
         IN IF likely # {} THEN Bands[Min(likely)].of
            ELSE IF possible # {} THEN Bands[Max(possible)].of ELSE "none"

-----------------------------------------------------------------------------
Init ==
    /\ frequency \in Frequency /\ first \in FirstDays
    /\ step = 0 /\ recorded = {first}

\* future_periods adds to the last period of the history, never to one it has added
Period == AddPeriods(first, step + 1, frequency)

Record ==
    /\ step < MaxPeriods /\ step' = step + 1
    /\ recorded' = recorded \cup {Period}
    /\ UNCHANGED <<frequency, first>>

\* a period nothing was recorded in
Miss ==
    /\ step < MaxPeriods /\ step' = step + 1
    /\ UNCHANGED <<frequency, first, recorded>>

Next == Record \/ Miss

Spec == Init /\ [][Next]_vars

-----------------------------------------------------------------------------
Last == AddPeriods(first, step, frequency)
Upcoming == AddPeriods(first, step + 1, frequency)

\* A period begins on the day after the one before it ends, whatever day of a month the history
\* begins on, and it is settled exactly when its last day is covered.
PeriodsAdjoin ==
    /\ PeriodStart(Upcoming, frequency) = PeriodEnd(Last, frequency) + 1
    /\ PeriodStart(Last, frequency) <= Last /\ Last <= PeriodEnd(Last, frequency)
    /\ \A day \in {Last, PeriodEnd(Last, frequency), PeriodEnd(Last, frequency) - 1, Upcoming} :
          PeriodIsSettled(Last, day, frequency) <=> PeriodEnd(Last, frequency) <= day

\* A history is taken to have the frequency it was recorded at, when most of its periods follow one
\* upon another and it has a third of the ones it spans.
FrequencyIsFound ==
    LET follows == {k \in 1..step : /\ AddPeriods(first, k, frequency) \in recorded
                                    /\ AddPeriods(first, k - 1, frequency) \in recorded}
        span == Max({k \in 0..step : AddPeriods(first, k, frequency) \in recorded}) + 1
    IN Cardinality(recorded) >= 3 /\ 2 * Cardinality(follows) > Cardinality(recorded) - 1
         /\ 3 * Cardinality(recorded) >= span
       => InferFrequency(recorded) = frequency

CalendarAgrees == PeriodsAdjoin /\ FrequencyIsFound
=================================================================================
