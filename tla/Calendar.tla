------------------------------- MODULE Calendar -------------------------------
(***************************************************************************)
(* When a recurring plan is due: addMonthsClamped, occurrence and          *)
(* nextOccurrenceAfter of internal/wallet/recurrence.go, and the monthly   *)
(* step of the group job (ClaimDueRecurring), which counts from the last   *)
(* run instead of from the start.  Time is counted in half days from the   *)
(* first of the calendar's first month.                                    *)
(***************************************************************************)
EXTENDS Integers, FiniteSets, FiniteSetsExt

CONSTANTS MonthLen,     \* the days of every month of the calendar, in order
          Starts,       \* the half days plans may start at
          Periods,      \* the n of "every n units"
          Horizon       \* last half day asked about

VARIABLES start, n, unit, due, run

vars == <<start, n, unit, due, run>>

Months == DOMAIN MonthLen
FirstDay == [m \in Months |-> MapThenSumSet(LAMBDA i : MonthLen[i], {i \in Months : i < m})]

\* The calendar's month of a half day, and its day of the month counted from 0.
MonthTable ==
    [t \in 0..(2 * FirstDay[Max(Months)] - 1) |->
        CHOOSE m \in Months : FirstDay[m] <= t \div 2 /\ t \div 2 < FirstDay[m] + MonthLen[m]]
Month(t) == MonthTable[t]
Day(t) == t \div 2 - FirstDay[Month(t)]

\* Broken: days past the end roll into the next month.
Rolls(t, k) == 2 * (FirstDay[Month(t) + k] + Day(t)) + (t % 2)

\* The same day and time k months later, or the last day of that month.
AddMonthsClamped(t, k) ==
    LET m == Month(t) + k  d == Min({Day(t), MonthLen[m] - 1})
    IN  2 * (FirstDay[m] + d) + (t % 2)

Units == {"DAY", "WEEK", "MONTH", "YEAR"}

Occurrence(s, p, u, k) ==
    CASE u = "DAY" -> s + 2 * k * p
      [] u = "WEEK" -> s + 14 * k * p
      [] u = "YEAR" -> AddMonthsClamped(s, 12 * k * p)
      [] OTHER -> AddMonthsClamped(s, k * p)

\* Whole days, or months of the calendar, over the step, ...
Estimate(s, p, u, t) ==
    LET days == (t - s) \div 2
        months == Month(t) - Month(s)
        k == CASE u = "DAY" -> days \div p [] u = "WEEK" -> days \div (7 * p)
               [] u = "YEAR" -> months \div (12 * p) [] OTHER -> months \div p
    IN  k

\* ... less one: the k the search starts from.  Broken: one more.
PastEstimate(s, p, u, t) == Estimate(s, p, u, t) + 1
SearchFrom(s, p, u, t) == Max({Estimate(s, p, u, t) - 1, 0})

NextOccurrenceAfter(s, p0, u, t) ==
    LET p == Max({p0, 1})
        from == SearchFrom(s, p, u, t)
        stop == CHOOSE k \in from..(from + 4) :
                  /\ Occurrence(s, p, u, k) > t
                  /\ \A j \in from..(k - 1) : Occurrence(s, p, u, j) <= t
    IN  IF s > t THEN s ELSE Occurrence(s, p, u, stop)

\* What the group job makes of a monthly run: occ.run_at + interval '1 month'; broken: a
\* month has thirty days.
ThirtyDays(t) == t + 60
NextRun(t) == AddMonthsClamped(t, 1)

Midnight(m, d) == 2 * (FirstDay[m] + d - 1)

\* The month of reports that t is in, for a user whose months start on day d.
BucketStart(t, d) ==
    LET s == Midnight(Month(t), d) IN IF t < s THEN AddMonthsClamped(s, -1) ELSE s

NextBucket(t) == AddMonthsClamped(t, 1)

\* Broken: the day is added to the calendar's month.
WrongMonth(t, d) == Midnight(Month(t), d)

\* What the trend's query makes of it: date_trunc after a shift of d - 1 days, shifted back.
DateTrunc(t, d) == Midnight(Month(t - 2 * (d - 1)), d)

CurrentPeriod(t, d) == <<BucketStart(t, d), AddMonthsClamped(BucketStart(t, d), 1)>>

Init ==
    /\ start \in Starts /\ n \in Periods /\ unit \in Units
    /\ due = start /\ run = start

\* A plan and a monthly schedule that started together move on.
Advance ==
    /\ due <= Horizon /\ run <= Horizon
    /\ due' = NextOccurrenceAfter(start, n, unit, due)
    /\ run' = NextRun(run)
    /\ UNCHANGED <<start, n, unit>>

Next == Advance

Spec == Init /\ [][Next]_vars

-----------------------------------------------------------------------------
TypeOK == start \in Starts /\ n \in Periods /\ unit \in Units /\ due \in Nat /\ run \in Nat

\* Which occurrence of the plan falls in the month (the day, the week) of t.
Index(t) ==
    LET p == Max({n, 1})
    IN  CASE unit = "DAY" -> (t - start) \div (2 * p)
          [] unit = "WEEK" -> (t - start) \div (14 * p)
          [] unit = "YEAR" -> (Month(t) - Month(start)) \div (12 * p)
          [] OTHER -> (Month(t) - Month(start)) \div p

\* The jump over a gap of any length lands on the first occurrence after it, months of
\* different lengths and the time of day included (recurrence.go:45-80).
JumpsToFirst ==
    due = start =>
        \A after \in 0..Horizon :
            LET next == NextOccurrenceAfter(start, n, unit, after)
                k == Index(next)
            IN  /\ next > after
                /\ Occurrence(start, Max({n, 1}), unit, k) = next
                /\ k = 0 \/ Occurrence(start, Max({n, 1}), unit, k - 1) <= after

\* A plan comes back to its own day after a short month: one occurrence a month, on the
\* start's day or on the last one (recurrence.go:29-31).
KeepsItsDay ==
    (unit \in {"MONTH", "YEAR"}) =>
        Day(due) = Min({Day(start), MonthLen[Month(due)] - 1}) /\ due % 2 = start % 2

\* The handler's buckets are the query's, whatever day the user's months start on: every
\* moment is in one, and so in the period of the overview (reports.go:383-410,
\* wallet_reports.sql.go:568-573, ledger.go:157-165).
PeriodsMeet ==
    due >= 120 =>
        \A d \in 1..28 :
            LET s == BucketStart(due, d)
            IN  /\ s = DateTrunc(due, d)
                /\ s <= due /\ due < NextBucket(s)
                /\ CurrentPeriod(due, d) = <<s, NextBucket(s)>>

\* The group job has no anchor: its day slides towards the shortest month and stays
\* there, but it runs once in every month and never after the day it started on.
SlidesOnlyDown ==
    [][Month(run') = Month(run) + 1 /\ Day(run') <= Day(run) /\ Day(run') <= Day(start)]_run
=============================================================================
