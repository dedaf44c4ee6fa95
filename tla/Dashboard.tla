-------------------------------- MODULE Dashboard --------------------------------
(***************************************************************************)
(* DashboardService.getSalesOverview: the period a sales chart shows, its  *)
(* buckets, and the bucket an order is counted in.                         *)
(*                                                                         *)
(* Dates are local, as the service's Date methods are.  Days are numbered, *)
(* day 0 is a Monday; a moment is a day and the minutes since the day      *)
(* began.  Clocks change by an hour: a day skips an hour, repeats one, or  *)
(* does neither.                                                           *)
(***************************************************************************)
EXTENDS Integers

Timelines == {"DAY", "WEEK", "MONTH"}

\* The first day of each month, and the month of each day.
Calendars(cal) ==
  /\ cal.first \in [Int -> Int] /\ cal.monthOf \in [Int -> Int]
  /\ \A m \in Int : cal.first[m] < cal.first[m + 1]
  /\ \A d, m \in Int : cal.monthOf[d] = m <=> cal.first[m] <= d /\ d < cal.first[m + 1]

Clocks == [change: {"none", "skips", "repeats"}, hour: 0..23]

MinutesOf(clock) ==
  CASE clock.change = "none"    -> 24 * 60
    [] clock.change = "skips"   -> 23 * 60
    [] clock.change = "repeats" -> 25 * 60

--------------------------------------------------------------------------------
(* Dates *)

\* Date.getHours, of the minutes since the day began.
getHours(clock, minutes) ==
  LET h == minutes \div 60
  IN  CASE clock.change = "none"    -> h
        [] clock.change = "skips"   -> IF h < clock.hour THEN h ELSE h + 1
        [] clock.change = "repeats" -> IF h <= clock.hour THEN h ELSE h - 1

\* new Date(year, month, day, hour): a skipped hour is the moment it is skipped at, a
\* repeated one its first pass.
AtHour(clock, h) ==
  CASE clock.change = "none"    -> 60 * h
    [] clock.change = "skips"   -> IF h <= clock.hour THEN 60 * h ELSE 60 * (h - 1)
    [] clock.change = "repeats" -> IF h <= clock.hour THEN 60 * h ELSE 60 * (h + 1)

SecondPass(clock, minutes) == clock.change = "repeats" /\ minutes \div 60 = clock.hour + 1

\* Date.getDay is 0 on Sundays.
getDay(d)             == (d + 1) % 7
addMonths(cal, d, n)  == cal.first[cal.monthOf[d] + n]
startOfWeek(d)        == d - ((getDay(d) + 6) % 7)
startOfMonth(cal, d)  == cal.first[cal.monthOf[d]]

--------------------------------------------------------------------------------
(* The period and its buckets *)

Around(start, days) == [start |-> start, end |-> start + days, previous |-> start - days, next |-> start + days]

resolveSalesPeriod(cal, timeline, anchor) ==
  CASE timeline = "DAY"   -> Around(anchor, 1)
    [] timeline = "WEEK"  -> Around(startOfWeek(anchor), 7)
    [] timeline = "MONTH" -> LET start == startOfMonth(cal, anchor)
                             IN  [start |-> start, end |-> addMonths(cal, start, 1),
                                  previous |-> addMonths(cal, start, -1), next |-> addMonths(cal, start, 1)]

Within(period, d) == period.start <= d /\ d < period.end

buildSalesBuckets(timeline, period) == IF timeline = "DAY" THEN 0..23 ELSE 0..(period.end - period.start - 1)

getBucketIndex(timeline, period, clock, d, minutes) ==
  IF timeline = "DAY" THEN getHours(clock, minutes) ELSE d - period.start

\* The moment lies between the bucketStart and the bucketEnd of bucket i.
InBucket(timeline, period, clock, i, d, minutes) ==
  IF timeline = "DAY"
    THEN d = period.start /\ AtHour(clock, i) <= minutes /\ minutes < AtHour(clock, i) + 60
    ELSE d = period.start + i
================================================================================
