----------------------------- MODULE DashboardProofs -----------------------------
(***************************************************************************)
(* What the dashboard's periods and buckets guarantee, for every calendar  *)
(* and every change of the clocks by an hour.                              *)
(***************************************************************************)
EXTENDS Dashboard, TLAPS

LEMMA WeekStart ==
  ASSUME NEW d \in Int
  PROVE  /\ startOfWeek(d) \in Int /\ startOfWeek(d) % 7 = 0
         /\ startOfWeek(d) <= d /\ d < startOfWeek(d) + 7
  <1>1. (getDay(d) + 6) % 7 = d % 7
    BY DEF getDay
  <1>2. startOfWeek(d) = d - (d % 7)
    BY <1>1 DEF startOfWeek
  <1>3. QED
    BY <1>2

\* Two multiples of seven that are less than seven apart are the same.
LEMMA WeeksApart ==
  ASSUME NEW a \in Int, NEW b \in Int, a % 7 = 0, b % 7 = 0, a < b + 7, b < a + 7
  PROVE  a = b
  OBVIOUS

LEMMA WeekOf ==
  ASSUME NEW d \in Int, NEW n \in Int
  PROVE  startOfWeek(n) = startOfWeek(d) <=> startOfWeek(d) <= n /\ n < startOfWeek(d) + 7
  <1>1. ASSUME startOfWeek(d) <= n, n < startOfWeek(d) + 7
        PROVE  startOfWeek(n) = startOfWeek(d)
    BY <1>1, WeekStart, WeeksApart
  <1>2. QED
    BY <1>1, WeekStart

LEMMA MonthBounds ==
  ASSUME NEW cal, Calendars(cal), NEW d \in Int, NEW m \in Int
  PROVE  /\ cal.monthOf[d] \in Int /\ cal.first[m] \in Int
         /\ cal.monthOf[d] = m <=> cal.first[m] <= d /\ d < cal.first[m + 1]
  BY DEF Calendars

LEMMA MonthOfFirst ==
  ASSUME NEW cal, Calendars(cal), NEW m \in Int
  PROVE  cal.first[m] \in Int /\ cal.monthOf[cal.first[m]] = m
  <1>1. cal.first[m] \in Int /\ cal.first[m] < cal.first[m + 1]
    BY DEF Calendars
  <1>2. cal.first[m] <= cal.first[m]
    BY <1>1
  <1>3. QED
    BY <1>1, <1>2 DEF Calendars

LEMMA Months ==
  ASSUME NEW cal, Calendars(cal), NEW d \in Int
  PROVE  LET m == cal.monthOf[d]
         IN  /\ m \in Int
             /\ resolveSalesPeriod(cal, "MONTH", d) =
                  [start |-> cal.first[m], end |-> cal.first[m + 1],
                   previous |-> cal.first[m - 1], next |-> cal.first[m + 1]]
  <1> DEFINE m == cal.monthOf[d]
  <1>1. m \in Int
    BY DEF Calendars
  <1>2. cal.monthOf[cal.first[m]] = m
    BY <1>1, MonthOfFirst
  <1>3. startOfMonth(cal, d) = cal.first[m]
    BY DEF startOfMonth
  <1>4. /\ addMonths(cal, cal.first[m], 1) = cal.first[m + 1]
        /\ addMonths(cal, cal.first[m], -1) = cal.first[m - 1]
    BY <1>1, <1>2 DEF addMonths
  <1>5. QED
    BY <1>1, <1>3, <1>4 DEF resolveSalesPeriod

--------------------------------------------------------------------------------
\* The period of an anchor contains it, the arrows of the chart lead to the periods before
\* and after it without a gap, and isCurrentPeriod says whether today is in the period.
THEOREM PeriodsTile ==
  ASSUME NEW cal, Calendars(cal), NEW timeline \in Timelines, NEW d \in Int
  PROVE  /\ Within(resolveSalesPeriod(cal, timeline, d), d)
         /\ resolveSalesPeriod(cal, timeline, resolveSalesPeriod(cal, timeline, d).previous).end
              = resolveSalesPeriod(cal, timeline, d).start
         /\ resolveSalesPeriod(cal, timeline, resolveSalesPeriod(cal, timeline, d).next).start
              = resolveSalesPeriod(cal, timeline, d).end
         /\ \A today \in Int :
              resolveSalesPeriod(cal, timeline, today).start = resolveSalesPeriod(cal, timeline, d).start
                <=> Within(resolveSalesPeriod(cal, timeline, d), today)
  <1>1. CASE timeline = "DAY"
    BY <1>1 DEF resolveSalesPeriod, Around, Within
  <1>2. CASE timeline = "WEEK"
    <2>1. \A n \in Int : resolveSalesPeriod(cal, timeline, n) = Around(startOfWeek(n), 7)
      BY <1>2 DEF resolveSalesPeriod
    <2>2. startOfWeek(d) \in Int /\ startOfWeek(d) % 7 = 0
      BY WeekStart
    <2>3. /\ startOfWeek(startOfWeek(d) - 7) = startOfWeek(d) - 7
          /\ startOfWeek(startOfWeek(d) + 7) = startOfWeek(d) + 7
      BY <2>2 DEF startOfWeek, getDay
    <2> DEFINE P(n) == resolveSalesPeriod(cal, timeline, n)
    <2>4. \A n \in Int : /\ P(n).start = startOfWeek(n) /\ P(n).end = startOfWeek(n) + 7
                         /\ P(n).previous = startOfWeek(n) - 7 /\ P(n).next = startOfWeek(n) + 7
      BY <2>1 DEF Around
    <2>5. Within(P(d), d)
      BY <2>4, WeekStart DEF Within
    <2>6. P(P(d).previous).end = P(d).start /\ P(P(d).next).start = P(d).end
      <3>1. startOfWeek(d) - 7 \in Int /\ startOfWeek(d) + 7 \in Int
        BY <2>2
      <3>2. P(startOfWeek(d) - 7).end = startOfWeek(d) - 7 + 7 /\ P(startOfWeek(d) + 7).start = startOfWeek(d) + 7
        BY <2>3, <2>4, <3>1
      <3>3. QED
        BY <2>2, <2>4, <3>2
    <2>7. \A today \in Int : P(today).start = P(d).start <=> Within(P(d), today)
      BY <2>4, WeekOf DEF Within
    <2>8. QED
      BY <2>5, <2>6, <2>7
  <1>3. CASE timeline = "MONTH"
    <2> DEFINE m == cal.monthOf[d]
    <2>1. \A n \in Int : LET k == cal.monthOf[n]
                         IN  /\ k \in Int
                             /\ resolveSalesPeriod(cal, timeline, n) =
                                  [start |-> cal.first[k], end |-> cal.first[k + 1],
                                   previous |-> cal.first[k - 1], next |-> cal.first[k + 1]]
      BY <1>3, Months
    <2>2. /\ m \in Int /\ m - 1 \in Int /\ m + 1 \in Int /\ (m - 1) + 1 = m
          /\ resolveSalesPeriod(cal, timeline, d) =
               [start |-> cal.first[m], end |-> cal.first[m + 1],
                previous |-> cal.first[m - 1], next |-> cal.first[m + 1]]
      BY <2>1
    <2>3. /\ Within(resolveSalesPeriod(cal, timeline, d), d)
          /\ \A n \in Int : Within(resolveSalesPeriod(cal, timeline, d), n)
                           <=> cal.first[m] <= n /\ n < cal.first[m + 1]
      <3>1. \A n \in Int : Within(resolveSalesPeriod(cal, timeline, d), n)
                           <=> cal.first[m] <= n /\ n < cal.first[m + 1]
        BY <2>2 DEF Within
      <3>2. cal.first[m] <= d /\ d < cal.first[m + 1]
        BY <2>2, MonthBounds
      <3>3. QED
        BY <3>1, <3>2
    <2>4. /\ cal.first[m - 1] \in Int /\ cal.monthOf[cal.first[m - 1]] = m - 1
          /\ cal.first[m + 1] \in Int /\ cal.monthOf[cal.first[m + 1]] = m + 1
      BY <2>2, MonthOfFirst
    <2>5. resolveSalesPeriod(cal, timeline, cal.first[m - 1]).end = cal.first[m]
      BY <2>1, <2>2, <2>4
    <2>6. resolveSalesPeriod(cal, timeline, cal.first[m + 1]).start = cal.first[m + 1]
      BY <2>1, <2>4
    <2>7. ASSUME NEW n \in Int
          PROVE  resolveSalesPeriod(cal, timeline, n).start = cal.first[m]
                   <=> Within(resolveSalesPeriod(cal, timeline, d), n)
      <3>1. cal.monthOf[n] \in Int /\ resolveSalesPeriod(cal, timeline, n).start = cal.first[cal.monthOf[n]]
        BY <2>1
      <3>2. cal.first[cal.monthOf[n]] = cal.first[m] => cal.monthOf[n] = m
        BY <2>2, <3>1, MonthOfFirst
      <3>3. cal.monthOf[n] = m <=> Within(resolveSalesPeriod(cal, timeline, d), n)
        BY <2>2, <2>3, MonthBounds
      <3>4. QED
        BY <3>1, <3>2, <3>3
    <2>8. QED
      BY <2>2, <2>3, <2>5, <2>6, <2>7
  <1>4. QED
    BY <1>1, <1>2, <1>3 DEF Timelines

--------------------------------------------------------------------------------
LEMMA HourOfMinutes ==
  ASSUME NEW e \in Nat
  PROVE  e \div 60 \in Nat /\ 60 * (e \div 60) <= e /\ e < 60 * (e \div 60) + 60
  OBVIOUS

\* Every order of the period has a bucket, so that the total is the sum of the bars, and
\* the bucket is the one whose interval the order was placed in; an order of a repeated
\* hour's second pass is counted in the bucket of the first.
THEOREM OrdersHaveBuckets ==
  ASSUME NEW timeline \in Timelines, NEW period \in [start: Int, end: Int, previous: Int, next: Int],
         timeline = "DAY" => period.end = period.start + 1,
         NEW clock \in Clocks, NEW d \in Int, Within(period, d),
         NEW e \in Nat, e < MinutesOf(clock)
  PROVE  /\ getBucketIndex(timeline, period, clock, d, e) \in buildSalesBuckets(timeline, period)
         /\ \/ InBucket(timeline, period, clock, getBucketIndex(timeline, period, clock, d, e), d, e)
            \/ timeline = "DAY" /\ SecondPass(clock, e)
  <1>1. CASE timeline # "DAY"
    BY <1>1 DEF Within, getBucketIndex, buildSalesBuckets, InBucket
  <1>2. CASE timeline = "DAY"
    <2> DEFINE h == e \div 60
    <2>1. h \in Nat /\ 60 * h <= e /\ e < 60 * h + 60
      BY HourOfMinutes
    <2>2. d = period.start
      BY <1>2 DEF Within
    <2>3. clock.change \in {"none", "skips", "repeats"} /\ clock.hour \in 0..23
      BY DEF Clocks
    <2> HIDE DEF h
    <2>4. CASE clock.change = "none"
      <3>1. h < 24 /\ getHours(clock, e) = h /\ AtHour(clock, h) = 60 * h
        BY <2>1, <2>4 DEF MinutesOf, getHours, AtHour, h
      <3>2. QED
        BY <1>2, <2>1, <2>2, <3>1 DEF getBucketIndex, buildSalesBuckets, InBucket
    <2>5. CASE clock.change = "skips"
      <3>1. h < 23 /\ getHours(clock, e) = IF h < clock.hour THEN h ELSE h + 1
        BY <2>1, <2>5 DEF MinutesOf, getHours, h
      <3>2. AtHour(clock, getHours(clock, e)) = 60 * h
        BY <2>1, <2>3, <2>5, <3>1 DEF AtHour
      <3>3. getHours(clock, e) \in 0..23
        BY <2>1, <2>3, <3>1
      <3>4. QED
        BY <1>2, <2>1, <2>2, <3>2, <3>3 DEF getBucketIndex, buildSalesBuckets, InBucket
    <2>6. CASE clock.change = "repeats"
      <3>1. h < 25 /\ getHours(clock, e) = IF h <= clock.hour THEN h ELSE h - 1
        BY <2>1, <2>6 DEF MinutesOf, getHours, h
      <3>2. h = clock.hour + 1 => SecondPass(clock, e)
        BY <2>6 DEF SecondPass, h
      <3>3. h # clock.hour + 1 => AtHour(clock, getHours(clock, e)) = 60 * h
        BY <2>1, <2>3, <2>6, <3>1 DEF AtHour
      <3>4. getHours(clock, e) \in 0..23
        BY <2>1, <2>3, <3>1
      <3>5. QED
        BY <1>2, <2>1, <2>2, <3>2, <3>3, <3>4 DEF getBucketIndex, buildSalesBuckets, InBucket
    <2>7. QED
      BY <2>3, <2>4, <2>5, <2>6
  <1>3. QED
    BY <1>1, <1>2
================================================================================
