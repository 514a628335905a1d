-------------------------- MODULE PeriodicNotesProofs --------------------------
(***************************************************************************)
(* Periodic notes for any number of requests, any configurations, calls    *)
(* for any number of periods, and every day of the calendar: that a year   *)
(* is found for each day and only one, that dates and days correspond,     *)
(* what an offset of some days, weeks, months or quarters arrives at, and  *)
(* on these facts the three properties of the run.                         *)
(***************************************************************************)
EXTENDS PeriodicNotes, TLAPS

\* The months, and the table of the days before them, as names the provers can keep
\* folded.
Twelve    == 1..12
Before(m) == BeforeMonth[m]

LEMMA MonthTable ==
    /\ Before(1) = 0    /\ Before(2) = 31   /\ Before(3) = 59
    /\ Before(4) = 90   /\ Before(5) = 120  /\ Before(6) = 151
    /\ Before(7) = 181  /\ Before(8) = 212  /\ Before(9) = 243
    /\ Before(10) = 273 /\ Before(11) = 304 /\ Before(12) = 334
BY DEF Before, BeforeMonth

LEMMA MonthCases ==
    ASSUME NEW m \in Twelve
    PROVE  /\ m \in Int /\ 1 <= m /\ m <= 12
           /\ \/ m = 1 \/ m = 2 \/ m = 3 \/ m = 4 \/ m = 5 \/ m = 6
              \/ m = 7 \/ m = 8 \/ m = 9 \/ m = 10 \/ m = 11 \/ m = 12
BY DEF Twelve

LEMMA MonthIs ==
    ASSUME NEW m \in Int, 1 <= m, m <= 12
    PROVE  m \in Twelve
BY DEF Twelve

LEMMA MonthBounds ==
    ASSUME NEW m \in Twelve
    PROVE  Before(m) \in Int /\ 0 <= Before(m) /\ Before(m) <= 334
BY MonthTable, MonthCases

LEMMA LeapsIsInt ==
    ASSUME NEW y \in Int
    PROVE  LeapsBefore(y) \in Int
BY DEF LeapsBefore

LEMMA Leaps1970 == LeapsBefore(1970) = 477
BY DEF LeapsBefore

\* The leap day of a year comes before the next year.
LEMMA LeapsStep ==
    ASSUME NEW y \in Int
    PROVE  LeapsBefore(y + 1) = LeapsBefore(y) + IF Leap(y) THEN 1 ELSE 0
BY DEF LeapsBefore, Leap

LEMMA LeapsMonotone ==
    ASSUME NEW y \in Int, NEW z \in Int, y <= z
    PROVE  LeapsBefore(y) <= LeapsBefore(z)
BY DEF LeapsBefore

\* The mean is 97 leap years in 400.
LEMMA LeapsMean ==
    ASSUME NEW y \in Int
    PROVE  /\ 400 * LeapsBefore(y) <= 97 * (y - 1) + 699
           /\ 400 * LeapsBefore(y) >= 97 * (y - 1) - 699
BY DEF LeapsBefore

\* Years from 1 January to 1 January.
LEMMA Jan1 ==
    ASSUME NEW y \in Int
    PROVE  Days(y, 1, 1) = 365 * (y - 1970) + LeapsBefore(y) - 477
<1>1. ~ (1 > 2)
  OBVIOUS
<1>2. LeapsBefore(y) \in Int
  BY LeapsIsInt
<1> QED
  BY <1>1, <1>2, MonthTable, Leaps1970 DEF Days, Before

\* The leap day, once it has passed.
LeapDay(y, m) == IF m > 2 /\ Leap(y) THEN 1 ELSE 0

LEMMA LeapDayIs ==
    ASSUME NEW y \in Int, NEW m \in Twelve
    PROVE  LeapDay(y, m) \in 0..1 /\ (m <= 2 => LeapDay(y, m) = 0) /\ (m > 2 => LeapDay(y, m) = LeapDay(y, 12))
BY MonthCases DEF LeapDay

LEMMA Jan1Int ==
    ASSUME NEW y \in Int
    PROVE  Days(y, 1, 1) \in Int
BY Jan1, LeapsIsInt

LEMMA YearLength ==
    ASSUME NEW y \in Int
    PROVE  /\ Days(y, 1, 1) \in Int
           /\ Days(y + 1, 1, 1) = Days(y, 1, 1) + 365 + LeapDay(y, 12)
           /\ LeapDay(y, 12) \in 0..1
<1>1. LeapsBefore(y + 1) = LeapsBefore(y) + LeapDay(y, 12)
  BY LeapsStep DEF LeapDay
<1>2. 12 \in Twelve /\ y + 1 \in Int
  BY MonthIs
<1>3. LeapDay(y, 12) \in 0..1
  BY <1>2, LeapDayIs
<1>4. LeapsBefore(y) \in Int
  BY LeapsIsInt
<1>5. /\ Days(y, 1, 1) = 365 * (y - 1970) + LeapsBefore(y) - 477
      /\ Days(y + 1, 1, 1) = 365 * ((y + 1) - 1970) + LeapsBefore(y + 1) - 477
  BY <1>2, Jan1
<1> QED
  BY <1>1, <1>3, <1>4, <1>5

LEMMA YearsInOrder ==
    ASSUME NEW y \in Int, NEW z \in Int, y < z
    PROVE  Days(y + 1, 1, 1) <= Days(z, 1, 1)
BY Jan1, LeapsIsInt, LeapsMonotone

LEMMA YearExists ==
    ASSUME NEW n \in Int
    PROVE  \E y \in MeanYear(n) - 1..MeanYear(n) + 1 :
              Days(y, 1, 1) <= n /\ n < Days(y + 1, 1, 1)
<1> DEFINE q == (400 * n) \div 146097
           Y == 1970 + q
<1>1. q \in Int /\ 146097 * q <= 400 * n /\ 400 * n < 146097 * q + 146097
  OBVIOUS
<1>2. Y \in Int /\ Y - 1 \in Int /\ Y + 1 \in Int /\ Y + 2 \in Int
  BY <1>1
<1> HIDE DEF q
<1>3. 400 * Days(Y, 1, 1) <= 146000 * q + 97 * (q + 1969) + 699 - 190800
  BY <1>1, <1>2, Jan1, LeapsIsInt, LeapsMean
<1>4. 400 * Days(Y, 1, 1) >= 146000 * q + 97 * (q + 1969) - 699 - 190800
  BY <1>1, <1>2, Jan1, LeapsIsInt, LeapsMean
<1>5. Days(Y, 1, 1) \in Int /\ Days(Y - 1, 1, 1) \in Int /\ Days(Y + 1, 1, 1) \in Int
      /\ Days(Y + 2, 1, 1) \in Int
  BY <1>2, YearLength
<1>6. Days(Y, 1, 1) <= n + 2 /\ n < Days(Y, 1, 1) + 369
  BY <1>1, <1>3, <1>4, <1>5
<1>7. /\ Days(Y, 1, 1) >= Days(Y - 1, 1, 1) + 365
      /\ Days(Y + 1, 1, 1) >= Days(Y, 1, 1) + 365
      /\ Days(Y + 2, 1, 1) >= Days(Y + 1, 1, 1) + 365
  <2>1. Days((Y - 1) + 1, 1, 1) = Days(Y, 1, 1) /\ Days((Y + 1) + 1, 1, 1) = Days(Y + 2, 1, 1)
    <3>1. (Y - 1) + 1 = Y /\ (Y + 1) + 1 = Y + 2
      BY <1>2
    <3> QED
      BY <3>1
  <2> QED
    BY <1>2, <1>5, <2>1, YearLength
<1> HIDE DEF Y
<1>8. CASE n < Days(Y, 1, 1)
  <2>1. Days(Y - 1, 1, 1) <= n /\ (Y - 1) + 1 = Y
    BY <1>2, <1>5, <1>6, <1>7, <1>8
  <2> QED
    BY <2>1, <1>2, <1>8 DEF Y, q, MeanYear
<1>9. CASE Days(Y, 1, 1) <= n /\ n < Days(Y + 1, 1, 1)
  BY <1>2, <1>9 DEF Y, q, MeanYear
<1>10. CASE Days(Y + 1, 1, 1) <= n
  <2>1. n < Days(Y + 2, 1, 1) /\ (Y + 1) + 1 = Y + 2
    BY <1>2, <1>5, <1>6, <1>7, <1>10
  <2> QED
    BY <2>1, <1>2, <1>10 DEF Y, q, MeanYear
<1> QED
  BY <1>5, <1>8, <1>9, <1>10

LEMMA YearOf ==
    ASSUME NEW n \in Int
    PROVE  /\ Year(n) \in Int
           /\ Days(Year(n), 1, 1) <= n /\ n < Days(Year(n) + 1, 1, 1)
<1>1. /\ Year(n) \in MeanYear(n) - 1..MeanYear(n) + 1
      /\ Days(Year(n), 1, 1) <= n /\ n < Days(Year(n) + 1, 1, 1)
  BY YearExists, Zenon DEF Year
<1>2. MeanYear(n) \in Int
  BY DEF MeanYear
<1> QED
  BY <1>1, <1>2

LEMMA YearIs ==
    ASSUME NEW n \in Int, NEW y \in Int, Days(y, 1, 1) <= n, n < Days(y + 1, 1, 1)
    PROVE  Year(n) = y
<1>1. CASE Year(n) < y
  BY <1>1, YearOf, YearsInOrder, YearLength
<1>2. CASE y < Year(n)
  BY <1>2, YearOf, YearsInOrder, YearLength
<1> QED
  BY <1>1, <1>2, YearOf

------------------------------------------------------------------------------
\* Months, numbered through the years

FirstOf(k) == Days(k \div 12, (k % 12) + 1, 1)
MonthNo(n) == 12 * Year(n) + Month(n) - 1

LEMMA DaysOfYear ==
    ASSUME NEW y \in Int, NEW m \in Twelve, NEW d \in Int
    PROVE  /\ Days(y, m, d) \in Int
           /\ Days(y, m, d) = Days(y, 1, 1) + Before(m) + LeapDay(y, m) + d - 1
<1>1. LeapsBefore(y) \in Int /\ Before(m) \in Int /\ LeapDay(y, m) \in Int
  BY LeapsIsInt, MonthBounds, LeapDayIs
<1>2. Days(y, m, d) = 365 * (y - 1970) + LeapsBefore(y) - 477
                      + Before(m) + LeapDay(y, m) + d - 1
  BY Leaps1970 DEF Days, LeapDay, Before
<1> QED
  BY <1>1, <1>2, Jan1

LEMMA DaysInt ==
    ASSUME NEW y \in Int, NEW m \in Twelve
    PROVE  Days(y, m, 1) \in Int
<1>1. 1 \in Int
  OBVIOUS
<1> QED
  BY <1>1, DaysOfYear, Zenon

LEMMA DaysAdd ==
    ASSUME NEW y \in Int, NEW m \in Twelve, NEW d \in Int
    PROVE  Days(y, m, d) = Days(y, m, 1) + d - 1
<1>1. Before(m) \in Int /\ Days(y, 1, 1) \in Int /\ LeapDay(y, m) \in Int
  BY MonthBounds, YearLength, LeapDayIs
<1>2. /\ Days(y, m, d) = Days(y, 1, 1) + Before(m) + LeapDay(y, m) + d - 1
      /\ Days(y, m, 1) = Days(y, 1, 1) + Before(m) + LeapDay(y, m) + 1 - 1
  BY DaysOfYear
<1> QED
  BY <1>1, <1>2

LEMMA MonthLengths ==
    ASSUME NEW y \in Int
    PROVE  /\ \A m \in Twelve \ {12} : /\ Days(y, m, 1) + 28 <= Days(y, m + 1, 1)
                               /\ Days(y, m + 1, 1) <= Days(y, m, 1) + 31
           /\ Days(y + 1, 1, 1) = Days(y, 12, 1) + 31
<1>1. Days(y, 1, 1) \in Int
  BY YearLength
<1>2. ASSUME NEW m \in Twelve
      PROVE  /\ Days(y, m, 1) = Days(y, 1, 1) + Before(m) + LeapDay(y, m)
             /\ Before(m) \in Int /\ LeapDay(y, m) \in 0..1
             /\ (m <= 2 => LeapDay(y, m) = 0) /\ (m > 2 => LeapDay(y, m) = LeapDay(y, 12))
  <2>1. Days(y, m, 1) = Days(y, 1, 1) + Before(m) + LeapDay(y, m) + 1 - 1
    BY DaysOfYear
  <2>2. Before(m) \in Int
    BY MonthBounds
  <2> QED
    BY <1>1, <2>1, <2>2, LeapDayIs
<1>3. Days(y + 1, 1, 1) = Days(y, 1, 1) + 365 + LeapDay(y, 12)
  BY YearLength
<1>4. ASSUME NEW m \in Twelve, m # 12
      PROVE  /\ Days(y, m, 1) + 28 <= Days(y, m + 1, 1)
             /\ Days(y, m + 1, 1) <= Days(y, m, 1) + 31
  <2>1. m + 1 \in Twelve
    BY MonthCases, MonthIs, <1>4
  <2> QED
    BY <1>1, <1>2, <1>4, <2>1, MonthCases, MonthTable
<1>5. 12 \in Twelve
  BY MonthIs
<1> QED
  BY <1>1, <1>2, <1>3, <1>4, <1>5, MonthTable

LEMMA FirstOfIs ==
    ASSUME NEW y \in Int, NEW m \in Twelve, NEW k \in Int, k = 12 * y + m - 1
    PROVE  FirstOf(k) = Days(y, m, 1)
<1>1. k \div 12 = y /\ (k % 12) + 1 = m
  BY MonthCases
<1> QED
  BY <1>1 DEF FirstOf

LEMMA YearAndMonth ==
    ASSUME NEW k \in Int
    PROVE  /\ k \div 12 \in Int /\ (k % 12) + 1 \in Twelve
           /\ k = 12 * (k \div 12) + ((k % 12) + 1) - 1
BY DEF Twelve

LEMMA InYear ==
    ASSUME NEW y \in Int, NEW m \in Int, 1 <= m, m <= 12
    PROVE  /\ (12 * y + m - 1) \div 12 = y
           /\ m # 12 => ((12 * y + m - 1) + 1) \div 12 = y
OBVIOUS

LEMMA FirstsInOrder ==
    ASSUME NEW k \in Int
    PROVE  /\ FirstOf(k) \in Int
           /\ FirstOf(k) + 28 <= FirstOf(k + 1) /\ FirstOf(k + 1) <= FirstOf(k) + 31
<1>1. PICK y \in Int, m \in Twelve : k = 12 * y + m - 1
  BY YearAndMonth
<1>2. FirstOf(k) = Days(y, m, 1)
  BY <1>1, FirstOfIs
<1>3. Days(y, m, 1) \in Int
  BY DaysInt, Zenon
<1>4. CASE m = 12
  <2>1. k + 1 = 12 * (y + 1) + 1 - 1 /\ y + 1 \in Int /\ 1 \in Twelve /\ k + 1 \in Int
    BY <1>1, <1>4, MonthIs
  <2>2. FirstOf(k + 1) = Days(y + 1, 1, 1)
    BY <2>1, FirstOfIs
  <2>3. Days(y + 1, 1, 1) = Days(y, 12, 1) + 31
    BY MonthLengths
  <2> QED
    BY <1>2, <1>3, <1>4, <2>2, <2>3
<1>5. CASE m # 12
  <2>1. k + 1 = 12 * y + (m + 1) - 1 /\ m + 1 \in Twelve /\ k + 1 \in Int
    BY <1>1, <1>5, MonthCases, MonthIs
  <2>2. FirstOf(k + 1) = Days(y, m + 1, 1)
    BY <2>1, FirstOfIs
  <2>3. /\ Days(y, m, 1) + 28 <= Days(y, m + 1, 1)
        /\ Days(y, m + 1, 1) <= Days(y, m, 1) + 31
    BY <1>5, MonthLengths
  <2>4. Days(y, m + 1, 1) \in Int
    BY <2>1, DaysInt, Zenon
  <2> QED
    BY <1>2, <1>3, <2>2, <2>3, <2>4
<1> QED
  BY <1>4, <1>5

LEMMA WithinYear ==
    ASSUME NEW y \in Int, NEW l \in Twelve, NEW m \in Twelve, l <= m
    PROVE  /\ Days(y, l, 1) \in Int /\ Days(y, m, 1) \in Int
           /\ Days(y, 1, 1) <= Days(y, l, 1) /\ Days(y, l, 1) <= Days(y, m, 1)
           /\ Days(y, m, 1) < Days(y + 1, 1, 1)
<1>1. Days(y, 1, 1) \in Int
  BY YearLength
<1>2. ASSUME NEW k \in Twelve
      PROVE  /\ Days(y, k, 1) = Days(y, 1, 1) + Before(k) + LeapDay(y, k)
             /\ Before(k) \in Int /\ LeapDay(y, k) \in 0..1
             /\ (k <= 2 => LeapDay(y, k) = 0) /\ (k > 2 => LeapDay(y, k) = LeapDay(y, 12))
  <2>1. Days(y, k, 1) = Days(y, 1, 1) + Before(k) + LeapDay(y, k) + 1 - 1
    BY DaysOfYear
  <2> QED
    BY <1>1, <2>1, MonthBounds, LeapDayIs
<1>3. Days(y + 1, 1, 1) = Days(y, 1, 1) + 365 + LeapDay(y, 12)
  BY YearLength
<1>4. Before(l) <= Before(m) /\ 0 <= Before(l) /\ Before(m) <= 334
  BY MonthCases, MonthTable
<1>5. LeapDay(y, l) <= LeapDay(y, m) /\ LeapDay(y, m) \in 0..1 /\ LeapDay(y, l) \in 0..1
  BY <1>2, MonthCases
<1>6. LeapDay(y, 12) \in 0..1
  BY YearLength
<1>7. /\ Days(y, l, 1) = Days(y, 1, 1) + Before(l) + LeapDay(y, l)
      /\ Days(y, m, 1) = Days(y, 1, 1) + Before(m) + LeapDay(y, m)
      /\ Before(l) \in Int /\ Before(m) \in Int
  BY <1>2
<1> QED
  BY <1>1, <1>3, <1>4, <1>5, <1>6, <1>7

LEMMA FirstsWeak ==
    ASSUME NEW j \in Int, NEW k \in Int, j <= k
    PROVE  FirstOf(j) <= FirstOf(k)
<1>1. PICK y \in Int, l \in Twelve : j = 12 * y + l - 1
  BY YearAndMonth
<1>2. PICK z \in Int, m \in Twelve : k = 12 * z + m - 1
  BY YearAndMonth
<1>3. FirstOf(j) = Days(y, l, 1) /\ FirstOf(k) = Days(z, m, 1)
  BY <1>1, <1>2, FirstOfIs
<1>4. l \in Int /\ m \in Int /\ 1 <= l /\ l <= 12 /\ 1 <= m /\ m <= 12
  BY MonthCases
<1>5. CASE y = z
  <2>1. l <= m
    BY <1>1, <1>2, <1>4, <1>5
  <2> QED
    BY <1>3, <1>5, <2>1, WithinYear
<1>6. CASE y # z
  <2>1. y < z /\ l <= l /\ m <= m
    BY <1>1, <1>2, <1>4, <1>6
  <2>2. Days(y, l, 1) \in Int /\ Days(y, l, 1) < Days(y + 1, 1, 1)
    BY <2>1, WithinYear
  <2>3. Days(z, m, 1) \in Int /\ Days(z, 1, 1) <= Days(z, m, 1)
    BY <2>1, WithinYear
  <2>4. Days(y + 1, 1, 1) <= Days(z, 1, 1)
    BY <2>1, YearsInOrder
  <2>5. Days(y + 1, 1, 1) \in Int /\ Days(z, 1, 1) \in Int
    BY Jan1Int
  <2> QED
    BY <1>3, <2>2, <2>3, <2>4, <2>5
<1> QED
  BY <1>5, <1>6

\* Every day is in one month.
LEMMA MonthOf ==
    ASSUME NEW n \in Int
    PROVE  /\ Month(n) \in Twelve /\ Year(n) \in Int /\ MonthNo(n) \in Int
           /\ FirstOf(MonthNo(n)) = Days(Year(n), Month(n), 1)
           /\ FirstOf(MonthNo(n)) <= n /\ n < FirstOf(MonthNo(n) + 1)
           /\ Day(n) \in Int /\ 1 <= Day(n) /\ Day(n) <= 31 /\ n = FirstOf(MonthNo(n)) + Day(n) - 1
<1> DEFINE y == Year(n)
<1>1. y \in Int /\ Days(y, 1, 1) <= n /\ n < Days(y + 1, 1, 1)
  BY YearOf
<1> HIDE DEF y
<1>2. \A m \in Twelve : Days(y, m, 1) \in Int
  BY <1>1, DaysInt, Zenon
<1>3. Days(y + 1, 1, 1) = Days(y, 12, 1) + 31 /\ Days(y, 12, 1) \in Int
  BY <1>1, <1>2, MonthLengths, MonthIs
<1>4. /\ 1 \in Twelve /\ 2 \in Twelve /\ 3 \in Twelve /\ 4 \in Twelve /\ 5 \in Twelve /\ 6 \in Twelve
      /\ 7 \in Twelve /\ 8 \in Twelve /\ 9 \in Twelve /\ 10 \in Twelve /\ 11 \in Twelve /\ 12 \in Twelve
  BY MonthIs
<1>5. \E m \in Twelve : Days(y, m, 1) <= n /\ (m < 12 => n < Days(y, m + 1, 1))
  <2>1. CASE Days(y, 12, 1) <= n
    BY <1>4, <2>1
  <2>2. CASE n < Days(y, 12, 1)
    <3>1. SUFFICES ASSUME \A m \in Twelve : Days(y, m, 1) <= n => m < 12 /\ Days(y, m + 1, 1) <= n
                   PROVE  FALSE
      BY <1>1, <1>2, <2>2, MonthCases, MonthIs
    <3>2. Days(y, 2, 1) <= n /\ Days(y, 3, 1) <= n /\ Days(y, 4, 1) <= n
      BY <1>1, <1>4, <3>1
    <3>3. Days(y, 5, 1) <= n /\ Days(y, 6, 1) <= n /\ Days(y, 7, 1) <= n
      BY <3>2, <1>4, <3>1
    <3>4. Days(y, 8, 1) <= n /\ Days(y, 9, 1) <= n /\ Days(y, 10, 1) <= n
      BY <3>3, <1>4, <3>1
    <3>5. Days(y, 11, 1) <= n /\ Days(y, 12, 1) <= n
      BY <3>4, <1>4, <3>1
    <3> QED
      BY <3>5, <1>4, <3>1
  <2> QED
    BY <1>3, <2>1, <2>2
<1>6. Month(n) \in Twelve /\ Days(y, Month(n), 1) <= n /\ (Month(n) < 12 => n < Days(y, Month(n) + 1, 1))
  BY <1>5 DEF Month, y, Twelve
<1>7. MonthNo(n) = 12 * y + Month(n) - 1 /\ MonthNo(n) \in Int
  BY <1>1, <1>6, MonthCases DEF MonthNo, y
<1>8. FirstOf(MonthNo(n)) = Days(y, Month(n), 1) /\ Days(y, Month(n), 1) \in Int
  BY <1>1, <1>2, <1>6, <1>7, FirstOfIs
<1>9. n < FirstOf(MonthNo(n) + 1)
  <2>1. CASE Month(n) = 12
    <3>1. MonthNo(n) + 1 = 12 * (y + 1) + 1 - 1 /\ y + 1 \in Int
      BY <2>1, <1>1, <1>7
    <3>2. FirstOf(MonthNo(n) + 1) = Days(y + 1, 1, 1)
      BY <3>1, <1>4, <1>7, FirstOfIs
    <3> QED
      BY <3>2, <1>1
  <2>2. CASE Month(n) # 12
    <3>1. Month(n) + 1 \in Twelve /\ Month(n) < 12 /\ MonthNo(n) + 1 = 12 * y + (Month(n) + 1) - 1
      BY <2>2, <1>1, <1>6, <1>7, MonthCases, MonthIs
    <3>2. FirstOf(MonthNo(n) + 1) = Days(y, Month(n) + 1, 1)
      BY <3>1, <1>1, <1>7, FirstOfIs
    <3> QED
      BY <3>1, <3>2, <1>6
  <2> QED
    BY <2>1, <2>2
<1>10. FirstOf(MonthNo(n) + 1) <= FirstOf(MonthNo(n)) + 31 /\ FirstOf(MonthNo(n)) \in Int
       /\ FirstOf(MonthNo(n) + 1) \in Int
  BY <1>7, FirstsInOrder
<1>11. Day(n) = n - FirstOf(MonthNo(n)) + 1
  BY <1>8 DEF Day, y
<1> QED
  BY <1>1, <1>6, <1>7, <1>8, <1>9, <1>10, <1>11 DEF y

LEMMA MonthNoIs ==
    ASSUME NEW n \in Int, NEW k \in Int, FirstOf(k) <= n, n < FirstOf(k + 1)
    PROVE  MonthNo(n) = k
<1>1. /\ MonthNo(n) \in Int /\ FirstOf(MonthNo(n)) <= n /\ n < FirstOf(MonthNo(n) + 1)
  BY MonthOf
<1>2. /\ FirstOf(k) \in Int /\ FirstOf(k + 1) \in Int
      /\ FirstOf(MonthNo(n)) \in Int /\ FirstOf(MonthNo(n) + 1) \in Int
  BY <1>1, FirstsInOrder
<1>3. CASE MonthNo(n) < k
  <2>1. FirstOf(MonthNo(n) + 1) <= FirstOf(k)
    BY <1>1, <1>3, FirstsWeak
  <2> QED
    BY <1>1, <1>2, <2>1
<1>4. CASE k < MonthNo(n)
  <2>1. FirstOf(k + 1) <= FirstOf(MonthNo(n))
    BY <1>1, <1>4, FirstsWeak
  <2> QED
    BY <1>1, <1>2, <2>1
<1> QED
  BY <1>1, <1>3, <1>4

LEMMA OfMonthNo ==
    ASSUME NEW n \in Int
    PROVE  /\ Year(n) = MonthNo(n) \div 12 /\ Month(n) = (MonthNo(n) % 12) + 1
           /\ (Month(n) - 1) \div 3 \in 0..3
           /\ 4 * Year(n) + ((Month(n) - 1) \div 3) = MonthNo(n) \div 3
<1>1. Month(n) \in Twelve /\ Year(n) \in Int
  BY MonthOf
<1>2. Month(n) \in Int /\ 1 <= Month(n) /\ Month(n) <= 12
  BY <1>1, MonthCases
<1> QED
  BY <1>1, <1>2 DEF MonthNo

------------------------------------------------------------------------------
\* Going back in the calendar

LEMMA AddDateIs ==
    ASSUME NEW n \in Int, NEW years \in Int, NEW months \in Int, NEW days \in Int
    PROVE  AddDate(n, years, months, days)
           = FirstOf(MonthNo(n) + 12 * years + months) + Day(n) + days - 1
<1> DEFINE m == Month(n) - 1 + months
           k == MonthNo(n) + 12 * years + months
           y == Year(n) + years + (m \div 12)
<1>1. Month(n) \in Int /\ Year(n) \in Int /\ MonthNo(n) \in Int /\ Day(n) \in Int
  BY MonthOf, MonthCases
<1>2. m \in Int /\ m \div 12 \in Int /\ (m % 12) + 1 \in Twelve /\ m = 12 * (m \div 12) + ((m % 12) + 1) - 1
  BY <1>1, YearAndMonth
<1>3. k = 12 * (Year(n) + years) + m /\ k \in Int
  BY <1>1 DEF MonthNo
<1>4. AddDate(n, years, months, days) = Days(y, (m % 12) + 1, Day(n) + days)
  BY DEF AddDate
<1>5. y \in Int /\ k = 12 * y + ((m % 12) + 1) - 1
  BY <1>1, <1>2, <1>3
<1> HIDE DEF m, k, y
<1>6. FirstOf(k) = Days(y, (m % 12) + 1, 1)
  BY <1>2, <1>3, <1>5, FirstOfIs
<1>7. Days(y, (m % 12) + 1, Day(n) + days) = Days(y, (m % 12) + 1, 1) + (Day(n) + days) - 1
  BY <1>1, <1>2, <1>5, DaysAdd
<1>8. Days(y, (m % 12) + 1, 1) \in Int
  BY <1>2, <1>5, DaysInt
<1> QED
  BY <1>1, <1>4, <1>6, <1>7, <1>8 DEF k

\* What an offset of k periods does: it moves a date by k periods, except that in the
\* last days of a month it may go one month too far.
LEMMA OffsetIs ==
    ASSUME NEW g \in Granularity, NEW n \in Int, NEW k \in Int
    PROVE  /\ applyOffset(g, n, k) \in Int
           /\ g = "daily" => applyOffset(g, n, k) = n + k
           /\ Period(g, n) \in Int /\ Period(g, applyOffset(g, n, k)) \in Int
           /\ Period(g, applyOffset(g, n, k)) - (Period(g, n) + k)
                 \in IF g \in {"monthly", "quarterly"} /\ Day(n) > 28 THEN {0, 1} ELSE {0}
<1> DEFINE M == MonthNo(n)
<1>1. /\ M \in Int /\ Day(n) \in Int /\ 1 <= Day(n) /\ Day(n) <= 31
      /\ n = FirstOf(M) + Day(n) - 1 /\ n < FirstOf(M + 1)
      /\ Month(n) \in Int /\ Year(n) \in Int /\ Month(n) \in Twelve
  BY MonthOf, MonthCases
<1> HIDE DEF M
<1>2. CASE g = "daily"
  <2>1. applyOffset(g, n, k) = FirstOf(M + 12 * 0 + 0) + Day(n) + k - 1
    <3>1. applyOffset(g, n, k) = AddDate(n, 0, 0, k)
      BY <1>2 DEF applyOffset
    <3>2. AddDate(n, 0, 0, k) = FirstOf(M + 12 * 0 + 0) + Day(n) + k - 1
      BY <1>1, AddDateIs DEF M
    <3> QED
      BY <3>1, <3>2
  <2>2. applyOffset(g, n, k) = n + k
    BY <2>1, <1>1, FirstsInOrder
  <2> QED
    BY <1>2, <2>2 DEF Period
<1>3. CASE g = "weekly"
  <2>1. applyOffset(g, n, k) = FirstOf(M + 12 * 0 + 0) + Day(n) + 7 * k - 1
    <3>1. applyOffset(g, n, k) = AddDate(n, 0, 0, 7 * k)
      BY <1>3 DEF applyOffset
    <3>2. AddDate(n, 0, 0, 7 * k) = FirstOf(M + 12 * 0 + 0) + Day(n) + 7 * k - 1
      BY <1>1, AddDateIs DEF M
    <3> QED
      BY <3>1, <3>2
  <2>2. applyOffset(g, n, k) = n + 7 * k
    BY <2>1, <1>1, FirstsInOrder
  <2>3. (n + 7 * k + 3) \div 7 = ((n + 3) \div 7) + k
    OBVIOUS
  <2> QED
    BY <1>3, <2>2, <2>3 DEF Period
<1>4. ASSUME NEW j \in Int, NEW d \in Int, d = FirstOf(j) + Day(n) - 1
      PROVE  /\ MonthNo(d) \in {j, j + 1}
             /\ Day(n) <= 28 => MonthNo(d) = j
  <2>1. j + 1 \in Int /\ (j + 1) + 1 \in Int
    OBVIOUS
  <2>2. /\ FirstOf(j) \in Int /\ FirstOf(j) + 28 <= FirstOf(j + 1)
        /\ FirstOf(j + 1) \in Int /\ FirstOf(j + 1) + 28 <= FirstOf((j + 1) + 1)
        /\ FirstOf((j + 1) + 1) \in Int
    BY <2>1, FirstsInOrder
  <2>3. CASE d < FirstOf(j + 1)
    <3>1. MonthNo(d) = j
      BY <1>1, <1>4, <2>2, <2>3, MonthNoIs
    <3> QED
      BY <3>1
  <2>4. CASE FirstOf(j + 1) <= d
    <3>1. MonthNo(d) = j + 1
      BY <1>1, <1>4, <2>1, <2>2, <2>4, MonthNoIs
    <3> QED
      BY <3>1, <1>1, <1>4, <2>2, <2>4
  <2> QED
    BY <2>2, <2>3, <2>4, <1>1, <1>4
<1>5. CASE g = "monthly"
  <2> DEFINE d == applyOffset(g, n, k)
  <2>1. d = FirstOf(M + 12 * 0 + k) + Day(n) + 0 - 1
    <3>1. d = AddDate(n, 0, k, 0)
      BY <1>5 DEF applyOffset
    <3>2. AddDate(n, 0, k, 0) = FirstOf(M + 12 * 0 + k) + Day(n) + 0 - 1
      BY <1>1, AddDateIs DEF M
    <3> QED
      BY <3>1, <3>2
  <2> HIDE DEF d
  <2>2. d = FirstOf(M + k) + Day(n) - 1 /\ M + k \in Int /\ FirstOf(M + k) \in Int /\ d \in Int
    BY <2>1, <1>1, FirstsInOrder
  <2>3. MonthNo(d) \in {M + k, M + k + 1} /\ (Day(n) <= 28 => MonthNo(d) = M + k)
    BY <2>2, <1>4
  <2>4. Period(g, n) = M + 1 /\ Period(g, d) = MonthNo(d) + 1
    <3>1. Month(d) \in Int /\ Year(d) \in Int
      BY <2>2, MonthOf, MonthCases
    <3> QED
      BY <1>1, <1>5, <3>1 DEF Period, MonthNo, M
  <2>5. Period(g, n) \in Int /\ Period(g, d) \in Int
    BY <2>3, <2>4, <1>1
  <2>6. Period(g, d) - (Period(g, n) + k) \in {0, 1} /\ (Day(n) <= 28 => Period(g, d) - (Period(g, n) + k) = 0)
    BY <2>3, <2>4, <1>1
  <2> QED
    BY <2>2, <2>5, <2>6, <1>1, <1>5 DEF d
<1>6. CASE g = "quarterly"
  <2> DEFINE d == applyOffset(g, n, k)
  <2>1. d = FirstOf(M + 12 * 0 + 3 * k) + Day(n) + 0 - 1
    <3>1. d = AddDate(n, 0, 3 * k, 0)
      BY <1>6 DEF applyOffset
    <3>2. AddDate(n, 0, 3 * k, 0) = FirstOf(M + 12 * 0 + 3 * k) + Day(n) + 0 - 1
      BY <1>1, AddDateIs DEF M
    <3> QED
      BY <3>1, <3>2
  <2> HIDE DEF d
  <2>2. d = FirstOf(M + 3 * k) + Day(n) - 1 /\ M + 3 * k \in Int /\ FirstOf(M + 3 * k) \in Int /\ d \in Int
    BY <2>1, <1>1, FirstsInOrder
  <2>3. MonthNo(d) \in {M + 3 * k, M + 3 * k + 1} /\ (Day(n) <= 28 => MonthNo(d) = M + 3 * k)
    BY <2>2, <1>4
  <2>4. Period(g, n) = M \div 3 /\ Period(g, d) = MonthNo(d) \div 3
    BY <1>6, <2>2, OfMonthNo DEF Period, M
  <2>5. (M + 3 * k) \div 3 = (M \div 3) + k
    BY <1>1
  <2>6. (M + 3 * k + 1) \div 3 \in {(M \div 3) + k, (M \div 3) + k + 1}
    BY <1>1
  <2>7. M \div 3 \in Int
    BY <1>1
  <2>8. Period(g, n) \in Int /\ Period(g, d) \in Int
    BY <2>3, <2>4, <2>5, <2>6, <2>7
  <2>9. Period(g, d) - (Period(g, n) + k) \in {0, 1} /\ (Day(n) <= 28 => Period(g, d) - (Period(g, n) + k) = 0)
    BY <2>3, <2>4, <2>5, <2>6, <2>7
  <2> QED
    BY <2>2, <2>8, <2>9, <1>1, <1>6 DEF d
<1>7. CASE g = "yearly"
  <2> DEFINE d == applyOffset(g, n, k)
             y == Year(n) + k
  <2>1. d = FirstOf(M + 12 * k + 0) + Day(n) + 0 - 1
    <3>1. d = AddDate(n, k, 0, 0)
      BY <1>7 DEF applyOffset
    <3>2. AddDate(n, k, 0, 0) = FirstOf(M + 12 * k + 0) + Day(n) + 0 - 1
      BY <1>1, AddDateIs DEF M
    <3> QED
      BY <3>1, <3>2
  <2> HIDE DEF d
  <2>2. d = FirstOf(M + 12 * k) + Day(n) - 1 /\ M + 12 * k \in Int /\ FirstOf(M + 12 * k) \in Int /\ d \in Int
    BY <2>1, <1>1, FirstsInOrder
  <2>3. y \in Int /\ M + 12 * k = 12 * y + Month(n) - 1
    BY <1>1 DEF M, MonthNo
  <2>4. MonthNo(d) \in {M + 12 * k, M + 12 * k + 1}
    BY <2>2, <1>4
  <2>5. Month(n) # 12 \/ MonthNo(d) = M + 12 * k
    <3>1. SUFFICES ASSUME Month(n) = 12 PROVE d < FirstOf(M + 12 * k + 1)
      <4>1. FirstOf(M + 12 * k) <= d
        BY <1>1, <2>2
      <4> QED
        BY <4>1, <2>2, MonthNoIs
    <3>2. (M + 12 * k) + 1 = 12 * (y + 1) + 1 - 1 /\ 1 \in Twelve /\ y + 1 \in Int
      BY <2>3, <3>1, MonthIs
    <3>3. FirstOf((M + 12 * k) + 1) = Days(y + 1, 1, 1)
      BY <3>2, <2>2, FirstOfIs
    <3>4. FirstOf(M + 12 * k) = Days(y, 12, 1) /\ Days(y, 12, 1) \in Int
      BY <1>1, <2>2, <2>3, <3>1, FirstOfIs
    <3>5. Days(y + 1, 1, 1) = Days(y, 12, 1) + 31
      BY <2>3, MonthLengths
    <3> QED
      BY <1>1, <2>2, <3>3, <3>4, <3>5
  <2>6. Year(d) = y
    <3>1. Year(d) = MonthNo(d) \div 12
      BY <2>2, OfMonthNo
    <3>2. 1 <= Month(n) /\ Month(n) <= 12
      BY <1>1, MonthCases
    <3>3. (12 * y + Month(n) - 1) \div 12 = y
      BY <1>1, <2>3, <3>2, InYear
    <3>4. Month(n) # 12 => ((12 * y + Month(n) - 1) + 1) \div 12 = y
      BY <1>1, <2>3, <3>2, InYear
    <3> QED
      BY <2>3, <2>4, <2>5, <3>1, <3>3, <3>4
  <2>7. Period(g, n) = Year(n) /\ Period(g, d) = y
    BY <1>7, <2>6 DEF Period
  <2> QED
    BY <1>1, <1>7, <2>2, <2>3, <2>7 DEF d, y
<1> QED
  BY <1>2, <1>3, <1>5, <1>6, <1>7 DEF Granularity

------------------------------------------------------------------------------
\* The default formats name the periods

LEMMA DefaultFormats ==
    /\ Default["daily"].format = {"YYYY", "MM", "DD"}
    /\ Default["weekly"].format = {"gggg", "ww"}
    /\ Default["monthly"].format = {"YYYY", "MM"}
    /\ Default["quarterly"].format = {"YYYY", "Q"}
    /\ Default["yearly"].format = {"YYYY"}
BY DEF Default, Granularity

Value(token, n) ==
    CASE token = "YYYY" -> Year(n)
      [] token = "MM"   -> Month(n)
      [] token = "DD"   -> Day(n)
      [] token = "gggg" -> ISOYear(n)
      [] token = "ww"   -> ISOWeek(n)
      [] token = "Q"    -> (Month(n) - 1) \div 3 + 1

LEMMA NameIs ==
    ASSUME NEW F, NEW n
    PROVE  formatMoment(F, n) = [t \in F |-> Value(t, n)]
BY DEF formatMoment, Value

LEMMA NameOfDay ==
    ASSUME NEW F, NEW n
    PROVE  /\ "YYYY" \in F => formatMoment(F, n)["YYYY"] = Year(n)
           /\ "MM" \in F => formatMoment(F, n)["MM"] = Month(n)
           /\ "DD" \in F => formatMoment(F, n)["DD"] = Day(n)
           /\ "gggg" \in F => formatMoment(F, n)["gggg"] = ISOYear(n)
           /\ "ww" \in F => formatMoment(F, n)["ww"] = ISOWeek(n)
           /\ "Q" \in F => formatMoment(F, n)["Q"] = (Month(n) - 1) \div 3 + 1
           /\ DOMAIN formatMoment(F, n) = F
BY DEF formatMoment

LEMMA SameName ==
    ASSUME NEW F, NEW n, NEW p, F \subseteq Token
    PROVE  formatMoment(F, n) = formatMoment(F, p)
           <=> /\ "YYYY" \in F => Year(n) = Year(p)
               /\ "MM" \in F => Month(n) = Month(p)
               /\ "DD" \in F => Day(n) = Day(p)
               /\ "gggg" \in F => ISOYear(n) = ISOYear(p)
               /\ "ww" \in F => ISOWeek(n) = ISOWeek(p)
               /\ "Q" \in F => (Month(n) - 1) \div 3 + 1 = (Month(p) - 1) \div 3 + 1
<1>1. ASSUME formatMoment(F, n) = formatMoment(F, p)
      PROVE  /\ "YYYY" \in F => Year(n) = Year(p)
             /\ "MM" \in F => Month(n) = Month(p)
             /\ "DD" \in F => Day(n) = Day(p)
             /\ "gggg" \in F => ISOYear(n) = ISOYear(p)
             /\ "ww" \in F => ISOWeek(n) = ISOWeek(p)
             /\ "Q" \in F => (Month(n) - 1) \div 3 + 1 = (Month(p) - 1) \div 3 + 1
  BY <1>1, NameOfDay
<1>2. ASSUME /\ "YYYY" \in F => Year(n) = Year(p)
             /\ "MM" \in F => Month(n) = Month(p)
             /\ "DD" \in F => Day(n) = Day(p)
             /\ "gggg" \in F => ISOYear(n) = ISOYear(p)
             /\ "ww" \in F => ISOWeek(n) = ISOWeek(p)
             /\ "Q" \in F => (Month(n) - 1) \div 3 + 1 = (Month(p) - 1) \div 3 + 1
      PROVE  formatMoment(F, n) = formatMoment(F, p)
  <2>1. \A t \in F : formatMoment(F, n)[t] = formatMoment(F, p)[t]
    BY <1>2, NameOfDay DEF Token
  <2>2. \A t \in F : Value(t, n) = Value(t, p)
    BY <2>1, NameIs
  <2> QED
    BY <2>2, NameIs
<1> QED
  BY <1>1, <1>2

\* A week is named after its Thursday, which tells the weeks apart.
LEMMA ThursdayIs ==
    ASSUME NEW n \in Int
    PROVE  Thursday(n) \in Int /\ Thursday(n) = 7 * ((n + 3) \div 7)
<1>1. n + 3 = 7 * ((n + 3) \div 7) + ((n + 3) % 7) /\ (n + 3) \div 7 \in Int /\ (n + 3) % 7 \in Int
  OBVIOUS
<1> QED
  BY <1>1 DEF Thursday

LEMMA WeekNames ==
    ASSUME NEW n \in Int, NEW p \in Int
    PROVE  (ISOYear(n) = ISOYear(p) /\ ISOWeek(n) = ISOWeek(p)) <=> (n + 3) \div 7 = (p + 3) \div 7
<1> DEFINE a == (n + 3) \div 7
           b == (p + 3) \div 7
<1>1. a \in Int /\ b \in Int /\ Thursday(n) = 7 * a /\ Thursday(p) = 7 * b
      /\ Thursday(n) \in Int /\ Thursday(p) \in Int
  BY ThursdayIs
<1> HIDE DEF a, b
<1>2. ASSUME ISOYear(n) = ISOYear(p), ISOWeek(n) = ISOWeek(p)
      PROVE  a = b
  <2> DEFINE J == Days(ISOYear(n), 1, 1)
  <2>1. J \in Int
    BY <1>1, YearOf, Jan1Int DEF ISOYear
  <2>2. (7 * a - J) \div 7 + 1 = (7 * b - J) \div 7 + 1
    BY <1>1, <1>2 DEF ISOWeek
  <2> HIDE DEF J
  <2> QED
    BY <1>1, <2>1, <2>2
<1>3. ASSUME a = b
      PROVE  ISOYear(n) = ISOYear(p) /\ ISOWeek(n) = ISOWeek(p)
  BY <1>1, <1>3 DEF ISOYear, ISOWeek
<1> QED
  BY <1>2, <1>3 DEF a, b

LEMMA NamesArePeriods ==
    ASSUME NEW g \in Granularity, NEW n \in Int, NEW p \in Int
    PROVE  formatMoment(Default[g].format, n) = formatMoment(Default[g].format, p)
           <=> Period(g, n) = Period(g, p)
<1> DEFINE F == Default[g].format
<1>1. /\ Year(n) \in Int /\ Month(n) \in Int /\ 1 <= Month(n) /\ Month(n) <= 12 /\ Month(n) \in Twelve
      /\ Year(p) \in Int /\ Month(p) \in Int /\ 1 <= Month(p) /\ Month(p) <= 12 /\ Month(p) \in Twelve
  BY MonthOf, MonthCases
<1>2. CASE g = "daily"
  <2>1. F = {"YYYY", "MM", "DD"}
    BY <1>2, DefaultFormats
  <2> HIDE DEF F
  <2>2. formatMoment(F, n) = formatMoment(F, p) <=> Year(n) = Year(p) /\ Month(n) = Month(p) /\ Day(n) = Day(p)
    BY <2>1, SameName DEF Token
  <2>3. ASSUME Year(n) = Year(p), Month(n) = Month(p), Day(n) = Day(p)
        PROVE  n = p
    <3>1. MonthNo(n) = MonthNo(p)
      BY <2>3 DEF MonthNo
    <3> QED
      BY <2>3, <3>1, MonthOf
  <2> QED
    BY <1>2, <2>2, <2>3 DEF Period, F
<1>3. CASE g = "weekly"
  <2>1. F = {"gggg", "ww"}
    BY <1>3, DefaultFormats
  <2> HIDE DEF F
  <2>2. formatMoment(F, n) = formatMoment(F, p) <=> ISOYear(n) = ISOYear(p) /\ ISOWeek(n) = ISOWeek(p)
    BY <2>1, SameName DEF Token
  <2> QED
    BY <1>3, <2>2, WeekNames DEF Period, F
<1>4. CASE g = "monthly"
  <2>1. F = {"YYYY", "MM"}
    BY <1>4, DefaultFormats
  <2> HIDE DEF F
  <2>2. formatMoment(F, n) = formatMoment(F, p) <=> Year(n) = Year(p) /\ Month(n) = Month(p)
    BY <2>1, SameName DEF Token
  <2>3. 12 * Year(n) + Month(n) = 12 * Year(p) + Month(p) <=> Year(n) = Year(p) /\ Month(n) = Month(p)
    BY <1>1
  <2> QED
    BY <1>4, <2>2, <2>3 DEF Period, F
<1>5. CASE g = "quarterly"
  <2>1. F = {"YYYY", "Q"}
    BY <1>5, DefaultFormats
  <2> HIDE DEF F
  <2>2. formatMoment(F, n) = formatMoment(F, p)
        <=> Year(n) = Year(p) /\ (Month(n) - 1) \div 3 + 1 = (Month(p) - 1) \div 3 + 1
    BY <2>1, SameName DEF Token
  <2>3. (Month(n) - 1) \div 3 \in 0..3 /\ (Month(p) - 1) \div 3 \in 0..3
    BY OfMonthNo
  <2>4. 4 * Year(n) + ((Month(n) - 1) \div 3) = 4 * Year(p) + ((Month(p) - 1) \div 3)
        <=> Year(n) = Year(p) /\ (Month(n) - 1) \div 3 + 1 = (Month(p) - 1) \div 3 + 1
    <3>1. PICK y \in Int, z \in Int : y = Year(n) /\ z = Year(p)
      BY <1>1
    <3>2. PICK a \in 0..3, b \in 0..3 : a = (Month(n) - 1) \div 3 /\ b = (Month(p) - 1) \div 3
      BY <2>3
    <3>3. 4 * y + a = 4 * z + b <=> y = z /\ a + 1 = b + 1
      OBVIOUS
    <3> QED
      BY <3>1, <3>2, <3>3
  <2> QED
    BY <1>5, <2>2, <2>4 DEF Period, F
<1>6. CASE g = "yearly"
  <2>1. F = {"YYYY"}
    BY <1>6, DefaultFormats
  <2> HIDE DEF F
  <2>2. formatMoment(F, n) = formatMoment(F, p) <=> Year(n) = Year(p)
    BY <2>1, SameName DEF Token
  <2> QED
    BY <1>6, <2>2 DEF Period, F
<1> QED
  BY <1>2, <1>3, <1>4, <1>5, <1>6 DEF Granularity

LEMMA NamesAreInts ==
    ASSUME NEW F \in SUBSET Token, NEW n \in Int
    PROVE  formatMoment(F, n) \in [F -> Int]
<1>1. Year(n) \in Int /\ Month(n) \in Int /\ Day(n) \in Int
  BY MonthOf, MonthCases
<1>2. ISOYear(n) \in Int
  BY ThursdayIs, YearOf DEF ISOYear
<1>3. ISOWeek(n) \in Int
  BY <1>2, ThursdayIs, Jan1Int DEF ISOWeek
<1>4. (Month(n) - 1) \div 3 + 1 \in Int
  BY <1>1
<1>5. \A t \in F : Value(t, n) \in Int
  BY <1>1, <1>2, <1>3, <1>4 DEF Value, Token
<1> QED
  BY <1>5, NameIs

------------------------------------------------------------------------------
\* The inductive invariant

Entry == [date : Int, clock : Nat, folder : Folder, name : UNION {[F -> Int] : F \in SUBSET Token}]

Shape ==
    /\ now \in Nat /\ nights \in 0..MaxMidnights
    /\ file \in File /\ edits \in 0..MaxEdits
    /\ (cache # None => IsConfig(cache)) /\ loader \in Caller \cup {None} /\ raced \in BOOLEAN
    /\ (cache = None) <=> (loader = None)
    /\ pc \in [Caller -> {"idle", "load", "read", "store", "resolve", "done"}]
    /\ call \in [Caller -> Call \cup {None}]
    /\ base \in [Caller -> Nat] /\ i \in [Caller -> Int]
    /\ DOMAIN cfg = Caller /\ list \in [Caller -> Seq(Entry)]

\* The locals of a call; until it is done there is an entry to come.
Local(c) ==
    /\ cfg[c] # None => IsConfig(cfg[c])
    /\ (pc[c] = "idle") <=> (call[c] = None)
    /\ (pc[c] \in {"store", "resolve"}) <=> (cfg[c] # None)
    /\ pc[c] = "idle" => list[c] = <<>> /\ i[c] = 0
    /\ pc[c] # "idle" =>
          /\ i[c] \in call[c].from..call[c].from + call[c].count
          /\ pc[c] # "done" => i[c] < call[c].from + call[c].count
          /\ Len(list[c]) <= i[c] - call[c].from
          /\ call[c].kind # "weekly" => Len(list[c]) = i[c] - call[c].from

\* The entry is of the day b periods before the day of the call, and named after the
\* day b periods before the one the clock said when it was resolved.
Made(c, k, b) ==
    /\ call[c].from <= b /\ b < i[c]
    /\ call[c].kind # "weekly" => b = call[c].from + k - 1
    /\ list[c][k].date = applyOffset(call[c].g, base[c], -b)
    /\ list[c][k].name = formatMoment(DOMAIN list[c][k].name, applyOffset(call[c].g, list[c][k].clock, -b))

Chronicle(c) ==
    /\ \A k \in DOMAIN list[c] : \E b \in Int : Made(c, k, b)
    /\ call[c].kind = "weekly" => \A k \in DOMAIN list[c] : k > 1 => list[c][k].date < list[c][k - 1].date

\* Nothing is resolved before a configuration is kept, and until two calls have raced
\* to keep one, nothing by any other.
OneConfiguration ==
    /\ cache = None => \A c \in Caller : list[c] = <<>> /\ pc[c] # "resolve"
    /\ ~ raced => \A c \in Caller :
          /\ pc[c] = "resolve" => cfg[c] = cache
          /\ \A k \in DOMAIN list[c] : list[c][k].folder = cache[call[c].g].folder

Inv == /\ Shape /\ \A c \in Caller : Local(c) /\ Chronicle(c)
       /\ OneConfiguration

LEMMA DefaultIsConfig == IsConfig(Default)
BY DEF IsConfig, Default, Settings, Folder, Granularity, Token

LEMMA CallFields ==
    ASSUME NEW r \in Call
    PROVE  /\ r # None /\ r.kind \in {"one", "recent", "weekly"} /\ r.g \in Granularity
           /\ r.from \in Int /\ r.count \in Nat /\ 1 <= r.count /\ r.count <= MaxCount
           /\ r.kind = "weekly" => r.g = "daily"
BY PeriodicConstants

LEMMA InitInv == Init => Inv
<1> SUFFICES ASSUME Init PROVE Inv
  OBVIOUS
<1>1. Shape
  <2>1. <<>> \in Seq(Entry)
    OBVIOUS
  <2>2. list \in [Caller -> Seq(Entry)]
    BY <2>1 DEF Init
  <2>3. now \in Nat /\ nights \in 0..MaxMidnights /\ file \in File /\ edits \in 0..MaxEdits
    BY PeriodicConstants DEF Init
  <2>4. /\ (cache # None => IsConfig(cache)) /\ loader \in Caller \cup {None} /\ raced \in BOOLEAN
        /\ (cache = None) <=> (loader = None)
    BY DEF Init
  <2>5. pc \in [Caller -> {"idle", "load", "read", "store", "resolve", "done"}]
    BY DEF Init
  <2>6. /\ call \in [Caller -> Call \cup {None}] /\ base \in [Caller -> Nat] /\ i \in [Caller -> Int]
        /\ DOMAIN cfg = Caller
    BY DEF Init
  <2> QED
    BY <2>2, <2>3, <2>4, <2>5, <2>6 DEF Shape
<1>2. \A c \in Caller : Local(c) /\ Chronicle(c)
  <2> SUFFICES ASSUME NEW c \in Caller PROVE Local(c) /\ Chronicle(c)
    OBVIOUS
  <2>1. pc[c] = "idle" /\ call[c] = None /\ cfg[c] = None /\ i[c] = 0 /\ list[c] = <<>>
    BY DEF Init
  <2> QED
    BY <2>1 DEF Local, Chronicle
<1>3. OneConfiguration
  BY DEF Init, OneConfiguration
<1> QED
  BY <1>1, <1>2, <1>3 DEF Inv

\* A call keeps what it knows of its list as long as it keeps the list and goes on.
LEMMA ChronicleStays ==
    ASSUME Inv, Shape', NEW c \in Caller, list'[c] = list[c], call'[c] = call[c], base'[c] = base[c],
           i'[c] = i[c] \/ i'[c] = i[c] + 1
    PROVE  Chronicle(c)'
<1>1. i[c] \in Int /\ i'[c] \in Int /\ i[c] <= i'[c] /\ Chronicle(c)
  BY DEF Inv, Shape
<1>2. \A k, b : b \in Int /\ Made(c, k, b) /\ call[c].from \in Int => Made(c, k, b)'
  BY <1>1 DEF Made
<1>3. list[c] = <<>> \/ call[c].from \in Int
  <2>1. pc[c] = "idle" => list[c] = <<>>
    BY DEF Inv, Local
  <2>2. pc[c] # "idle" => call[c] \in Call
    BY DEF Inv, Local, Shape
  <2> QED
    BY <2>1, <2>2, CallFields
<1> QED
  BY <1>1, <1>2, <1>3 DEF Chronicle

LEMMA LocalStays ==
    ASSUME NEW c \in Caller, Local(c), pc'[c] = pc[c], call'[c] = call[c], i'[c] = i[c],
           cfg'[c] = cfg[c], list'[c] = list[c]
    PROVE  Local(c)'
BY DEF Local

------------------------------------------------------------------------------
\* Every step keeps the invariant

\* What a step of one call leaves of the others.
Alone(c) == \A d \in Caller \ {c} :
                /\ pc'[d] = pc[d] /\ call'[d] = call[d] /\ base'[d] = base[d]
                /\ i'[d] = i[d] /\ cfg'[d] = cfg[d] /\ list'[d] = list[d]

LEMMA OneCall ==
    ASSUME Inv, NEW c \in Caller, Alone(c), Shape', Local(c)', Chronicle(c)', OneConfiguration'
    PROVE  Inv'
<1> SUFFICES ASSUME NEW d \in Caller, d # c PROVE Local(d)' /\ Chronicle(d)'
  BY DEF Inv
<1>1. /\ pc'[d] = pc[d] /\ call'[d] = call[d] /\ base'[d] = base[d]
      /\ i'[d] = i[d] /\ cfg'[d] = cfg[d] /\ list'[d] = list[d]
  BY DEF Alone
<1>2. Local(d)'
  BY <1>1, LocalStays DEF Inv
<1>3. Chronicle(d)'
  BY <1>1, ChronicleStays
<1> QED
  BY <1>2, <1>3

\* The lists and what they are made of stay, and the configuration too.
LEMMA ConfigurationStays ==
    ASSUME Inv, NEW c \in Caller, Alone(c), cache' = cache, raced' = raced,
           list'[c] = <<>> \/ (list'[c] = list[c] /\ call'[c] = call[c]),
           pc'[c] = "resolve" => cache # None /\ cfg'[c] = cache
    PROVE  OneConfiguration'
<1> SUFFICES ASSUME NEW d \in Caller
             PROVE  /\ cache' = None => list'[d] = <<>> /\ pc'[d] # "resolve"
                    /\ ~ raced' => /\ pc'[d] = "resolve" => cfg'[d] = cache'
                                   /\ \A k \in DOMAIN list'[d] : list'[d][k].folder = cache'[call'[d].g].folder
  BY DEF OneConfiguration
<1>1. /\ cache = None => list[d] = <<>> /\ pc[d] # "resolve"
      /\ ~ raced => /\ pc[d] = "resolve" => cfg[d] = cache
                    /\ \A k \in DOMAIN list[d] : list[d][k].folder = cache[call[d].g].folder
  BY DEF Inv, OneConfiguration
<1>2. CASE d = c
  BY <1>1, <1>2
<1>3. CASE d # c
  <2>1. pc'[d] = pc[d] /\ call'[d] = call[d] /\ cfg'[d] = cfg[d] /\ list'[d] = list[d]
    BY <1>3 DEF Alone
  <2> QED
    BY <1>1, <2>1
<1> QED
  BY <1>2, <1>3

LEMMA BeginStep ==
    ASSUME Inv, NEW c \in Caller, Begin(c)
    PROVE  Inv'
<1>1. PICK r \in Call : call' = [call EXCEPT ![c] = r] /\ i' = [i EXCEPT ![c] = r.from]
  BY DEF Begin
<1>2. /\ r # None /\ r.from \in Int /\ r.count \in Nat /\ 1 <= r.count
  BY CallFields
<1>3. /\ pc[c] = "idle" /\ pc' = [pc EXCEPT ![c] = "load"] /\ base' = [base EXCEPT ![c] = now]
      /\ UNCHANGED <<now, nights, file, edits, cache, loader, raced, cfg, list>>
  BY DEF Begin, At
<1>4. Shape /\ Local(c)
  BY DEF Inv
<1>5. /\ pc'[c] = "load" /\ call'[c] = r /\ i'[c] = r.from /\ base'[c] = now
      /\ list'[c] = <<>> /\ cfg'[c] = None
  BY <1>1, <1>3, <1>4 DEF Shape, Local
<1>6. Shape'
  BY <1>1, <1>2, <1>3, <1>4 DEF Shape
<1>7. Alone(c)
  BY <1>1, <1>3, <1>4 DEF Alone, Shape
<1>8. Local(c)'
  BY <1>2, <1>5 DEF Local
<1>9. Chronicle(c)'
  BY <1>5 DEF Chronicle
<1>10. OneConfiguration'
  BY <1>3, <1>5, <1>7, ConfigurationStays
<1> QED
  BY <1>6, <1>7, <1>8, <1>9, <1>10, OneCall

\* Steps up to the resolution: only the program counter and the configuration change.
LEMMA LoadStep ==
    ASSUME Inv, NEW c \in Caller, UseCache(c) \/ FindNoCache(c) \/ ReadFile(c)
    PROVE  Inv'
<1>1. Shape /\ Local(c)
  BY DEF Inv
<1>2. UNCHANGED <<now, nights, file, edits, cache, loader, raced, call, base, i, list>>
  BY DEF UseCache, FindNoCache, ReadFile
<1>3. /\ pc[c] \in {"load", "read"}
      /\ DOMAIN cfg' = Caller /\ \A d \in Caller \ {c} : pc'[d] = pc[d] /\ cfg'[d] = cfg[d]
      /\ \/ pc'[c] = "resolve" /\ cfg'[c] = cache /\ cache # None
         \/ pc'[c] = "read" /\ cfg'[c] = cfg[c] /\ cfg[c] = None
         \/ pc'[c] = "store" /\ cfg'[c] = (IF file = Absent THEN Default ELSE file) /\ file # Broken
      /\ pc' = [pc EXCEPT ![c] = pc'[c]]
  BY <1>1 DEF UseCache, FindNoCache, ReadFile, At, Shape, Local
<1>4. pc'[c] \in {"read", "store", "resolve"}
  BY <1>3
<1>5. Shape'
  <2>1. pc' \in [Caller -> {"idle", "load", "read", "store", "resolve", "done"}]
    BY <1>1, <1>3, <1>4 DEF Shape
  <2>2. DOMAIN cfg' = Caller
    BY <1>3
  <2> QED
    BY <1>1, <1>2, <2>1, <2>2 DEF Shape
<1>6. Alone(c)
  BY <1>2, <1>3 DEF Alone
<1>7. file \in File /\ file # Broken /\ file # Absent => IsConfig(file) /\ file # None
  BY PeriodicConstants
<1>8. /\ cfg'[c] # None => IsConfig(cfg'[c])
      /\ (pc'[c] \in {"store", "resolve"}) <=> (cfg'[c] # None)
  BY <1>1, <1>3, <1>7, DefaultIsConfig, PeriodicConstants DEF Shape
<1>9. Local(c)'
  BY <1>1, <1>2, <1>3, <1>4, <1>8 DEF Local
<1>10. Chronicle(c)'
  BY <1>2, <1>5, ChronicleStays
<1>11. OneConfiguration'
  BY <1>2, <1>3, <1>6, ConfigurationStays
<1> QED
  BY <1>5, <1>6, <1>9, <1>10, <1>11, OneCall

LEMMA StoreStep ==
    ASSUME Inv, NEW c \in Caller, StoreCache(c)
    PROVE  Inv'
<1>1. Shape /\ Local(c)
  BY DEF Inv
<1>2. /\ pc[c] = "store" /\ cache' = cfg[c] /\ loader' = c /\ raced' = (raced \/ cache # None)
      /\ pc' = [pc EXCEPT ![c] = "resolve"]
      /\ UNCHANGED <<now, nights, file, edits, call, base, i, cfg, list>>
  BY DEF StoreCache, At
<1>3. cfg[c] # None /\ IsConfig(cfg[c]) /\ c # None
  BY <1>1, <1>2, PeriodicConstants DEF Local
<1>4. raced' \in BOOLEAN
  BY <1>1, <1>2 DEF Shape
<1>5. Shape'
  BY <1>1, <1>2, <1>3, <1>4 DEF Shape
<1>6. Alone(c) /\ pc'[c] = "resolve"
  BY <1>1, <1>2 DEF Alone, Shape
<1>7. Local(c)'
  BY <1>1, <1>2, <1>3, <1>6 DEF Local
<1>8. Chronicle(c)'
  BY <1>2, <1>5, ChronicleStays
<1>9. OneConfiguration'
  <2>1. cache' # None
    BY <1>2, <1>3
  <2>2. ASSUME ~ raced', NEW d \in Caller
        PROVE  /\ pc'[d] = "resolve" => cfg'[d] = cache'
               /\ \A k \in DOMAIN list'[d] : list'[d][k].folder = cache'[call'[d].g].folder
    <3>1. cache = None
      BY <1>2, <2>2
    <3>2. list[d] = <<>> /\ pc[d] # "resolve"
      BY <3>1 DEF Inv, OneConfiguration
    <3>3. list'[d] = <<>> /\ (d # c => pc'[d] # "resolve")
      BY <3>2, <1>2, <1>6 DEF Alone
    <3> QED
      BY <1>2, <3>3
  <2> QED
    BY <2>1, <2>2 DEF OneConfiguration
<1> QED
  BY <1>5, <1>6, <1>7, <1>8, <1>9, OneCall

LEMMA AnswerStep ==
    ASSUME Inv, NEW c \in Caller, Answer(c)
    PROVE  Inv'
<1>1. Shape /\ Local(c)
  BY DEF Inv
<1>2. /\ pc[c] = "done" /\ pc' = [pc EXCEPT ![c] = "idle"] /\ list' = [list EXCEPT ![c] = <<>>]
      /\ call' = [call EXCEPT ![c] = None] /\ base' = [base EXCEPT ![c] = 0] /\ i' = [i EXCEPT ![c] = 0]
      /\ UNCHANGED <<now, nights, file, edits, cache, loader, raced, cfg>>
  BY DEF Answer, At
<1>3. /\ pc'[c] = "idle" /\ list'[c] = <<>> /\ call'[c] = None /\ i'[c] = 0 /\ cfg'[c] = None
  BY <1>1, <1>2 DEF Shape, Local
<1>4. <<>> \in Seq(Entry)
  OBVIOUS
<1>5. Shape'
  BY <1>1, <1>2, <1>4 DEF Shape
<1>6. Alone(c)
  BY <1>1, <1>2 DEF Alone, Shape
<1>7. Local(c)' /\ Chronicle(c)'
  BY <1>3 DEF Local, Chronicle
<1>8. OneConfiguration'
  BY <1>2, <1>3, <1>6, ConfigurationStays
<1> QED
  BY <1>5, <1>6, <1>7, <1>8, OneCall

\* Where the next entry is, or the answer.
LEMMA Onwards ==
    ASSUME Inv, NEW c \in Caller, pc[c] \notin {"idle", "done"}, Proceed(c)
    PROVE  /\ i' = [i EXCEPT ![c] = i[c] + 1] /\ cfg' = [cfg EXCEPT ![c] = None]
           /\ pc' = [pc EXCEPT ![c] = pc'[c]] /\ pc'[c] \in {"load", "done"}
           /\ UNCHANGED <<now, nights, file, edits, cache, loader, raced, call, base>>
           /\ call[c] \in Call /\ call[c].from \in Int /\ call[c].count \in Nat /\ i[c] \in Int
           /\ i'[c] = i[c] + 1 /\ cfg'[c] = None /\ call[c] # None
           /\ i'[c] \in call[c].from..call[c].from + call[c].count
           /\ pc'[c] # "done" => i'[c] < call[c].from + call[c].count
<1>1. Shape /\ Local(c)
  BY DEF Inv
<1>2. call[c] \in Call /\ call[c] # None /\ i[c] \in Int
  BY <1>1 DEF Shape, Local
<1>3. call[c].from \in Int /\ call[c].count \in Nat
  BY <1>2, CallFields
<1>4. i[c] \in call[c].from..call[c].from + call[c].count /\ i[c] < call[c].from + call[c].count
  BY <1>1 DEF Local
<1>5. /\ i' = [i EXCEPT ![c] = i[c] + 1] /\ cfg' = [cfg EXCEPT ![c] = None]
      /\ pc' = [pc EXCEPT ![c] = IF i[c] + 1 < call[c].from + call[c].count THEN "load" ELSE "done"]
      /\ UNCHANGED <<now, nights, file, edits, cache, loader, raced, call, base>>
  BY DEF Proceed, At
<1>6. /\ pc'[c] = IF i[c] + 1 < call[c].from + call[c].count THEN "load" ELSE "done"
      /\ i'[c] = i[c] + 1 /\ cfg'[c] = None
  BY <1>1, <1>5 DEF Shape
<1>7. /\ i'[c] \in call[c].from..call[c].from + call[c].count
      /\ pc'[c] \in {"load", "done"} /\ (pc'[c] # "done" => i'[c] < call[c].from + call[c].count)
  BY <1>2, <1>3, <1>4, <1>6
<1>8. pc' = [pc EXCEPT ![c] = pc'[c]]
  BY <1>5, <1>6
<1> QED
  BY <1>2, <1>3, <1>5, <1>6, <1>7, <1>8

\* After an error a call for the week goes on, and any other is over.
LEMMA ErrorStep ==
    ASSUME Inv, NEW c \in Caller, LoadFails(c) \/ ResolveFails(c)
    PROVE  Inv'
<1>1. Shape /\ Local(c) /\ Chronicle(c)
  BY DEF Inv
<1>2. pc[c] \in {"read", "resolve"} /\ Error(c)
  BY DEF LoadFails, ResolveFails
<1>3. CASE call[c].kind = "weekly"
  <2>1. list' = list /\ Proceed(c)
    BY <1>2, <1>3 DEF Error
  <2>2. /\ i' = [i EXCEPT ![c] = i[c] + 1] /\ cfg' = [cfg EXCEPT ![c] = None]
        /\ pc' = [pc EXCEPT ![c] = pc'[c]] /\ pc'[c] \in {"load", "done"}
        /\ UNCHANGED <<now, nights, file, edits, cache, loader, raced, call, base>>
        /\ call[c] \in Call /\ call[c].from \in Int /\ call[c].count \in Nat /\ i[c] \in Int
        /\ i'[c] = i[c] + 1 /\ cfg'[c] = None /\ call[c] # None
        /\ i'[c] \in call[c].from..call[c].from + call[c].count
        /\ pc'[c] # "done" => i'[c] < call[c].from + call[c].count
    BY <1>2, <2>1, Onwards
  <2>3. Shape'
    <3>1. pc' \in [Caller -> {"idle", "load", "read", "store", "resolve", "done"}]
      BY <1>1, <2>2 DEF Shape
    <3>2. i' \in [Caller -> Int] /\ DOMAIN cfg' = Caller
      BY <1>1, <2>2 DEF Shape
    <3> QED
      BY <1>1, <2>1, <2>2, <3>1, <3>2 DEF Shape
  <2>4. Alone(c)
    BY <1>1, <2>1, <2>2 DEF Alone, Shape
  <2>5. Len(list[c]) <= i[c] - call[c].from /\ Len(list[c]) \in Nat
    BY <1>1, <1>2 DEF Local, Shape
  <2>6. Local(c)'
    BY <1>3, <2>1, <2>2, <2>5 DEF Local
  <2>7. Chronicle(c)'
    BY <2>1, <2>2, <2>3, ChronicleStays
  <2>8. OneConfiguration'
    BY <2>1, <2>2, <2>4, ConfigurationStays
  <2> QED
    BY <2>3, <2>4, <2>6, <2>7, <2>8, OneCall
<1>4. CASE call[c].kind # "weekly"
  <2>1. /\ list' = [list EXCEPT ![c] = <<>>] /\ i' = [i EXCEPT ![c] = 0] /\ cfg' = [cfg EXCEPT ![c] = None]
        /\ base' = [base EXCEPT ![c] = 0] /\ call' = [call EXCEPT ![c] = None]
        /\ pc' = [pc EXCEPT ![c] = "idle"]
        /\ UNCHANGED <<now, nights, file, edits, cache, loader, raced>>
    BY <1>2, <1>4 DEF Error, At
  <2>2. /\ pc'[c] = "idle" /\ list'[c] = <<>> /\ call'[c] = None /\ i'[c] = 0 /\ cfg'[c] = None
    BY <1>1, <2>1 DEF Shape
  <2>3. <<>> \in Seq(Entry)
    OBVIOUS
  <2>4. Shape'
    BY <1>1, <2>1, <2>3 DEF Shape
  <2>5. Alone(c)
    BY <1>1, <2>1 DEF Alone, Shape
  <2>6. Local(c)' /\ Chronicle(c)'
    BY <2>2 DEF Local, Chronicle
  <2>7. OneConfiguration'
    BY <2>1, <2>2, <2>5, ConfigurationStays
  <2> QED
    BY <2>4, <2>5, <2>6, <2>7, OneCall
<1> QED
  BY <1>3, <1>4

LEMMA ResolveStep ==
    ASSUME Inv, NEW c \in Caller, Resolve(c)
    PROVE  Inv'
<1>1. Shape /\ Local(c) /\ Chronicle(c)
  BY DEF Inv
<1>2. pc[c] = "resolve" /\ Configured(c) /\ Proceed(c) /\ cfg[c] # None /\ IsConfig(cfg[c])
  BY <1>1 DEF Resolve, Local
<1>3. /\ i' = [i EXCEPT ![c] = i[c] + 1] /\ cfg' = [cfg EXCEPT ![c] = None]
      /\ pc' = [pc EXCEPT ![c] = pc'[c]] /\ pc'[c] \in {"load", "done"}
      /\ UNCHANGED <<now, nights, file, edits, cache, loader, raced, call, base>>
      /\ call[c] \in Call /\ call[c].from \in Int /\ call[c].count \in Nat /\ i[c] \in Int
      /\ i'[c] = i[c] + 1 /\ cfg'[c] = None /\ call[c] # None
      /\ i'[c] \in call[c].from..call[c].from + call[c].count
      /\ pc'[c] # "done" => i'[c] < call[c].from + call[c].count
  BY <1>2, Onwards
<1> DEFINE g == call[c].g
           F == cfg[c][g].format
           e == [date   |-> applyOffset(g, base[c], -i[c]),
                 clock  |-> now,
                 folder |-> cfg[c][g].folder,
                 name   |-> formatMoment(F, applyOffset(g, now, -i[c]))]
<1>4. list' = [list EXCEPT ![c] = Append(list[c], e)]
  BY DEF Resolve
<1>5. g \in Granularity /\ (call[c].kind = "weekly" => g = "daily")
  BY <1>3, CallFields
<1>6. F \subseteq Token /\ cfg[c][g].folder \in Folder
  BY <1>2 DEF Configured, IsConfig, Settings
<1>7. /\ now \in Nat /\ base[c] \in Nat /\ -i[c] \in Int
      /\ applyOffset(g, base[c], -i[c]) \in Int /\ applyOffset(g, now, -i[c]) \in Int
  <2>1. now \in Nat /\ base[c] \in Nat /\ -i[c] \in Int /\ now \in Int /\ base[c] \in Int
    BY <1>1, <1>3 DEF Shape
  <2>2. applyOffset(g, base[c], -i[c]) \in Int
    BY <1>5, <2>1, OffsetIs, Zenon
  <2>3. applyOffset(g, now, -i[c]) \in Int
    BY <1>5, <2>1, OffsetIs, Zenon
  <2> QED
    BY <2>1, <2>2, <2>3
<1>8. e.name \in [F -> Int]
  BY <1>6, <1>7, NamesAreInts
<1>9. e \in Entry
  BY <1>6, <1>7, <1>8 DEF Entry
<1>10. /\ e.date = applyOffset(g, base[c], -i[c]) /\ e.folder = cfg[c][g].folder
       /\ DOMAIN e.name = F /\ e.name = formatMoment(F, applyOffset(g, e.clock, -i[c]))
  BY <1>8
<1> HIDE DEF e, F
<1>11. list[c] \in Seq(Entry) /\ Len(list[c]) \in Nat
  BY <1>1 DEF Shape
<1>12. list'[c] = Append(list[c], e)
  BY <1>1, <1>4 DEF Shape
<1>13. /\ Append(list[c], e) \in Seq(Entry) /\ Len(list'[c]) = Len(list[c]) + 1
       /\ DOMAIN list'[c] = 1..Len(list[c]) + 1 /\ DOMAIN list[c] = 1..Len(list[c])
       /\ list'[c][Len(list[c]) + 1] = e
       /\ \A k \in DOMAIN list[c] : list'[c][k] = list[c][k]
  BY <1>9, <1>11, <1>12
<1>14. Shape'
  <2>1. pc' \in [Caller -> {"idle", "load", "read", "store", "resolve", "done"}]
    BY <1>1, <1>3 DEF Shape
  <2>2. i' \in [Caller -> Int] /\ DOMAIN cfg' = Caller
    BY <1>1, <1>3 DEF Shape
  <2>3. list' \in [Caller -> Seq(Entry)]
    BY <1>1, <1>4, <1>13 DEF Shape
  <2> QED
    BY <1>1, <1>3, <2>1, <2>2, <2>3 DEF Shape
<1>15. Alone(c)
  BY <1>1, <1>3, <1>4 DEF Alone, Shape
<1>16. /\ Len(list[c]) <= i[c] - call[c].from
       /\ call[c].kind # "weekly" => Len(list[c]) = i[c] - call[c].from
       /\ call[c].from <= i[c]
  BY <1>1, <1>2, <1>3 DEF Local
<1>17. Local(c)'
  <2>1. /\ Len(list'[c]) <= i'[c] - call[c].from
        /\ call[c].kind # "weekly" => Len(list'[c]) = i'[c] - call[c].from
    <3>1. /\ Len(list'[c]) = Len(list[c]) + 1 /\ i'[c] = i[c] + 1
          /\ Len(list[c]) \in Int /\ i[c] \in Int /\ call[c].from \in Int
      BY <1>3, <1>11, <1>13
    <3> QED
      BY <1>16, <3>1
  <2>2. call'[c] = call[c] /\ pc'[c] # "idle" /\ pc'[c] \notin {"store", "resolve"}
    BY <1>3
  <2> QED
    BY <1>3, <2>1, <2>2 DEF Local
<1>18. Chronicle(c)'
  <2>1. ASSUME NEW k \in DOMAIN list'[c]
        PROVE  \E b \in Int : Made(c, k, b)'
    <3>1. CASE k \in DOMAIN list[c]
      <4>1. PICK b \in Int : Made(c, k, b)
        BY <1>1, <3>1 DEF Chronicle
      <4>2. list'[c][k] = list[c][k] /\ call' = call /\ base' = base
        BY <1>3, <1>13, <3>1
      <4>3. call'[c].from <= b /\ b < i'[c]
        <5>1. call[c].from <= b /\ b < i[c] /\ call[c].from \in Int
          BY <1>3, <4>1 DEF Made
        <5> QED
          BY <1>3, <5>1
      <4>4. Made(c, k, b)'
        BY <4>1, <4>2, <4>3 DEF Made
      <4> QED
        BY <4>4
    <3>2. CASE k = Len(list[c]) + 1
      <4>1. PICK b \in Int : b = i[c]
        BY <1>3
      <4>2. list'[c][k] = e /\ call' = call /\ base' = base
        BY <1>3, <1>13, <3>2
      <4>3. /\ call'[c].from <= b /\ b < i'[c]
            /\ call'[c].kind # "weekly" => b = call'[c].from + k - 1
        BY <1>3, <1>11, <1>16, <3>2, <4>1
      <4>4. /\ list'[c][k].date = applyOffset(call'[c].g, base'[c], -b)
            /\ list'[c][k].name = formatMoment(DOMAIN list'[c][k].name,
                                               applyOffset(call'[c].g, list'[c][k].clock, -b))
        BY <1>10, <4>1, <4>2
      <4>5. Made(c, k, b)'
        BY <4>3, <4>4 DEF Made
      <4> QED
        BY <4>5
    <3> QED
      BY <2>1, <3>1, <3>2, <1>11, <1>13
  <2>2. ASSUME call'[c].kind = "weekly", NEW k \in DOMAIN list'[c], k > 1
        PROVE  list'[c][k].date < list'[c][k - 1].date
    <3>1. k - 1 \in DOMAIN list[c] /\ k \in Nat
      BY <1>11, <1>13, <2>2
    <3>2. CASE k \in DOMAIN list[c]
      BY <1>1, <1>3, <1>13, <2>2, <3>1, <3>2 DEF Chronicle
    <3>3. CASE k = Len(list[c]) + 1
      <4>1. PICK b \in Int : Made(c, k - 1, b)
        BY <1>1, <3>1 DEF Chronicle
      <4>2. g = "daily"
        BY <1>3, <1>5, <2>2
      <4>3. e.date = base[c] + (-i[c])
        BY <1>3, <1>5, <1>7, <1>10, <4>2, OffsetIs
      <4>4. list[c][k - 1].date = base[c] + (-b) /\ b < i[c]
        BY <1>5, <1>7, <4>1, <4>2, OffsetIs DEF Made
      <4>5. e.date < list[c][k - 1].date
        BY <1>3, <1>7, <4>3, <4>4
      <4> QED
        BY <1>13, <3>1, <3>3, <4>5
    <3> QED
      BY <2>2, <3>2, <3>3, <1>11, <1>13
  <2> QED
    BY <2>1, <2>2 DEF Chronicle
<1>19. OneConfiguration'
  <2>1. cache # None
    BY <1>2 DEF Inv, OneConfiguration
  <2>2. ASSUME ~ raced', NEW d \in Caller
        PROVE  /\ pc'[d] = "resolve" => cfg'[d] = cache'
               /\ \A k \in DOMAIN list'[d] : list'[d][k].folder = cache'[call'[d].g].folder
    <3>1. /\ pc[d] = "resolve" => cfg[d] = cache
          /\ \A k \in DOMAIN list[d] : list[d][k].folder = cache[call[d].g].folder
      BY <1>3, <2>2 DEF Inv, OneConfiguration
    <3>2. CASE d # c
      <4>1. /\ pc'[d] = pc[d] /\ call'[d] = call[d] /\ cfg'[d] = cfg[d] /\ list'[d] = list[d]
        BY <1>15, <3>2 DEF Alone
      <4> QED
        BY <1>3, <3>1, <4>1
    <3>3. CASE d = c
      <4>1. e.folder = cache[g].folder
        BY <1>2, <1>10, <3>1, <3>3
      <4>2. \A k \in DOMAIN list'[c] : k \in DOMAIN list[c] \/ k = Len(list[c]) + 1
        BY <1>11, <1>13
      <4>3. \A k \in DOMAIN list'[c] : list'[c][k].folder = cache[g].folder
        BY <1>13, <3>1, <3>3, <4>1, <4>2
      <4> QED
        BY <1>3, <3>3, <4>3
    <3> QED
      BY <3>2, <3>3
  <2> QED
    BY <1>3, <2>1, <2>2 DEF OneConfiguration
<1> QED
  BY <1>14, <1>15, <1>17, <1>18, <1>19, OneCall

\* A night, an edit of the file, or nothing.
LEMMA WorldStep ==
    ASSUME Inv, Midnight \/ Edit \/ UNCHANGED vars
    PROVE  Inv'
<1>1. /\ UNCHANGED <<cache, loader, raced>>
      /\ UNCHANGED <<pc, call, base, i, cfg, list>>
  BY DEF Midnight, Edit, vars, locals
<1>2. now' \in Nat /\ nights' \in 0..MaxMidnights /\ file' \in File /\ edits' \in 0..MaxEdits
  BY PeriodicConstants DEF Inv, Shape, Midnight, Edit, vars
<1>3. Shape'
  BY <1>1, <1>2 DEF Inv, Shape
<1>4. ASSUME NEW c \in Caller
      PROVE  Local(c)' /\ Chronicle(c)'
  BY <1>1, <1>3, LocalStays, ChronicleStays DEF Inv
<1>5. OneConfiguration'
  BY <1>1 DEF Inv, OneConfiguration
<1> QED
  BY <1>3, <1>4, <1>5 DEF Inv

LEMMA NextInv == Inv /\ [Next]_vars => Inv'
<1> SUFFICES ASSUME Inv, [Next]_vars PROVE Inv'
  OBVIOUS
<1>1. CASE Midnight \/ Edit \/ UNCHANGED vars
  BY <1>1, WorldStep
<1>2. ASSUME NEW c \in Caller, Step(c)
      PROVE  Inv'
  BY <1>2, BeginStep, LoadStep, StoreStep, ErrorStep, ResolveStep, AnswerStep DEF Step
<1> QED
  BY <1>1, <1>2 DEF Next

------------------------------------------------------------------------------
\* What follows

LEMMA TypeHolds ==
    ASSUME Inv
    PROVE  TypeOK
<1>1. Shape
  BY DEF Inv
<1>2. ASSUME NEW e \in Entry
      PROVE  IsEntry(e)
  <2>1. PICK F \in SUBSET Token : e.name \in [F -> Int]
    BY DEF Entry
  <2>2. DOMAIN e.name = F
    BY <2>1
  <2> QED
    BY <2>1, <2>2 DEF Entry, IsEntry
<1>3. ASSUME NEW c \in Caller
      PROVE  /\ cfg[c] # None => IsConfig(cfg[c])
             /\ \A k \in DOMAIN list[c] : IsEntry(list[c][k])
             /\ (pc[c] = "idle") <=> (call[c] = None)
             /\ (pc[c] \in {"store", "resolve"}) <=> (cfg[c] # None)
             /\ IF pc[c] = "idle" THEN list[c] = <<>> /\ i[c] = 0
                ELSE /\ i[c] \in call[c].from..call[c].from + call[c].count
                     /\ Len(list[c]) <= i[c] - call[c].from
                     /\ call[c].kind # "weekly" => Len(list[c]) = i[c] - call[c].from
  <2>1. Local(c)
    BY DEF Inv
  <2>2. list[c] \in Seq(Entry)
    BY <1>1 DEF Shape
  <2>3. \A k \in DOMAIN list[c] : list[c][k] \in Entry
    BY <2>2
  <2> QED
    BY <1>2, <2>1, <2>3 DEF Local
<1>4. DOMAIN list = Caller
  BY <1>1 DEF Shape
<1> QED
  BY <1>1, <1>3, <1>4 DEF Shape, TypeOK

\* What an entry of a list is, for the properties.
LEMMA ListedEntry ==
    ASSUME Inv, NEW p \in Listed
    PROVE  /\ p[1] \in Caller /\ p[2] \in Nat /\ p[2] >= 1 /\ p[2] \in DOMAIN list[p[1]]
           /\ EntryAt(p) = list[p[1]][p[2]] /\ EntryAt(p) \in Entry
           /\ call[p[1]] \in Call /\ call[p[1]].g \in Granularity
           /\ base[p[1]] \in Int /\ EntryAt(p).clock \in Int
           /\ \E b \in Int : Made(p[1], p[2], b)
           /\ call[p[1]].from \in Int /\ call[p[1]].count \in Nat
           /\ i[p[1]] \in Int /\ i[p[1]] <= call[p[1]].from + call[p[1]].count
<1>1. p[1] \in Caller /\ p[2] \in 1..MaxCount /\ p[2] \in DOMAIN list[p[1]]
  BY DEF Listed
<1> DEFINE c == p[1]
<1>2. Shape /\ Local(c) /\ Chronicle(c)
  BY <1>1 DEF Inv
<1>3. list[c] \in Seq(Entry) /\ base[c] \in Nat
  BY <1>1, <1>2 DEF Shape
<1>4. EntryAt(p) = list[p[1]][p[2]] /\ EntryAt(p) \in Entry
  BY <1>1, <1>3 DEF EntryAt
<1>5. pc[c] # "idle" /\ call[c] # None
  BY <1>1, <1>2 DEF Local
<1>6. call[c] \in Call
  BY <1>1, <1>2, <1>5 DEF Shape
<1>7. i[c] \in call[c].from..call[c].from + call[c].count
  BY <1>2, <1>5 DEF Local
<1>8. EntryAt(p).clock \in Int
  BY <1>4 DEF Entry
<1> QED
  BY <1>1, <1>2, <1>3, <1>4, <1>6, <1>7, <1>8, CallFields, PeriodicConstants DEF Chronicle

LEMMA PathsHold ==
    ASSUME Inv
    PROVE  PathsNameTheirDates
<1>1. ASSUME NEW p \in Listed, NEW q \in Listed, call[q[1]].g = call[p[1]].g,
             InTime(p), InTime(q), Usual(p), Usual(q)
      PROVE  EntryAt(p).name = EntryAt(q).name
             <=> Period(call[p[1]].g, EntryAt(p).date) = Period(call[p[1]].g, EntryAt(q).date)
  <2> DEFINE g == call[p[1]].g
  <2>1. PICK b \in Int : Made(p[1], p[2], b)
    BY ListedEntry
  <2>2. PICK d \in Int : Made(q[1], q[2], d)
    BY ListedEntry
  <2>3. g \in Granularity
    BY ListedEntry
  <2>4. EntryAt(p).name = formatMoment(Default[g].format, EntryAt(p).date)
    BY <1>1, <2>1, ListedEntry DEF Made, InTime, Usual
  <2>5. EntryAt(q).name = formatMoment(Default[g].format, EntryAt(q).date)
    BY <1>1, <2>2, ListedEntry DEF Made, InTime, Usual
  <2>6. EntryAt(p).date \in Int /\ EntryAt(q).date \in Int
    BY ListedEntry DEF Entry
  <2> QED
    BY <2>3, <2>4, <2>5, <2>6, NamesArePeriods
<1>2. ASSUME NEW p \in Listed, call[p[1]].g = "daily", Usual(p)
      PROVE  Days(EntryAt(p).name["YYYY"], EntryAt(p).name["MM"], EntryAt(p).name["DD"])
             = EntryAt(p).date + EntryAt(p).clock - base[p[1]]
  <2> DEFINE t == EntryAt(p).clock
             F == Default["daily"].format
  <2>1. PICK b \in Int : Made(p[1], p[2], b)
    BY ListedEntry
  <2>2. /\ EntryAt(p).date = applyOffset("daily", base[p[1]], -b)
        /\ EntryAt(p).name = formatMoment(F, applyOffset("daily", t, -b))
    BY <1>2, <2>1, ListedEntry DEF Made, Usual
  <2>3. "daily" \in Granularity /\ -b \in Int /\ t \in Int /\ base[p[1]] \in Int
    BY ListedEntry DEF Granularity
  <2> HIDE DEF t
  <2>4. applyOffset("daily", base[p[1]], -b) = base[p[1]] + (-b) /\ applyOffset("daily", t, -b) = t + (-b)
    BY <2>3, OffsetIs
  <2> DEFINE n == t + (-b)
  <2>5. n \in Int
    BY <2>3
  <2>6. F = {"YYYY", "MM", "DD"}
    BY DefaultFormats
  <2> HIDE DEF n, F
  <2>7. EntryAt(p).name = formatMoment(F, n)
    BY <2>2, <2>4 DEF n
  <2>8. /\ EntryAt(p).name["YYYY"] = Year(n) /\ EntryAt(p).name["MM"] = Month(n)
        /\ EntryAt(p).name["DD"] = Day(n)
    BY <2>6, <2>7, NameOfDay
  <2>9. Days(Year(n), Month(n), Day(n)) = n
    <3>1. /\ Year(n) \in Int /\ Month(n) \in Twelve /\ Day(n) \in Int
          /\ FirstOf(MonthNo(n)) = Days(Year(n), Month(n), 1) /\ n = FirstOf(MonthNo(n)) + Day(n) - 1
      BY <2>5, MonthOf
    <3> QED
      BY <3>1, DaysAdd
  <2>10. n = EntryAt(p).date + t - base[p[1]]
    BY <2>2, <2>3, <2>4 DEF n
  <2> QED
    BY <2>8, <2>9, <2>10 DEF t
<1>3. ASSUME ~ raced, NEW p \in Listed
      PROVE  EntryAt(p).folder = cache[call[p[1]].g].folder
  BY <1>3, ListedEntry DEF Inv, OneConfiguration
<1> QED
  BY <1>1, <1>2, <1>3 DEF PathsNameTheirDates

LEMMA ListsHold ==
    ASSUME Inv
    PROVE  NotesAreConsecutive
<1> SUFFICES ASSUME NEW p \in Listed
             PROVE  LET r == call[p[1]]
                        back == r.from + p[2] - 1
                        late == Period(r.g, EntryAt(p).date) - (Period(r.g, base[p[1]]) - back)
                    IN  IF r.kind = "weekly"
                        THEN /\ base[p[1]] - EntryAt(p).date \in r.from..r.from + r.count - 1
                             /\ p[2] > 1 => EntryAt(p).date < EntryAt(<<p[1], p[2] - 1>>).date
                        ELSE late \in IF r.g \in {"monthly", "quarterly"} /\ Day(base[p[1]]) > 28
                                      THEN {0, 1} ELSE {0}
  BY DEF NotesAreConsecutive
<1> DEFINE c == p[1]
           r == call[c]
<1>1. PICK b \in Int : Made(c, p[2], b)
  BY ListedEntry
<1>2. /\ c \in Caller /\ r \in Call /\ r.g \in Granularity /\ base[c] \in Int /\ p[2] \in Nat
      /\ r.from \in Int /\ r.count \in Nat /\ i[c] \in Int /\ i[c] <= r.from + r.count
      /\ p[2] \in DOMAIN list[c] /\ EntryAt(p) = list[c][p[2]]
  BY ListedEntry
<1>3. /\ EntryAt(p).date = applyOffset(r.g, base[c], -b) /\ r.from <= b /\ b < i[c]
      /\ r.kind # "weekly" => b = r.from + p[2] - 1
  BY <1>1, <1>2 DEF Made
<1>4. CASE r.kind = "weekly"
  <2>1. r.g = "daily"
    BY <1>2, <1>4, CallFields
  <2>2. EntryAt(p).date = base[c] + (-b)
    BY <1>2, <1>3, <2>1, OffsetIs
  <2>3. base[c] - EntryAt(p).date \in r.from..r.from + r.count - 1
    BY <1>2, <1>3, <2>2
  <2>4. ASSUME p[2] > 1
        PROVE  EntryAt(p).date < EntryAt(<<c, p[2] - 1>>).date
    <3>1. EntryAt(<<c, p[2] - 1>>) = list[c][p[2] - 1]
      BY DEF EntryAt
    <3>2. list[c][p[2]].date < list[c][p[2] - 1].date
      BY <1>2, <1>4, <2>4 DEF Inv, Chronicle
    <3> QED
      BY <1>2, <3>1, <3>2
  <2> QED
    BY <1>4, <2>3, <2>4
<1>5. CASE r.kind # "weekly"
  <2>1. -b \in Int
    OBVIOUS
  <2>2. Period(r.g, EntryAt(p).date) - (Period(r.g, base[c]) + (-b))
           \in IF r.g \in {"monthly", "quarterly"} /\ Day(base[c]) > 28 THEN {0, 1} ELSE {0}
    BY <1>2, <1>3, <2>1, OffsetIs
  <2>3. Period(r.g, base[c]) \in Int
    BY <1>2, <2>1, OffsetIs
  <2>4. Period(r.g, base[c]) + (-b) = Period(r.g, base[c]) - (r.from + p[2] - 1)
    BY <1>2, <1>3, <1>5, <2>3
  <2> QED
    BY <1>5, <2>2, <2>4
<1> QED
  BY <1>4, <1>5

\* No call, night or edit breaks what the invariant says of the lists, for any requests,
\* formats and number of concurrent calls.
THEOREM Safety == Spec => []Inv
<1>1. Init => Inv
  BY InitInv
<1>2. Inv /\ [Next]_vars => Inv'
  BY NextInv
<1> QED
  BY <1>1, <1>2, PTL DEF Spec

\* The locals of every call, and what its list holds, are of their types (RecentDates
\* and Resolve of internal/periodic, with the loops of their callers).
THEOREM TypeCorrect == Spec => []TypeOK
<1>1. Inv => TypeOK
  BY TypeHolds
<1> QED
  BY <1>1, Safety, PTL

\* On every day of the calendar of package time two entries with the default formats
\* are of one note exactly if their dates are of one period; daily paths name their
\* day, late by the nights since the call began; and all paths are of one
\* configuration unless two calls were the first to load it.
THEOREM PathsAlwaysNameTheirDates == Spec => []PathsNameTheirDates
<1>1. Inv => PathsNameTheirDates
  BY PathsHold
<1> QED
  BY <1>1, Safety, PTL

\* The entries of a list are consecutive periods, for every date, offset and number;
\* only in the last days of a month AddDate can go one month too far.
THEOREM ListsHaveNoGaps == Spec => []NotesAreConsecutive
<1>1. Inv => NotesAreConsecutive
  BY ListsHold
<1> QED
  BY <1>1, Safety, PTL
=============================================================================
