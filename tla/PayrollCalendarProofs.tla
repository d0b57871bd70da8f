------------------------ MODULE PayrollCalendarProofs ------------------------
(***************************************************************************)
(* The pay periods partition every year.                                   *)
(***************************************************************************)
EXTENDS PayrollCalendar, TLAPS

\* Dividing by a positive number.
LEMMA Division ==
  ASSUME NEW a \in Int, NEW d \in Nat \ {0}
  PROVE  a \div d \in Int /\ a % d \in 0..(d - 1) /\ a = d * (a \div d) + (a % d)
OBVIOUS

\* A year starts on a Monday: a whole number of weeks after day 1.
LEMMA StartOfYear ==
  ASSUME NEW y \in Nat \ {0}
  PROVE  /\ Jan4(y) \in Int
         /\ IsoYearStart(y) = 7 * ((Jan4(y) - 1) \div 7) + 1
         /\ IsoYearStart(y) \in Int
<1>1. Jan4(y) \in Int
  BY DEF Jan4
<1>2. Jan4(y) - 1 = 7 * ((Jan4(y) - 1) \div 7) + ((Jan4(y) - 1) % 7)
  BY <1>1
<1> QED BY <1>1, <1>2 DEF IsoYearStart, Weekday

\* A year has 365 or 366 days.
LEMMA DaysInYear ==
  ASSUME NEW y \in Nat \ {0}
  PROVE  Jan4(y + 1) - Jan4(y) \in 365..366
<1> DEFINE p == y - 1
<1>1. p \in Nat /\ y = p + 1
  OBVIOUS
<1> HIDE DEF p
<1>2. (p + 1) \div 4 - (p \div 4) = IF (p + 1) % 4 = 0 THEN 1 ELSE 0
  BY <1>1
<1>3. (p + 1) \div 100 - (p \div 100) = IF (p + 1) % 100 = 0 THEN 1 ELSE 0
  BY <1>1
<1>4. (p + 1) \div 400 - (p \div 400) = IF (p + 1) % 400 = 0 THEN 1 ELSE 0
  BY <1>1
<1>5. /\ (p + 1) % 100 = 0 => (p + 1) % 4 = 0
      /\ (p + 1) % 400 = 0 => (p + 1) % 100 = 0
  BY <1>1
<1>6. Jan4(y) = 365 * p + (p \div 4) - (p \div 100) + (p \div 400) + 4
  BY <1>1 DEF Jan4
<1>7. Jan4(y + 1) = 365 * (p + 1) + ((p + 1) \div 4) - ((p + 1) \div 100) + ((p + 1) \div 400) + 4
  BY <1>1 DEF Jan4
<1> QED BY <1>1, <1>2, <1>3, <1>4, <1>5, <1>6, <1>7

LEMMA WeeksInYear ==
  ASSUME NEW y \in Nat \ {0}
  PROVE  /\ IsoWeeksInYear(y) \in {52, 53}
         /\ IsoYearStart(y + 1) = IsoYearStart(y) + 7 * IsoWeeksInYear(y)
<1> DEFINE a == Jan4(y) - 1
<1> DEFINE b == Jan4(y + 1) - 1
<1>1. a \in Int /\ b \in Int /\ b - a \in 365..366
  <2>1. Jan4(y) \in Int /\ Jan4(y + 1) \in Int
    BY StartOfYear
  <2> QED BY <2>1, DaysInYear
<1>2. IsoYearStart(y) = 7 * (a \div 7) + 1 /\ IsoYearStart(y + 1) = 7 * (b \div 7) + 1
  BY StartOfYear
<1> HIDE DEF a, b
<1>3. (b \div 7) - (a \div 7) \in {52, 53}
  BY <1>1
<1>4. IsoWeeksInYear(y) = (b \div 7) - (a \div 7)
  BY <1>1, <1>2 DEF IsoWeeksInYear
<1> QED BY <1>1, <1>2, <1>3, <1>4

-----------------------------------------------------------------------------
(* The loop *)

\* Where the n-th period of a year begins and ends.
StartOf(y, n) == IsoYearStart(y) + 28 * (n - 1)
EndOf(y, n) == IF n = 13 THEN IsoYearStart(y + 1) - 1 ELSE IsoYearStart(y) + 28 * n - 1

OptionsSoFar ==
  \E k \in 0..13 :
    /\ Len(options) = k
    /\ weekOffset = IF k = 13 THEN IsoWeeksInYear(year) ELSE 4 * k
    /\ \A n \in 1..k : /\ options[n].start = StartOf(year, n)
                       /\ options[n].end = EndOf(year, n)
    /\ pc = "done" => k = 13

IInv == TypeOK /\ OptionsSoFar

LEMMA InitSound == YearsAssumption /\ Init => IInv
<1> SUFFICES ASSUME YearsAssumption, Init PROVE IInv
  OBVIOUS
<1>1. TypeOK
  BY DEF Init, TypeOK
<1>2. OptionsSoFar
  BY DEF Init, OptionsSoFar
<1> QED BY <1>1, <1>2 DEF IInv

LEMMA AddSound ==
  ASSUME YearsAssumption, IInv, AddPeriod
  PROVE  IInv'
<1> DEFINE weeks == IsoWeeksInYear(year)
<1> DEFINE first == IsoYearStart(year)
<1> DEFINE periodWeeks == PeriodWeeks(weeks, weekOffset)
<1> DEFINE option == [start |-> first + weekOffset * 7,
                      end |-> first + weekOffset * 7 + periodWeeks * 7 - 1]
<1>1. /\ year \in Nat \ {0} /\ weekOffset \in Nat
      /\ options \in Seq([start : Int, end : Int])
  BY DEF YearsAssumption, IInv, TypeOK
<1>2. /\ weeks \in {52, 53} /\ first \in Int
      /\ IsoYearStart(year + 1) = first + 7 * weeks
  BY <1>1, StartOfYear, WeeksInYear
<1>3. /\ pc = "loop" /\ weekOffset < weeks
      /\ options' = Append(options, option)
      /\ weekOffset' = weekOffset + periodWeeks
      /\ year' = year /\ pc' = pc
  BY DEF AddPeriod
<1>4. PICK k \in 0..13 :
        /\ Len(options) = k
        /\ weekOffset = IF k = 13 THEN weeks ELSE 4 * k
        /\ \A n \in 1..k : /\ options[n].start = StartOf(year, n)
                           /\ options[n].end = EndOf(year, n)
  BY DEF IInv, OptionsSoFar
<1>5. k \in 0..12 /\ weekOffset = 4 * k
  BY <1>2, <1>3, <1>4
<1>6. periodWeeks = IF k = 12 THEN weeks - 48 ELSE 4
  <2> HIDE DEF weeks
  <2> QED BY <1>2, <1>5 DEF PeriodWeeks
<1>7. weekOffset' = IF k + 1 = 13 THEN weeks ELSE 4 * (k + 1)
  <2> HIDE DEF weeks, periodWeeks
  <2> QED BY <1>2, <1>3, <1>5, <1>6
<1>8. option.start = StartOf(year, k + 1) /\ option.end = EndOf(year, k + 1)
  <2>1. option.start = first + weekOffset * 7
    OBVIOUS
  <2>2. option.end = first + weekOffset * 7 + periodWeeks * 7 - 1
    OBVIOUS
  <2> HIDE DEF weeks, first, periodWeeks, option
  <2>3. StartOf(year, k + 1) = first + 28 * k
    BY <1>2 DEF StartOf, first
  <2>4. EndOf(year, k + 1) = IF k = 12 THEN first + 7 * weeks - 1 ELSE first + 28 * (k + 1) - 1
    BY <1>2, <1>5 DEF EndOf, first
  <2> QED BY <1>2, <1>5, <1>6, <2>1, <2>2, <2>3, <2>4
<1>9. option \in [start : Int, end : Int]
  <2>1. periodWeeks \in Int
    <3> HIDE DEF weeks
    <3> QED BY <1>2 DEF PeriodWeeks
  <2> HIDE DEF first, periodWeeks
  <2> QED BY <1>1, <1>2, <2>1
<1>10. TypeOK'
  <2>1. weekOffset' \in Nat
    <3> HIDE DEF weeks
    <3> QED BY <1>2, <1>5, <1>7
  <2> HIDE DEF option
  <2> QED BY <1>1, <1>3, <1>9, <2>1 DEF IInv, TypeOK
<1>11. OptionsSoFar'
  <2> HIDE DEF option, weeks
  <2>1. /\ Len(options') = k + 1 /\ k + 1 \in 0..13
        /\ options'[k + 1] = option
        /\ \A n \in 1..k : options'[n] = options[n]
    <3> DEFINE S == [start : Int, end : Int]
    <3>1. options \in Seq(S) /\ option \in S /\ options' = Append(options, option)
      BY <1>1, <1>3, <1>9
    <3> HIDE DEF S
    <3> QED BY <3>1, <1>4, <1>5
  <2>2. \A n \in 1..(k + 1) : /\ options'[n].start = StartOf(year, n)
                             /\ options'[n].end = EndOf(year, n)
    BY <1>4, <1>5, <1>8, <2>1
  <2>3. IsoWeeksInYear(year)' = weeks /\ \A n : StartOf(year, n)' = StartOf(year, n)
                                   /\ EndOf(year, n)' = EndOf(year, n)
    BY <1>3 DEF StartOf, EndOf, weeks
  <2> QED BY <1>3, <1>7, <2>1, <2>2, <2>3 DEF OptionsSoFar, weeks
<1> QED BY <1>10, <1>11 DEF IInv

LEMMA NextSound == YearsAssumption /\ IInv /\ [Next]_vars => IInv'
<1> SUFFICES ASSUME YearsAssumption, IInv, [Next]_vars PROVE IInv'
  OBVIOUS
<1>1. CASE AddPeriod
  BY <1>1, AddSound
<1>2. CASE Return
  <2>1. year \in Nat \ {0}
    BY DEF YearsAssumption, IInv, TypeOK
  <2>2. IsoWeeksInYear(year) \in {52, 53}
    BY <2>1, WeeksInYear
  <2>3. /\ UNCHANGED <<year, weekOffset, options>> /\ pc' = "done"
        /\ weekOffset >= IsoWeeksInYear(year)
    BY <1>2 DEF Return
  <2>4. TypeOK'
    BY <2>3 DEF IInv, TypeOK
  <2>5. OptionsSoFar'
    <3>1. PICK k \in 0..13 :
            /\ Len(options) = k
            /\ weekOffset = IF k = 13 THEN IsoWeeksInYear(year) ELSE 4 * k
            /\ \A n \in 1..k : /\ options[n].start = StartOf(year, n)
                               /\ options[n].end = EndOf(year, n)
      BY DEF IInv, OptionsSoFar
    <3>2. k = 13
      BY <2>2, <2>3, <3>1
    <3>3. IsoWeeksInYear(year)' = IsoWeeksInYear(year)
      BY <2>3
    <3>4. \A n \in 1..k : StartOf(year, n)' = StartOf(year, n) /\ EndOf(year, n)' = EndOf(year, n)
      BY <2>3 DEF StartOf, EndOf
    <3> QED BY <2>3, <3>1, <3>2, <3>3, <3>4 DEF OptionsSoFar
  <2> QED BY <2>4, <2>5 DEF IInv
<1>3. CASE UNCHANGED vars
  BY <1>3 DEF vars, IInv, TypeOK, OptionsSoFar, StartOf, EndOf
<1> QED BY <1>1, <1>2, <1>3 DEF Next

LEMMA Partitioned == YearsAssumption /\ IInv => PeriodsPartitionYear
<1> SUFFICES ASSUME YearsAssumption, IInv, pc = "done" PROVE PeriodsPartitionYear
  BY DEF PeriodsPartitionYear
<1> DEFINE first == IsoYearStart(year)
<1> DEFINE next == IsoYearStart(year + 1)
<1>1. first \in Int /\ next \in Int /\ next - first \in {364, 371}
  <2>1. year \in Nat \ {0}
    BY DEF YearsAssumption, IInv, TypeOK
  <2> QED BY <2>1, StartOfYear, WeeksInYear
<1>2. /\ Len(options) = 13
      /\ \A n \in 1..13 : /\ options[n].start = first + 28 * (n - 1)
                          /\ options[n].end = IF n = 13 THEN next - 1 ELSE first + 28 * n - 1
  BY DEF IInv, OptionsSoFar, StartOf, EndOf
<1> HIDE DEF first, next
<1>3. ASSUME NEW day \in first..(next - 1)
      PROVE  \E n \in 1..Len(options) : PeriodsOf(day) = {n}
  <2> DEFINE d == day - first
  <2> DEFINE n == IF d >= 336 THEN 13 ELSE (d \div 28) + 1
  <2>1. d \in 0..370 /\ day = first + d /\ day \in Int
    BY <1>1
  <2>2. n \in 1..13
    <3> HIDE DEF d
    <3> QED BY <2>1
  <2>3. ASSUME NEW m \in 1..13
        PROVE  InPeriod(day, options[m]) <=> m = n
    <3>1. InPeriod(day, options[m]) <=>
            /\ first + 28 * (m - 1) <= day
            /\ day <= IF m = 13 THEN next - 1 ELSE first + 28 * m - 1
      BY <1>2 DEF InPeriod
    <3> HIDE DEF d
    <3> QED BY <1>1, <2>1, <3>1
  <2> HIDE DEF n
  <2> QED BY <1>2, <2>2, <2>3 DEF PeriodsOf
<1>4. ASSUME NEW n \in 1..Len(options)
      PROVE  options[n].start >= first /\ options[n].end < next
  <2>1. n \in 1..13
    BY <1>2
  <2> QED BY <1>1, <1>2, <2>1
<1> QED BY <1>3, <1>4 DEF PeriodsPartitionYear, first, next

\* Every variable keeps its type, in any year (payrollPeriodOptionsForYear).
THEOREM TypeCorrect == ASSUME YearsAssumption PROVE Spec => []TypeOK
<1>1. IInv => TypeOK
  BY DEF IInv
<1> QED BY InitSound, NextSound, <1>1, PTL DEF Spec

\* The periods of any year partition it (payrollPeriodOptionsForYear): four
\* weeks each, and five for the last of a year of 53.
THEOREM YearsPartitioned == ASSUME YearsAssumption PROVE Spec => []PeriodsPartitionYear
BY InitSound, NextSound, Partitioned, PTL DEF Spec
=============================================================================
