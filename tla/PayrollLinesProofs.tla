-------------------------- MODULE PayrollLinesProofs --------------------------
(***************************************************************************)
(* The lines of a shift cover it, whatever the shift and the rates.        *)
(***************************************************************************)
EXTENDS PayrollLines, TLAPS

LEMMA Division ==
  ASSUME NEW a \in Nat, NEW d \in Nat \ {0}
  PROVE  /\ a \div d \in Nat /\ a % d \in 0..(d - 1)
         /\ a < d => a % d = a
         /\ a >= d /\ a < 2 * d => a % d = a - d
<1> DEFINE q == a \div d
<1>1. q \in Int /\ a % d \in 0..(d - 1) /\ a = d * q + (a % d)
  OBVIOUS
<1> HIDE DEF q
<1>2. q >= 0
  <2> SUFFICES ASSUME q <= -1 PROVE FALSE
    BY <1>1
  <2>1. d * q <= -d
    BY <1>1
  <2> QED BY <1>1, <2>1
<1>3. q = 0 \/ q = 1 \/ d * q >= 2 * d
  BY <1>1, <1>2
<1>4. q = 0 => a % d = a
  BY <1>1
<1>5. q = 1 => a % d = a - d
  BY <1>1
<1> QED BY <1>1, <1>2, <1>3, <1>4, <1>5 DEF q

LEMMA Days ==
  ASSUME LinesAssumption, NEW m \in Nat
  PROVE  DayMinutes \in Nat \ {0} /\ DayOf(m) \in Nat /\ MinuteOfDay(m) \in 0..(DayMinutes - 1)
<1>1. DayMinutes \in Nat \ {0}
  BY DEF LinesAssumption, DayMinutes
<1> QED BY <1>1, Division DEF DayOf, MinuteOfDay

LEMMA RateTyped == \A i, m : AppliedRate(i, m) \in Rates
BY DEF AppliedRate, OrtRateForMinute, Rates

\* What the walk knows of a shift.
ShiftOK(i) ==
  /\ i.from \in Nat /\ i.to \in Nat /\ i.fromSecond \in Nat /\ i.toSecond \in Nat
  /\ End(i) \in Nat
  /\ WholeMinutes(i) => i.from < End(i)
  /\ WholeMinutes(i) /\ AtMostADay(i) => End(i) = i.to

LEMMA Shifts == ASSUME LinesAssumption PROVE \A i \in Items : ShiftOK(i)
<1> TAKE i \in Items
<1>1. /\ i.from \in 0..(DayMinutes - 1) /\ i.to \in Nat
      /\ i.fromSecond \in Nat /\ i.toSecond \in Nat
      /\ i.from < i.to \/ (i.from = i.to /\ i.fromSecond < i.toSecond)
  BY DEF LinesAssumption
<1> DEFINE to == MinuteOfDay(i.to)
<1>2. /\ DayMinutes \in Nat \ {0} /\ to \in 0..(DayMinutes - 1)
      /\ i.to < DayMinutes => to = i.to
      /\ i.to >= DayMinutes /\ i.to < 2 * DayMinutes => to = i.to - DayMinutes
  BY <1>1, Days, Division DEF MinuteOfDay
<1>3. End(i) = IF to < i.from \/ (to = i.from /\ i.toSecond <= i.fromSecond)
               THEN to + DayMinutes ELSE to
  BY DEF End
<1> HIDE DEF to
<1>4. AtMostADay(i) => i.to < i.from + DayMinutes \/ (i.to = i.from + DayMinutes /\ i.toSecond <= i.fromSecond)
  BY DEF AtMostADay
<1> QED BY <1>1, <1>2, <1>3, <1>4 DEF ShiftOK, WholeMinutes

-----------------------------------------------------------------------------
(* The walk *)

\* The open line begins where the last one ended, and every minute of it so
\* far has its rate and its day.
OpenLine ==
  /\ segmentStart = Covered
  /\ item.from <= segmentStart /\ segmentStart <= current
  /\ current > item.from => Before(item, current - 1)
  /\ \A m \in segmentStart..current :
       Before(item, m) => AppliedRate(item, m) = segmentRate /\ DayOf(m) = segmentDay

\* A shift of whole minutes is met at its end exactly.
MeetsEnd ==
  WholeMinutes(item) =>
    current <= End(item) /\ (current = End(item) => segmentStart = End(item))

Walk ==
  /\ pc \in {"scan", "done"} => Consecutive /\ Uniform /\ OpenLine /\ MeetsEnd
  /\ pc = "parse" => current = item.from /\ segmentStart = item.from /\ segments = <<>>
  /\ pc = "done" => ~Before(item, current)

IInv == TypeOK /\ Walk

LEMMA InitSound == LinesAssumption /\ Init => IInv
<1> SUFFICES ASSUME LinesAssumption, Init PROVE IInv
  OBVIOUS
<1>1. item \in Items /\ item.from \in Nat
  BY DEF Init, LinesAssumption
<1> QED BY <1>1 DEF Init, IInv, TypeOK, Walk, Rates

LEMMA BeginSound ==
  ASSUME LinesAssumption, IInv, Begin
  PROVE  IInv'
<1>1. /\ pc = "parse" /\ pc' = "scan" /\ TotalMinutes(item) > 0
      /\ segmentRate' = AppliedRate(item, current) /\ segmentDay' = DayOf(current)
      /\ UNCHANGED <<item, current, segmentStart, segments>>
      /\ current = item.from /\ segmentStart = item.from /\ segments = <<>>
      /\ item \in Items /\ current \in Nat
  BY DEF Begin, IInv, Walk, TypeOK
<1>2. ShiftOK(item)
  BY <1>1, Shifts
<1>3. TypeOK'
  BY <1>1, RateTyped, Days DEF IInv, TypeOK
<1>4. Consecutive' /\ Uniform'
  BY <1>1 DEF Consecutive, Uniform
<1>5. OpenLine'
  <2>1. Covered' = item.from
    BY <1>1 DEF Covered
  <2> QED BY <1>1, <2>1 DEF OpenLine
<1>6. MeetsEnd'
  BY <1>1, <1>2 DEF MeetsEnd, ShiftOK
<1> QED BY <1>1, <1>3, <1>4, <1>5, <1>6 DEF IInv, Walk

LEMMA BeforeDown ==
  ASSUME NEW i, ShiftOK(i), NEW m \in Nat, NEW n \in Nat, n < m, Before(i, m)
  PROVE  Before(i, n)
BY DEF Before, ShiftOK

LEMMA MinuteSound ==
  ASSUME LinesAssumption, IInv, Minute
  PROVE  IInv'
<1> DEFINE S == [day : Nat, from : Nat, to : Nat, rate : Rates]
<1> DEFINE line == [day |-> segmentDay, from |-> segmentStart, to |-> current + 1,
                    rate |-> segmentRate]
<1>1. /\ pc = "scan" /\ Before(item, current)
      /\ current' = current + 1 /\ item' = item /\ pc' = pc
      /\ item \in Items /\ current \in Nat /\ segmentStart \in Nat
      /\ segmentRate \in Rates /\ segmentDay \in Nat /\ segments \in Seq(S)
      /\ Consecutive /\ Uniform /\ OpenLine /\ MeetsEnd
  BY DEF Minute, IInv, Walk, TypeOK
<1>2. ShiftOK(item)
  BY <1>1, Shifts
<1>3. /\ segmentStart = Covered
      /\ item.from <= segmentStart /\ segmentStart <= current
      /\ \A m \in segmentStart..current :
           AppliedRate(item, m) = segmentRate /\ DayOf(m) = segmentDay
  <2>1. \A m \in segmentStart..current : Before(item, m)
    BY <1>1, <1>2, BeforeDown DEF OpenLine
  <2> QED BY <1>1, <2>1 DEF OpenLine
<1>4. MeetsEnd => (WholeMinutes(item) => current + 1 <= End(item))
  BY <1>1, <1>2 DEF MeetsEnd, WholeMinutes, Before, ShiftOK
<1>5. NextRate \in Rates /\ NextDay \in Nat
  BY <1>1, RateTyped, Days DEF NextRate, NextDay
<1>6. Before(item, current + 1) =>
        AppliedRate(item, current + 1) = NextRate /\ DayOf(current + 1) = NextDay
  BY DEF NextRate, NextDay
<1>7. WholeMinutes(item) /\ current + 1 = End(item) => LineEnds
  BY DEF LineEnds, IsEnd, WholeMinutes
<1>8. CASE LineEnds
  <2>1. /\ segments' = Append(segments, line) /\ segmentStart' = current + 1
        /\ segmentRate' = NextRate /\ segmentDay' = NextDay
    BY <1>8 DEF Minute
  <2>2. line \in S
    BY <1>1
  <2>3. TypeOK'
    <3>1. segments' \in Seq(S)
      <4> HIDE DEF line, S
      <4> QED BY <1>1, <2>1, <2>2
    <3> HIDE DEF line
    <3> QED BY <1>1, <1>5, <2>1, <3>1 DEF TypeOK
  <2>4. /\ Len(segments) \in Nat /\ Len(segments') = Len(segments) + 1
        /\ segments'[Len(segments) + 1] = line
        /\ \A n \in 1..Len(segments) : segments'[n] = segments[n]
        /\ segments' # <<>>
    <3> HIDE DEF line, S
    <3> QED BY <1>1, <2>1, <2>2
  <2>5. /\ line.from = segmentStart /\ line.to = current + 1
        /\ line.rate = segmentRate /\ line.day = segmentDay
    OBVIOUS
  <2>6. segmentStart = IF Len(segments) = 0 THEN item.from ELSE segments[Len(segments)].to
    BY <1>1, <1>3 DEF Covered
  <2> HIDE DEF line
  <2>7. Consecutive'
    <3> SUFFICES ASSUME NEW n \in 1..Len(segments')
                 PROVE  segments'[n].from = IF n = 1 THEN item.from ELSE segments'[n - 1].to
      BY <1>1 DEF Consecutive
    <3>1. CASE n = Len(segments) + 1
      BY <2>4, <2>5, <2>6, <3>1
    <3>2. CASE n \in 1..Len(segments)
      <4>1. segments'[n].from = IF n = 1 THEN item.from ELSE segments[n - 1].to
        BY <1>1, <2>4, <3>2 DEF Consecutive
      <4>2. n = 1 \/ n - 1 \in 1..Len(segments)
        BY <2>4, <3>2
      <4> QED BY <2>4, <4>1, <4>2
    <3> QED BY <2>4, <3>1, <3>2
  <2>8. Uniform'
    <3> SUFFICES ASSUME NEW n \in 1..Len(segments'),
                        NEW m \in segments'[n].from..(segments'[n].to - 1)
                 PROVE  AppliedRate(item, m) = segments'[n].rate /\ DayOf(m) = segments'[n].day
      BY <1>1 DEF Uniform
    <3>1. CASE n = Len(segments) + 1
      <4>1. m \in segmentStart..current
        BY <1>1, <2>4, <2>5, <3>1
      <4> QED BY <1>3, <2>4, <2>5, <3>1, <4>1
    <3>2. CASE n \in 1..Len(segments)
      BY <1>1, <2>4, <3>2 DEF Uniform
    <3> QED BY <2>4, <3>1, <3>2
  <2>9. OpenLine'
    <3>1. Covered' = current + 1
      BY <2>4, <2>5 DEF Covered
    <3>2. \A m \in segmentStart'..current' :
            Before(item, m) => AppliedRate(item, m) = segmentRate' /\ DayOf(m) = segmentDay'
      BY <1>1, <1>6, <2>1
    <3>3. Before(item, current' - 1)
      BY <1>1
    <3>4. /\ segmentStart' = Covered' /\ item.from <= segmentStart'
          /\ segmentStart' <= current'
      BY <1>1, <1>2, <1>3, <2>1, <3>1 DEF ShiftOK
    <3> QED BY <1>1, <3>2, <3>3, <3>4 DEF OpenLine
  <2>10. MeetsEnd'
    BY <1>1, <1>2, <1>4, <2>1 DEF MeetsEnd, ShiftOK
  <2> QED BY <1>1, <2>3, <2>7, <2>8, <2>9, <2>10 DEF IInv, Walk
<1>9. CASE ~LineEnds
  <2>1. UNCHANGED <<segmentStart, segmentRate, segmentDay, segments>>
    BY <1>9 DEF Minute
  <2>2. NextRate = segmentRate /\ NextDay = segmentDay
    BY <1>9 DEF LineEnds
  <2>3. TypeOK'
    BY <1>1, <2>1 DEF TypeOK
  <2>4. Consecutive' /\ Uniform'
    BY <1>1, <2>1 DEF Consecutive, Uniform
  <2>5. OpenLine'
    <3>1. Covered' = Covered
      BY <1>1, <2>1 DEF Covered
    <3>2. \A m \in segmentStart..(current + 1) :
            Before(item, m) => AppliedRate(item, m) = segmentRate /\ DayOf(m) = segmentDay
      BY <1>1, <1>3, <1>6, <2>2
    <3>3. Before(item, current' - 1)
      BY <1>1
    <3>4. segmentStart <= current + 1
      BY <1>1, <1>3
    <3> QED BY <1>1, <1>3, <2>1, <3>1, <3>2, <3>3, <3>4 DEF OpenLine
  <2>6. MeetsEnd'
    BY <1>1, <1>2, <1>4, <1>7, <1>9, <2>1 DEF MeetsEnd, ShiftOK
  <2> QED BY <1>1, <2>3, <2>4, <2>5, <2>6 DEF IInv, Walk
<1> QED BY <1>8, <1>9

LEMMA NextSound == LinesAssumption /\ IInv /\ [Next]_vars => IInv'
<1> SUFFICES ASSUME LinesAssumption, IInv, [Next]_vars PROVE IInv'
  OBVIOUS
<1>1. CASE Refuse
  BY <1>1 DEF Refuse, IInv, TypeOK, Walk
<1>2. CASE Return \/ UNCHANGED vars
  <2>1. /\ UNCHANGED <<item, current, segmentStart, segmentRate, segmentDay, segments>>
        /\ pc' = pc \/ (pc = "scan" /\ pc' = "done" /\ ~Before(item, current))
    BY <1>2 DEF Return, vars
  <2>2. TypeOK'
    BY <2>1 DEF IInv, TypeOK
  <2>3. /\ Consecutive' <=> Consecutive
        /\ Uniform' <=> Uniform
        /\ OpenLine' <=> OpenLine
        /\ MeetsEnd' <=> MeetsEnd
    BY <2>1 DEF Consecutive, Uniform, OpenLine, Covered, MeetsEnd
  <2> QED BY <2>1, <2>2, <2>3 DEF IInv, Walk
<1> QED BY <1>1, <1>2, BeginSound, MinuteSound DEF Next

LEMMA CoveredAtEnd == LinesAssumption /\ IInv => LinesCoverShift
<1> SUFFICES ASSUME LinesAssumption, IInv, pc = "done" PROVE LinesCoverShift
  BY DEF LinesCoverShift
<1>1. /\ Consecutive /\ Uniform /\ OpenLine /\ MeetsEnd /\ ~Before(item, current)
      /\ item \in Items /\ current \in Nat /\ segmentStart \in Nat
  BY DEF IInv, Walk, TypeOK
<1>2. ShiftOK(item)
  BY <1>1, Shifts
<1>3. WholeMinutes(item) /\ AtMostADay(item) => Covered = item.to
  BY <1>1, <1>2 DEF OpenLine, MeetsEnd, ShiftOK, Before
<1>4. ASSUME NEW m \in Covered..(current - 1)
      PROVE  AppliedRate(item, m) = AppliedRate(item, Covered) /\ DayOf(m) = DayOf(Covered)
  <2>1. /\ Covered = segmentStart /\ m \in segmentStart..current
        /\ segmentStart \in segmentStart..current
        /\ m \in Nat /\ segmentStart <= m /\ m <= current - 1
        /\ current > item.from /\ current - 1 \in Nat
    BY <1>1, <1>2 DEF OpenLine, ShiftOK
  <2>2. Before(item, current - 1)
    BY <1>1, <2>1 DEF OpenLine
  <2>3. Before(item, m) /\ Before(item, segmentStart)
    BY <1>1, <1>2, <2>1, <2>2, BeforeDown
  <2> QED BY <1>1, <2>1, <2>3 DEF OpenLine
<1> QED BY <1>1, <1>3, <1>4 DEF LinesCoverShift

\* Every variable keeps its type, for any shifts (buildPayrollPreviewLineItems).
THEOREM TypeCorrect == ASSUME LinesAssumption PROVE Spec => []TypeOK
<1>1. IInv => TypeOK
  BY DEF IInv
<1> QED BY InitSound, NextSound, <1>1, PTL DEF Spec

\* The lines of any shift cover it but for the end that is off its minute grid
\* (buildPayrollPreviewLineItems).
THEOREM ShiftsCovered == ASSUME LinesAssumption PROVE Spec => []LinesCoverShift
BY InitSound, NextSound, CoveredAtEnd, PTL DEF Spec
=============================================================================
