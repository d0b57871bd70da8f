----------------------------- MODULE PayrollLines -----------------------------
(***************************************************************************)
(* How a shift becomes lines of pay: buildPayrollPreviewLineItems          *)
(* (internal/service/salary_payroll.go:2745) walks it minute by minute and *)
(* starts a line wherever the irregular-hours rate or the day changes.     *)
(*                                                                         *)
(* A time is a minute and the second within it.  The walk starts on the    *)
(* shift's second and steps by a minute, so its position is a minute; the  *)
(* seconds matter only where it is compared with the end.  Minute 0 is     *)
(* midnight of the work date.  The amounts of a line are left out.         *)
(***************************************************************************)
EXTENDS Integers, Sequences

CONSTANTS
  Items,         \* work items, as in LinesAssumption
  HourMinutes    \* 60 in the code

DayMinutes == 24 * HourMinutes

\* The weekday is the work date's, 0 for Sunday; holidays are the days loaded
\* for the period, counted from the work date.
LinesAssumption ==
  /\ HourMinutes \in Nat \ {0}
  /\ \A item \in Items :
       /\ item.weekday \in 0..6
       /\ item.holidays \subseteq {0, 1}
       /\ item.profile \in {"none", "roster", "non_roster"}
       /\ item.contract \in {"permanent", "temporary", "on_call"}
       /\ item.from \in 0..(DayMinutes - 1) /\ item.to \in Nat
       /\ item.fromSecond \in Nat /\ item.toSecond \in Nat
       /\ \/ item.from < item.to
          \/ item.from = item.to /\ item.fromSecond < item.toSecond

VARIABLES
  item,
  pc,
  current,
  segmentStart,
  segmentRate,
  segmentDay,
  segments

vars == <<item, pc, current, segmentStart, segmentRate, segmentDay, segments>>

DayOf(m) == m \div DayMinutes
MinuteOfDay(m) == m % DayMinutes
Night(m) == MinuteOfDay(m) >= 22 * HourMinutes \/ MinuteOfDay(m) < 6 * HourMinutes
Within(m, first, last) ==
  MinuteOfDay(m) >= first * HourMinutes /\ MinuteOfDay(m) < last * HourMinutes

OrtRateForMinute(i, m) ==
  LET weekday == (i.weekday + DayOf(m)) % 7 IN
  CASE DayOf(m) \in i.holidays \/ weekday = 0 \/ Night(m) -> 45
    [] OTHER ->
         CASE weekday = 6 -> 30
           [] weekday # 6 /\ i.profile = "roster"
                /\ (Within(m, 6, 7) \/ Within(m, 19, 22)) -> 25
           [] weekday # 6 /\ i.profile = "non_roster" /\ Within(m, 20, 22) -> 25
           [] OTHER -> 0

AppliedRate(i, m) == IF i.contract = "on_call" THEN 0 ELSE OrtRateForMinute(i, m)

\* parseWorkItemBounds keeps the times of day: an end not after the start is
\* on the next day.
End(i) ==
  LET to == MinuteOfDay(i.to) IN
  IF to < i.from \/ (to = i.from /\ i.toSecond <= i.fromSecond)
  THEN to + DayMinutes ELSE to

TotalMinutes(i) ==
  End(i) - i.from - (IF i.toSecond < i.fromSecond THEN 1 ELSE 0)

Before(i, m) == m < End(i) \/ (m = End(i) /\ i.fromSecond < i.toSecond)
IsEnd(i, m) == m = End(i) /\ i.fromSecond = i.toSecond

Init ==
  /\ item \in Items
  /\ pc = "parse"
  /\ current = item.from
  /\ segmentStart = item.from
  /\ segmentRate = 0
  /\ segmentDay = 0
  /\ segments = <<>>

Refuse ==
  /\ pc = "parse"
  /\ TotalMinutes(item) <= 0
  /\ pc' = "refused"
  /\ UNCHANGED <<item, current, segmentStart, segmentRate, segmentDay, segments>>

Begin ==
  /\ pc = "parse"
  /\ TotalMinutes(item) > 0
  /\ pc' = "scan"
  /\ segmentRate' = AppliedRate(item, current)
  /\ segmentDay' = DayOf(current)
  /\ UNCHANGED <<item, current, segmentStart, segments>>

NextRate == IF Before(item, current + 1) THEN AppliedRate(item, current + 1) ELSE segmentRate
NextDay == IF Before(item, current + 1) THEN DayOf(current + 1) ELSE segmentDay

\* Mutant: a change of day alone does not start a line.
LineEndsOnRate ==
  IsEnd(item, current + 1) \/ NextRate # segmentRate

LineEnds ==
  IsEnd(item, current + 1) \/ NextRate # segmentRate \/ NextDay # segmentDay

Minute ==
  /\ pc = "scan"
  /\ Before(item, current)
  /\ IF LineEnds
     THEN /\ segments' = Append(segments, [day |-> segmentDay, from |-> segmentStart,
                                           to |-> current + 1, rate |-> segmentRate])
          /\ segmentStart' = current + 1
          /\ segmentRate' = NextRate
          /\ segmentDay' = NextDay
     ELSE UNCHANGED <<segmentStart, segmentRate, segmentDay, segments>>
  /\ current' = current + 1
  /\ UNCHANGED <<item, pc>>

Return ==
  /\ pc = "scan"
  /\ ~Before(item, current)
  /\ pc' = "done"
  /\ UNCHANGED <<item, current, segmentStart, segmentRate, segmentDay, segments>>

Next == Refuse \/ Begin \/ Minute \/ Return

Spec == Init /\ [][Next]_vars

-----------------------------------------------------------------------------
(* Properties *)

Rates == {0, 25, 30, 45}

\* Every variable keeps its type.
TypeOK ==
  /\ item \in Items
  /\ pc \in {"parse", "scan", "done", "refused"}
  /\ current \in Nat
  /\ segmentStart \in Nat
  /\ segmentRate \in Rates
  /\ segmentDay \in Nat
  /\ segments \in Seq([day : Nat, from : Nat, to : Nat, rate : Rates])

WholeMinutes(i) == i.fromSecond = i.toSecond
AtMostADay(i) ==
  \/ i.to < i.from + DayMinutes
  \/ i.to = i.from + DayMinutes /\ i.toSecond <= i.fromSecond

\* Where the lines so far end.
Covered == IF segments = <<>> THEN item.from ELSE segments[Len(segments)].to

Consecutive ==
  \A n \in 1..Len(segments) :
    segments[n].from = IF n = 1 THEN item.from ELSE segments[n - 1].to

\* Every minute of a line is paid at the line's rate and on the line's day.
Uniform ==
  \A n \in 1..Len(segments) :
    \A m \in segments[n].from..(segments[n].to - 1) :
      AppliedRate(item, m) = segments[n].rate /\ DayOf(m) = segments[n].day

\* The lines of a shift follow on one another from its start, each with one
\* rate and one day.  They end where the shift ends when it is of whole
\* minutes and of at most a day; when it is not of whole minutes the line that
\* is open at the end is lost (the loop only ever closes it when it meets the
\* end exactly, salary_payroll.go:2791): what is missing has one rate and day.
LinesCoverShift ==
  pc = "done" =>
    /\ Consecutive
    /\ Uniform
    /\ WholeMinutes(item) /\ AtMostADay(item) => Covered = item.to
    /\ ~WholeMinutes(item) =>
         \A m \in Covered..(current - 1) :
           /\ AppliedRate(item, m) = AppliedRate(item, Covered)
           /\ DayOf(m) = DayOf(Covered)
=============================================================================
