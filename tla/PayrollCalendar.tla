--------------------------- MODULE PayrollCalendar ---------------------------
(***************************************************************************)
(* The pay periods of a year (internal/domain/salary.go:585): four weeks   *)
(* each, from the Monday of the first ISO week, and a last one of five     *)
(* weeks in a year of 53.                                                  *)
(*                                                                         *)
(* A day is its number in the proleptic Gregorian calendar of Go's time    *)
(* package, 1 January of year 1 being day 1, a Monday.                     *)
(***************************************************************************)
EXTENDS Integers, Sequences

CONSTANT Years   \* bound: the years looked at

YearsAssumption == Years \subseteq Nat \ {0}

VARIABLES
  year,
  weekOffset,
  options,
  pc

vars == <<year, weekOffset, options, pc>>

\* 4 January, by Go's time package.
Jan4(y) ==
  LET past == y - 1
  IN 365 * past + (past \div 4) - (past \div 100) + (past \div 400) + 4

\* 1 for Monday to 7 for Sunday.
Weekday(day) == ((day - 1) % 7) + 1

IsoYearStart(y) == Jan4(y) - (Weekday(Jan4(y)) - 1)

\* By ISO 8601: the weeks of a year end where those of the next begin.
IsoWeeksInYear(y) == (IsoYearStart(y + 1) - IsoYearStart(y)) \div 7

\* Mutant: every period is of four weeks.
PeriodWeeksAlwaysFour(weeks, offset) == 4

PeriodWeeks(weeks, offset) == IF weeks - offset = 5 THEN 5 ELSE 4

Init ==
  /\ year \in Years
  /\ weekOffset = 0
  /\ options = <<>>
  /\ pc = "loop"

AddPeriod ==
  LET weeks == IsoWeeksInYear(year)
      periodWeeks == PeriodWeeks(weeks, weekOffset)
      start == IsoYearStart(year) + weekOffset * 7
  IN
  /\ pc = "loop"
  /\ weekOffset < weeks
  /\ options' = Append(options, [start |-> start, end |-> start + periodWeeks * 7 - 1])
  /\ weekOffset' = weekOffset + periodWeeks
  /\ UNCHANGED <<year, pc>>

Return ==
  /\ pc = "loop"
  /\ weekOffset >= IsoWeeksInYear(year)
  /\ pc' = "done"
  /\ UNCHANGED <<year, weekOffset, options>>

Next == AddPeriod \/ Return

Spec == Init /\ [][Next]_vars

-----------------------------------------------------------------------------
(* Resolving a day, once the options of its year are there *)

InPeriod(day, option) == option.start <= day /\ day <= option.end

\* ResolvePayrollPeriod takes the first of these.
PeriodsOf(day) == {n \in 1..Len(options) : InPeriod(day, options[n])}

-----------------------------------------------------------------------------
(* Properties *)

\* Every variable keeps its type.
TypeOK ==
  /\ year \in Years
  /\ weekOffset \in Nat
  /\ options \in Seq([start : Int, end : Int])
  /\ pc \in {"loop", "done"}

\* The periods of a year follow on one another from its first Monday to the
\* day before the next year's: every day of the year is in exactly one of them
\* and none reaches beyond it, so that consecutive closes meet and never
\* overlap, across the end of a year of 53 weeks too (domain/salary.go:652).
PeriodsPartitionYear ==
  pc = "done" =>
    LET first == IsoYearStart(year)
        next == IsoYearStart(year + 1)
    IN
    /\ \A day \in first..(next - 1) : \E n \in 1..Len(options) : PeriodsOf(day) = {n}
    /\ \A n \in 1..Len(options) : options[n].start >= first /\ options[n].end < next
=============================================================================
