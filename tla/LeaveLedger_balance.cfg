\* One employee who is also an admin, one leave, two payouts, two years.
CONSTANTS
  Employees = {e1}
  Admins = {e1}
  Years <- MCYears
  LeaveIds = {l1}
  PayoutIds = {p1, p2}
  s1 = s1
  s2 = s2
  Sessions <- MCSessions
  None = None
  LastDay = 2
  YearOf <- MCYearOf
  YearStart <- MCYearStart
  YearEnd <- MCYearEnd
  Contracts = {"full", "part"}
  Accrued <- MCAccrued
  LeaveForms <- MCLeaveForms
  PayoutForms <- MCPayoutForms
  MinutesPerHour = 2
  MaxInt = 7
SPECIFICATION Spec
SYMMETRY SessionSymmetry
INVARIANTS
  TypeOK
  NoOverdraft
  LocksExclusive
  ReadsFresh
PROPERTIES
  DecisionsFinal
  ImplementsAccounts
