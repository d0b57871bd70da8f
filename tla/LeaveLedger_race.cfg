\* One contract version, so that only an admin's edit can overtake a check.
CONSTANTS
  Employees = {e1}
  Admins = {e1}
  Years <- MCYears
  LeaveIds = {l1}
  PayoutIds = {p1}
  s1 = s1
  s2 = s2
  Sessions <- MCSessions
  None = None
  LastDay = 2
  YearOf <- MCYearOf
  YearStart <- MCYearStart
  YearEnd <- MCYearEnd
  Contracts = {"full"}
  Accrued <- FullTimeAccrued
  LeaveForms <- MCLeaveForms
  PayoutForms <- SmallPayoutForms
  MinutesPerHour = 2
  MaxInt = 7
SPECIFICATION Spec
PROPERTIES
  ApprovalWithinBalance
