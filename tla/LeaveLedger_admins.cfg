\* Two admins who decide each other's requests, lock cycles, and a payout too large for an integer.
CONSTANTS
  Employees = {e1, e2}
  Admins = {e1, e2}
  Years <- FirstYear
  LeaveIds = {l1, l2}
  PayoutIds = {p1}
  s1 = s1
  s2 = s2
  Sessions <- MCSessions
  None = None
  LastDay = 1
  YearOf <- FirstYearOf
  YearStart <- FirstYearStart
  YearEnd <- FirstYearEnd
  Contracts = {"full"}
  Accrued <- FirstYearAccrued
  LeaveForms <- OneLeaveForm
  PayoutForms <- OnePayoutForm
  MinutesPerHour = 2
  MaxInt = 7
SPECIFICATION FairSpec
PROPERTIES
  TransactionsEnd
