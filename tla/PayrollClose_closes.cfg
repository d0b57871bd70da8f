\* Two administrators close overlapping periods while the work is edited.
CONSTANTS
  e1 = e1
  e2 = e2
  a1 = a1
  a2 = a2
  shift = shift
  overtime = overtime
  more = more
  payout = payout
  None = None
  Employees = {e1, e2}
  Items = {shift, overtime, more, payout}
  KindOf <- ItemKinds
  Admins = {a1, a2}
  PeriodIds = {1, 2, 3}
  Days = {1, 2}
  Minutes = {1, 2}
  GroupOn <- Contracts
  Closings <- Overlapping
  Requests <- SomeRequests
  Edited = {shift, overtime, payout}
  Shifts <- SomeShifts
  Connections = 3
  InitialTables <- Tables
SPECIFICATION Spec
INVARIANTS
  TypeOK
  PaidAgainOnlyInARace
  LockedOvertimeExact
  LinesKeepTheirSource
  PayoutsSettled
PROPERTIES
  ClosesEnd
\* When every period is closed and paid nothing is left to do.
CHECK_DEADLOCK FALSE

