\* The small components, one at a time.
CONSTANTS
  None = None
  t1 = t1
  t2 = t2
  x1 = x1
  x2 = x2
  Callers = {s1, s2}
  LastTick = 2
  Editors = {s1}
  Employees = {employee}
  Templates = {t1, t2}
  Steps = {x1, x2}
  HandbookIds = {1, 2}
  InitialDrafts <- Drafts
  LocationIds = {l1}
  Names = {n1, n2}
  MaxSlot = 2
  DefaultSlots = {1}
  Users = {user}
  Ips = {address}
  SessionIds = {1}
  MaxFailures = 1
  Window = 1
  Lifetime = 1
  Items <- WorkItems
  HourMinutes = 1
  Years <- Century
  Workers = {s1}
  Recipients = {user, other}
  NoticeIds = {1, 2}
  TicketIds = {1}
  Connections = {1, 2}
  Ttl = 1
  LastDay = 4
  Starts = {1, 2, 4}
  Ends = {2}
  MaxContracts = 3
  MaxSalaries = 3
  MaxEdits = 1
SPECIFICATION MCSpec
INVARIANTS
  ServicesTypeOK
  CompletedMeansDone
  AllDoneMeansFinished
  FailuresBounded
  LinesCoverShift
  PeriodsPartitionYear
  PushesReachTheirUser
  ContractsPaid
PROPERTIES
  FinishedStaysFinished
  ListCatchesUp
\* A year's periods and a shift's lines come to an end.
CHECK_DEADLOCK FALSE
