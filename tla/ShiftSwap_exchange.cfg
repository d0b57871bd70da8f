\* Two shifts are swapped in both directions while the rota changes and time
\* passes.
CONSTANTS
  e1 = e1
  e2 = e2
  e3 = e3
  w1 = w1
  w2 = w2
  s1 = s1
  s2 = s2
  None = None
  Employees = {e1, e2}
  ScheduleIds = {1, 2, 3}
  SwapIds <- TwoSwaps
  Sessions <- TwoSessions
  Handlers <- AllHandlers
  InitialRota <- ShiftsAndRoom
  Slots <- Day
  Proposals <- BothWays
  MaxTime = 1
  Expiries = {1}
SPECIFICATION Spec
SYMMETRY Symmetry
INVARIANTS
  TypeOK
  OneApprovable
  SwapsNeverDeadlock
PROPERTIES
  ImplementsExchange
\* When every request is decided and the rows are used up nothing is left to do.
CHECK_DEADLOCK FALSE
