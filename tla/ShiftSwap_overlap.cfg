\* Two swaps give the same employee overlapping shifts.
CONSTANTS
  e1 = e1
  e2 = e2
  e3 = e3
  w1 = w1
  w2 = w2
  s1 = s1
  s2 = s2
  None = None
  Employees = {e1, e2, e3}
  ScheduleIds = {1, 2, 3, 4}
  SwapIds <- TwoSwaps
  Sessions <- TwoSessions
  Handlers = {"admin create"}
  InitialRota <- FourShifts
  Slots <- AllSlots
  Proposals <- TwoGains
  MaxTime = 0
  Expiries = {1}
SPECIFICATION Spec
SYMMETRY Symmetry
PROPERTIES
  SwapsAvoidOverlaps
\* When every request is decided and the rows are used up nothing is left to do.
CHECK_DEADLOCK FALSE
