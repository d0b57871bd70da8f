\* Two recipients in parallel and a connection to spare.
CONSTANTS
  e1 = e1
  e2 = e2
  s1 = s1
  s2 = s2
  Employees = {e1, e2}
  FieldIds = {f1}
  Sessions <- TwoSessions
  PoolSize = 3
  RecipientLists <- ParallelList
  FieldForms <- OneField
SPECIFICATION FairSpec
PROPERTIES
  CallsReturn
\* A closed document is the end.
CHECK_DEADLOCK FALSE
