\* Two recipients who sign at the same time.
CONSTANTS
  e1 = e1
  e2 = e2
  s1 = s1
  s2 = s2
  Employees = {e1, e2}
  FieldIds = {f1}
  Sessions <- TwoSessions
  PoolSize = 3
  RecipientLists <- ParallelList
  FieldForms <- OneField
SPECIFICATION Spec
INVARIANTS
  AllSignedCompletes
\* A closed document is the end.
CHECK_DEADLOCK FALSE
