\* One or two recipients, two calls at a time.
CONSTANTS
  e1 = e1
  e2 = e2
  s1 = s1
  s2 = s2
  Employees = {e1, e2}
  FieldIds = {f1, f2}
  Sessions <- TwoSessions
  PoolSize = 2
  RecipientLists <- OrderedLists
  FieldForms <- TextOrSignatures
SPECIFICATION Spec
SYMMETRY SessionSymmetry
INVARIANTS
  TypeOK
  SigningOrder
  CompletedBySigners
  FileMissesAtMostOne
PROPERTIES
  ImplementsCeremony
\* A closed document is the end.
CHECK_DEADLOCK FALSE
