\* Three messages to two connections of one user, and shutdown among them.
CONSTANTS
  c1 = c1
  c2 = c2
  u1 = u1
  Clients <- MCClients
  Users = {u1}
  UserOf <- MCUserOf
  BufferSize = 1
  MaxMessages = 3
SPECIFICATION HubFairSpec
INVARIANTS
  TypeOK
  NoPanic
  NoGaps
  UpToDate
PROPERTIES
  ShutdownStops
\* A stopped hub and its blocked readers are the end.
CHECK_DEADLOCK FALSE
