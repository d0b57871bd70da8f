\* The whole life of one connection, cut off or not.
CONSTANTS
  c1 = c1
  c2 = c2
  u1 = u1
  Clients = {c1}
  Users = {u1}
  UserOf <- MCUserOf
  BufferSize = 2
  MaxMessages = 5
SPECIFICATION FairSpec
PROPERTIES
  ClosedClientsLeave
  DroppedClientsDisconnect
\* A stopped hub and its blocked readers are the end.
CHECK_DEADLOCK FALSE
