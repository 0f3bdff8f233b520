SPECIFICATION FairSpec
CONSTANTS
  Connector = {"rest", "file", "erpnext"}
  Order = {1, 2, 3}
  Readable = {1, 2}
  Known = {2}
  Message = {1, 2}
  Stocked = {1, 2}
  Refused = 2
  Room <- RoomFor
  MaxAttempts = 2
  MaxFaults = 2
  MaxPutBacks = 1
INVARIANTS
  TypeOK
  OrdersKept
  OneEntry
PROPERTIES
  NeverStalls
  DeliversOutbox
\* A row that cannot be read stops the worker of an API's connector.
CHECK_DEADLOCK FALSE
