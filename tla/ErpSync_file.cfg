SPECIFICATION FairSpec
CONSTANTS
  Connector = {"file"}
  Order = {1}
  Readable = {1}
  Known = {1}
  Message = {1}
  Stocked = {1}
  Refused = 0
  Room <- RoomFor
  MaxAttempts = 2
  MaxFaults = 1
  MaxPutBacks = 0
INVARIANT NoOrderLost
\* A row that cannot be read stops the worker of an API's connector.
CHECK_DEADLOCK FALSE
