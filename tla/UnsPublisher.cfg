SPECIFICATION FairSpec
CONSTANTS
  line = line
  orders = orders
  Message = {1, 2, 3}
  TopicOf <- Topics
  MaxAttempts = 2
  Batch = 2
  Inflight = 2
  MaxFaults = 2
  MaxPutBacks = 1
INVARIANT
  TypeOK
PROPERTIES
  OvertakenOnlyIfExcused
  NothingSteppedOver
  DeliversOutbox
