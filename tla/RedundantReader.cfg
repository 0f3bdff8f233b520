SPECIFICATION RFairSpec
CONSTANTS
  good = good
  press = press
  Counter = {good}
  Machine = {press}
  MachineOf <- MachineOfTag
  Node = {a, b}
  Conn = {1, 2}
  None = None
  Attempts = 2
  QuietStop = TRUE
  Timely = TRUE
  MaxMade = 1
  MaxResets = 0
  MaxFaults = 1
  MaxRefusals = 0
  MaxLoadFaults = 0
  NoRow = NoRow
  LeaseTime = 2
  RenewEvery = 1
  PollEvery = 1
  MaxDelay = 0
  MaxClock = 3
  LastFault = 1
INVARIANTS
  NeverInvent
  OneBooker
PROPERTY
  CountedBySurvivor
