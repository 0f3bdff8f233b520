SPECIFICATION FairSpec
CONSTANTS
  Node = {a, b}
  NoRow = NoRow
  LeaseTime = 4
  RenewEvery = 1
  PollEvery = 1
  MaxDelay = 1
  Timely = TRUE
  MaxClock = 10
  LastFault = 5
INVARIANTS
  TypeOK
  GateHonest
PROPERTIES
  NeverStolen
  Takeover
