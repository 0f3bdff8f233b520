SPECIFICATION Spec
CONSTANTS
  good = good
  filled = filled
  press = press
  filler = filler
  Counter <- TwoMachines
  Machine = {press, filler}
  MachineOf <- MachineOfTag
  Node = {box}
  Conn = {1, 2}
  None = None
  Attempts = 2
  QuietStop = TRUE
  MaxMade = 2
  MaxResets = 1
  MaxFaults = 1
  MaxRefusals = 1
  MaxLoadFaults = 1
INVARIANT
  TypeOK
PROPERTIES
  BaselineIsBooking
  HonestCount
\* Nothing more made, everything booked: the reader waits for the next reading.
CHECK_DEADLOCK FALSE
