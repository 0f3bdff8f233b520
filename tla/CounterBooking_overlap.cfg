SPECIFICATION Spec
CONSTANTS
  good = good
  filled = filled
  press = press
  filler = filler
  Counter = {good}
  Machine = {press}
  MachineOf <- MachineOfTag
  Node = {box}
  Conn = {1, 2}
  None = None
  Attempts = 2
  QuietStop = FALSE
  MaxMade = 3
  MaxResets = 0
  MaxFaults = 1
  MaxRefusals = 0
  MaxLoadFaults = 0
INVARIANT
  NeverInvent
CHECK_DEADLOCK FALSE
