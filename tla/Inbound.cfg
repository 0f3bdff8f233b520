SPECIFICATION Spec
CONSTANTS
  Event = {1, 2, 3}
  Filed = {1, 2}
  Sent = {2}
  MaxRows = 2
  Ordered = TRUE
  MaxSets = 1
  MaxDrops = 1
  MaxSends = 1
  MaxFaults = 1
  None = None
  Unknown = Unknown
  Retain = TRUE
  Window = 1
  MaxMade = 3
  MaxResets = 1
  MaxRepeats = 1
  MaxBreaks = 2
INVARIANTS
  TypeOK
  CountIsRise
  OnceEach
  NothingSteppedOver
PROPERTY
  RowsAreRead
\* Nothing more arrives.
CHECK_DEADLOCK FALSE
