SPECIFICATION FairSpec
CONSTANTS
  State = {"running", "down"}
  None = None
  Attempts = 2
  QuietStop = TRUE
  Unwritten = {}
  MaxTime = 2
  MaxChanges = 1
  MaxEntries = 1
  MaxFaults = 2
INVARIANTS
  TypeOK
  NothingAccruesUnseen
  EndsAtEvidence
  Follows
PROPERTY
  LossIsRecorded
\* The clock and the counts stop at their bounds.
CHECK_DEADLOCK FALSE
