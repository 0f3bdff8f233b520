SPECIFICATION Spec
CONSTANTS
  mixer = mixer
  packer = packer
  Order = {1, 2}
  Operation = {10, 20}
  Final = 20
  Machine = {mixer, packer}
  MachineAt <- Route
  Request = {a, b}
  Serial = TRUE
  None = None
  MaxUnits = 1
INVARIANTS
  TypeOK
  LastCompletes
  ConfirmedIsBooked
  RunningIsStarted
PROPERTY
  FinishedStays
