SPECIFICATION Spec
CONSTANTS
  mixer = mixer
  packer = packer
  Order = {1}
  Operation = {10, 20}
  Final = 20
  Machine = {mixer, packer}
  MachineAt <- Route
  Request = {a, b}
  Serial = FALSE
  None = None
  MaxUnits = 1
INVARIANT
  LastCompletes
