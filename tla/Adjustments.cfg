SPECIFICATION FairSpec
CONSTANTS
  speed = speed
  temperature = temperature
  filling = filling
  baking = baking
  ada = ada
  bo = bo
  Rec = {1, 2, 3}
  Tag = {speed, temperature}
  TagOf <- Setpoint
  Endpoint = {filling}
  EndpointOf <- AllFilling
  Fits = {1, 3}
  Person = {ada, bo}
  Serial = TRUE
  None = None
  MaxCuts = 2
INVARIANTS
  TypeOK
  OneQueued
  WrittenAgainOnlyAfterCut
PROPERTIES
  ClosedStays
  WrittenWasApproved
  Concludes
