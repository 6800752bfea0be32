SPECIFICATION Spec
CONSTANTS
  Clients = {c1, c2}
  Self = Self
  NoOne = NoOne
  Instances = {i1, i2}
  NoPipe = NoPipe
  MaxCalls = 1
  MaxStarts = 2
  MaxFaults = 1
INVARIANTS
  PipeTypeOK
  InstancesHaveOneOwner
  StopWakesListener
PROPERTIES
  ServiceListens
  CallsReturn
CHECK_DEADLOCK FALSE
