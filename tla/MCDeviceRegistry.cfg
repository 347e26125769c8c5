\* Three connections of one device and an HTTP caller, one restart of the gateway;
\* the device may or may not wait for a former connection to end.
SPECIFICATION FairSpec
CONSTANTS
  c1 = c1
  c2 = c2
  c3 = c3
  d1 = d1
  h1 = h1
  mode = mode
  battery = battery
  None = None
  Pack = {}
  HelloState <- ModeOnly
  Reports <- FullReport
  Device = {d1}
  Conn = {c1, c2, c3}
  DeviceOf <- OneDevice
  Caller = {h1}
  PoolWorkers = 2
  MaxPriority = 1
  MaxRestarts = 1
INVARIANTS
  RegistryInv
PROPERTIES
  TasksReturn
  StateSurvives
CHECK_DEADLOCK FALSE
