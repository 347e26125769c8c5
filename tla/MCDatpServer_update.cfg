SPECIFICATION FairSpec
CONSTANTS
  c1 = c1
  c2 = c2
  c3 = c3
  d1 = d1
  d2 = d2
  h1 = h1
  pi = pi
  hermes = hermes
  Device = {d1}
  Conn = {c1, c2}
  Caller = {h1}
  Choice = {pi, hermes}
  DefaultChoice = pi
  Unknown = Unknown
  None = None
  MaxFrames = 2
  MaxSession = 2
  PoolWorkers = 2
INVARIANTS
  ToldTheTruth
PROPERTIES
  HelloSettles
  StopTerminates
CHECK_DEADLOCK FALSE
