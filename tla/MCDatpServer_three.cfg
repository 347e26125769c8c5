SPECIFICATION Spec
CONSTANTS
  c1 = c1
  c2 = c2
  c3 = c3
  d1 = d1
  d2 = d2
  h1 = h1
  pi = pi
  hermes = hermes
  Device = {d1, d2}
  Conn = {c1, c2, c3}
  Caller = {}
  Choice = {pi}
  DefaultChoice = pi
  Unknown = Unknown
  None = None
  MaxFrames = 2
  MaxSession = 3
  PoolWorkers = 2
CONSTRAINT ThreeOrTwo
SYMMETRY Symmetry
INVARIANTS
  OneVoice
  ConnectedIsOnline
  CleanExit
PROPERTIES
  ImplementsOwnership
CHECK_DEADLOCK FALSE
