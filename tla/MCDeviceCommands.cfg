SPECIFICATION FairSpec
CONSTANTS
  d1 = d1
  d2 = d2
  t1 = t1
  t2 = t2
  t3 = t3
  None = None
  Device = {d1, d2}
  Task = {t1, t2, t3}
  Picture <- Pictures
  Script <- Scripts
  NumChunks = 1
INVARIANTS
  CommandsInv
  ChoosesWell
PROPERTIES
  Answered
CHECK_DEADLOCK FALSE
