SPECIFICATION FairSpec
CONSTANTS
  MaxQueue = 1
  WriteLimit = 1
  CanWriteEof = TRUE
  Application <- MCApplication
  TooBig <- MCTooBig
INVARIANTS
  LinkInv
  NoGap
PROPERTIES
  CloseEnds
  RecvEnds
CHECK_DEADLOCK FALSE
