SPECIFICATION PageFairSpec
CONSTANTS
  r1 = r1
  r2 = r2
  Response = {r1, r2}
  NumChunks = 2
  MaxResponses = 1
  Usage <- Usages
INVARIANTS
  PageInv
  HeardWhole
PROPERTIES
  LinkComesBack
  MicReleased
CHECK_DEADLOCK FALSE
