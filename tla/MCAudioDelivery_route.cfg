\* One response of the pipeline and one of the HTTP route.
SPECIFICATION Spec
CONSTANTS
  r1 = r1
  r2 = r2
  r3 = r3
  Delivery <- TwoResponses
  Pipeline <- OneResponse
  NumChunks = 2
  MaxBreaks = 0
  MaxRestarts = 0
CHECK_DEADLOCK FALSE
INVARIANTS
  Uncorrupted
