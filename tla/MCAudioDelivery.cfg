\* Three responses of the pipeline, two breaks and a restart of the client.
SPECIFICATION FairSpec
CONSTANTS
  r1 = r1
  r2 = r2
  r3 = r3
  Delivery <- ThreeResponses
  Pipeline <- ThreeResponses
  NumChunks = 2
  MaxBreaks = 2
  MaxRestarts = 1
INVARIANTS
  CacheIntegrity
  DeliveredIsCached
PROPERTIES
  DeliverySettles
  ImplementsPromise
CHECK_DEADLOCK FALSE
