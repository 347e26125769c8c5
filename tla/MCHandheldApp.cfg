SPECIFICATION FairSpec
CONSTANTS
  g1 = g1
  g2 = g2
  c1 = c1
  c2 = c2
  None = None
  Url = {g1, g2}
  Conversation = {c1, c2}
  User <- Users
  MaxQueue = 1
INVARIANTS
  AppInv
  SpeechWhole
PROPERTIES
  LinkNoticed
  RecordingStops
CHECK_DEADLOCK FALSE
