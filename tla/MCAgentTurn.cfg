SPECIFICATION FairSpec
CONSTANTS
  d1 = d1
  v1 = v1
  p1 = p1
  p2 = p2
  voice = voice
  typed = typed
  None = None
  Device = {d1}
  Turn = {v1, p1, p2}
  DeviceOf <- MCDeviceOf
  KeyOf <- MCKeyOf
  ReplyLen <- MCReplyLen
  Stop <- MCStop
  Spoken = {v1}
  Backend = {"pi", "openclaw", "hermes", "piclaw", "stub", "cli"}
  MaxRecords = 1
  MaxAsked = 2
  MaxIdle = 1
  MaxFaults = 1
INVARIANTS
  TurnInv
  ScreenComplete
  SpeechComplete
  RecordsMatch
PROPERTIES
  AnswerComes
CHECK_DEADLOCK FALSE
