SPECIFICATION VoiceSpec
CONSTANTS
  d1 = d1
  d2 = d2
  s1 = s1
  v1 = v1
  p1 = p1
  typed = typed
  None = None
  Device = {d1, d2}
  StreamId = {s1}
  Recorder <- MCRecorder
  ChunkCount <- MCChunkCount
  MaxRepeats = 2
  MaxBad = 1
  Turn = {v1, p1}
  DeviceOf <- MCDeviceOf
  KeyOf <- MCKeyOf
  ReplyLen <- MCReplyLen
  Stop = {}
  Spoken = {v1}
  Backend = {"hermes"}
  MaxRecords = 1
  MaxAsked = 2
  MaxIdle = 0
  MaxFaults = 0
INVARIANTS
  UploadInv
  AnswersAsker
PROPERTIES
  RecordingEnds
CHECK_DEADLOCK FALSE
