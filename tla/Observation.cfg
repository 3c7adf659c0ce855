SPECIFICATION Spec
CONSTANTS
  p1 = p1
  p2 = p2
  Publishers = {p1, p2}
  LedPublishers = {p1, p2}
  Capacity = 1
  MaxRecords = 2
  MaxBreaks = 1
  a = a
  b = b
  question = question
  recording = recording
  QuestionId = {question}
  RecordingId = {recording}
  None = None
  Clients = {a, b}
  Dials = {2}
  CommandChannel = 1
  RingCapacity = 1
  AllowControls = TRUE
  RuntimeMode = "mock"
  MaxRequests = 1
  MaxMoves = 2
INVARIANTS
    BusInv
    DebugInv
PROPERTIES
    EveryRequestIsAnswered
CHECK_DEADLOCK FALSE
