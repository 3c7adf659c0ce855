SPECIFICATION Spec
CONSTANTS
  Clips = {"clip", "tone"}
  Tones = {"tone"}
  MaxPlays = 2
  MaxCommands = 3
  LevelCapacity = 1
  Attempts = 2
  MaxRecordings = 2
  MaxCrashes = 1
  MaxSamples = 2
  MinSamples = 1
  EdgeCap = 2
  QueueCap = 2
  MaxToggles = 4
  MaxLosses = 2
  Requests <- BoothRequests
  MaxCalls = 2
  Full = 4
  Ceiling = 3
  ActiveLow = TRUE
  Period = 4
  Duration = 2
  Numbers <- MCNumbers
  BlockCodes = {7, 12}
  RateCodes = {0, 10}
  Payloads <- MCPayloads
  Metadata = {0, 255}
  Rates = {48000, 88200, 11025}
  Errors <- MCErrors
  MaxFrames = 2
  MaxPasses = 1
INVARIANTS
    PlaybackInv
    RecorderInv
    HookInv
    LedInv
    FlacInv
PROPERTIES
    DevicesGoOn
CHECK_DEADLOCK FALSE
