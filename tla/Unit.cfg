SPECIFICATION Spec
CONSTANTS
  Hold = 3
  Debounce = 1
  EdgeCap = 1
  SignalCap = 1
  MaxPresses = 3
  MaxLosses = 1
  Settings <- MCSettings
  Overrides = {"on", "unset"}
  Pins = {4}
  DefaultHold = 3
  Booted = 2
  MaxChanges = 1
  Digits = {0, 1}
  CHANNEL_CAPACITY = 1
  EVENT_CHANNEL = 1
  RETAINED = 3
  MAX_PULSES_PER_DIGIT = 10
  MaxKeys = 3
  MaxWebEvents = 1
PROPERTIES
    ButtonIsTrue
    StartsAsConfigured
    SimulatorIsTrue
    UnitGoesOn
CHECK_DEADLOCK FALSE
