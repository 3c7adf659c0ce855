SPECIFICATION Spec
CONSTANTS
  LastDay = 146200
  MAX_RESPONSE_BYTES = 2
  Chunks = {1, 2}
  Declared = {1, 3}
  Temperatures <- TemperaturesAtLimit
  Times <- TimesAtLimit
  Codes <- AllCodes
  Stamps = {1}
  Powers = {40}
  MeterStamps = {1}
  Speeds = {900}
  CpuTemperatures <- None
  CAPACITY = 1
  INTERVAL = 2
  HOUR = 1
  MaxOthers = 1
INVARIANTS
    DateIsCalendars
    GaugesAreCurrent
PROPERTIES
    CollectorsGoOn
CHECK_DEADLOCK FALSE
