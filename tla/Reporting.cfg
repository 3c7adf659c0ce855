SPECIFICATION Spec
CONSTANTS
  Tag <- TwoStates
  Effects = 1
  Depth = 1
  Lag = 1
  Attempts = 2
  MaxEvents = 3
  MaxRestarts = 1
  BusMax = 2
  BatchMax = 1
  BufferMax = 2
  MaxFiles = 2
  MaxSequence = 4
  Legacy = 2
  OPERATOR_ATTEMPTS = 2
  UPLOAD_RETRIES = 1
  Failures <- OtherStatuses
  MaxUploads = 2
  MaxSwitches = 1
INVARIANTS
    StatusInv
    ForwarderInv
    OperatorInv
PROPERTIES
    OperatorHears
CHECK_DEADLOCK FALSE
