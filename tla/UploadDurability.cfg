SPECIFICATION SettledSpec
CONSTANTS
    Recording <- MCRecording
    Short <- MCShort
    Refused <- MCRefused
    Slots = 2
    MaxRestarts = 1
INVARIANTS
    ExclusiveUpload
    OutcomeIsTrue
    ShutdownKeepsAnswers
PROPERTIES
    Keeps
    UploadsProgress
