SPECIFICATION FairSpec
CONSTANTS
    q1 = q1
    None = None
    r1 = r1
    QuestionId <- MCQuestionId
    RecordingId <- MCRecordingId
    EventCap = 2
    EffectCap = 2
    AudioCap = 1
    Slots = {1}
    Inputs = {"HookOn", "HookOff", "RotaryPulse"}
    MaxInputs = 3
PROPERTIES
    LoopComesBack
CHECK_DEADLOCK FALSE
