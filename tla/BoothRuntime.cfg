SPECIFICATION Spec
CONSTANTS
    q1 = q1
    None = None
    r1 = r1
    QuestionId <- MCQuestionId
    RecordingId <- MCRecordingId
    EventCap = 4
    EffectCap = 8
    AudioCap = 2
    Slots = {1}
    Inputs = {"HookOn", "HookOff", "RotaryPulse"}
    MaxInputs = 4
INVARIANTS
    RecorderIsHeardInTime
    QueuesSettle
CHECK_DEADLOCK FALSE
