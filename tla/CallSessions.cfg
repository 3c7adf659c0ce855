SPECIFICATION SSpec
CONSTANTS
    q1 = q1
    r1 = r1
    r2 = r2
    None = None
    QuestionId <- MCQuestionId
    RecordingId <- MCRecordingId
SYMMETRY MCSymmetry
INVARIANTS
    MicrophoneOnlyWhileAnswering
    EveryAnswerHandedOver
    OutputsFollowState
    WaitIsAnswered
PROPERTIES
    OnlyOwnUploadEnds
    NothingPlayedWhilePaused
    SessionIsTrue
