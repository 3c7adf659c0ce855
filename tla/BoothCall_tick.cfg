SPECIFICATION Spec
CONSTANTS
    q1 = q1
    r1 = r1
    None = None
    QuestionId <- MCQuestionId
    RecordingId <- MCRecordingId
PROPERTIES
    AdmissionNeverClosesPulseGroup
