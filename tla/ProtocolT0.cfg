CONSTANTS
    Builds = {TRUE, FALSE}
    Short = 3
    MaxNulls = 2
    Apdus <- MCApdus
    Answers = {0, 1, 3, 4, 8}
    None = None
SPECIFICATION FairSpec
INVARIANTS BufferInBounds TransmissionEnded CarriedOutOnce AnswerComplete
PROPERTY CommandsReturn
CHECK_DEADLOCK FALSE
