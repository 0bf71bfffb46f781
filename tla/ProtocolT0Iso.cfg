CONSTANTS
    Builds = {TRUE}
    Short = 3
    MaxNulls = 2
    Apdus <- MCExtendedLe
    Answers = {0, 1, 3, 4, 8}
    None = None
SPECIFICATION FairSpec
PROPERTY IsoHandled
CHECK_DEADLOCK FALSE
