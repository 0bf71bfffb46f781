CONSTANTS
    MaxSlots = 2
    MaxTimeout = 1
    MaxLengths = 2
    None = None
SPECIFICATION FairSpec
INVARIANTS NoLostChange StatusResyncs NoNullDereference
PROPERTY CommandsReturn
CHECK_DEADLOCK FALSE
