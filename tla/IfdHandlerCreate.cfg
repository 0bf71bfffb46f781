CONSTANTS
    Threads = {t1}
    MaxReaders = 1
    Luns = {0}
    Atrs = {a1}
    Empty = Empty
    None = None
SPECIFICATION FairSpec
PROPERTY AlreadyInitialised
CHECK_DEADLOCK FALSE
