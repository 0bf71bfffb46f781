CONSTANTS
    Threads = {t1, t2, t3}
    MaxReaders = 1
    Luns = {0}
    Atrs = {a1}
    Empty = Empty
    None = None
SPECIFICATION FairSpec
INVARIANTS TypeOK ContextMatches AtrIsLatest NoNullContext
PROPERTY MutexesReleased
CHECK_DEADLOCK FALSE
