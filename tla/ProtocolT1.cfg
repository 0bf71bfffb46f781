CONSTANTS
    Ifsc = 2
    Ifsd = 2
    CmdLens = {1, 2, 3, 4, 5}
    RspLens = {2, 3, 4, 5}
    Factor = 16
    Rates = {9600, 38399}
    Wtxs = {1, 40, 41}
    MaxWtx = 2
    MaxFaults = 2
    MaxCommands = 3
    None = None
SPECIFICATION FairSpec
INVARIANT TimingsRestored
PROPERTIES FailuresExcused CommandsReturn ImplementsExchange
CHECK_DEADLOCK FALSE
