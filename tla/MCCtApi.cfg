CONSTANTS
    Threads = {t1, t2}
    Ctns = {n1, n2}
    Ports = {n1, n2}
    PortsOf <- MCPortsOf
    Cts = {c1, c2}
    Disciplines = {TRUE, FALSE}
    None = None
SPECIFICATION FairSpec
INVARIANTS TypeOK ListConsistent NoLeak NoDanglingTerminal PortSerialized
PROPERTIES MutexesReleased ImplementsAbs
CHECK_DEADLOCK FALSE
