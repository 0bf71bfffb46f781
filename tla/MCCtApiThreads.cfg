CONSTANTS
    Threads = {t1, t2}
    Ctns = {n1}
    Ports = {n1}
    PortsOf <- MCPortsOf
    Cts = {c1}
    Disciplines = {FALSE}
    None = None
SPECIFICATION Spec
INVARIANT InterfacesThreadSafe
CHECK_DEADLOCK FALSE
