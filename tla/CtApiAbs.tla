------------------------------ MODULE CtApiAbs ------------------------------
(* What the CT-API promises its callers, as a list of connections: every call *)
(* takes effect in one step between its call and its return. CtApi implements *)
(* this specification (CtApi!Abs).                                            *)
CONSTANTS Threads, Ctns, Ports, PortsOf, None

VARIABLES
    conn,   \* the port each number is connected to, or None
    call    \* the call each thread is in

absVars == <<conn, call>>

Idle == [op |-> "idle", ctn |-> None, pn |-> None, ret |-> None]
Pending(op, n, p) == [op |-> op, ctn |-> n, pn |-> p, ret |-> None]
Done(code) == [op |-> "done", ctn |-> None, pn |-> None, ret |-> code]

AbsInit ==
    /\ conn = [n \in Ctns |-> None]
    /\ call = [t \in Threads |-> Idle]

Become(t, c) == call' = [call EXCEPT ![t] = c]

Call(t) ==
    /\ call[t] = Idle
    /\ \E n \in Ctns :
        \/ \E p \in PortsOf[n] : Become(t, Pending("init", n, p))
        \/ Become(t, Pending("close", n, None))
        \/ Become(t, Pending("data", n, None))
    /\ UNCHANGED conn

\* ctn is free: it is connected to the port, or it stays free.
Open(t) ==
    /\ call[t].op = "init"
    /\ conn[call[t].ctn] = None
    /\ \/ /\ conn' = [conn EXCEPT ![call[t].ctn] = call[t].pn]
          /\ Become(t, Done("OK"))
       \/ /\ Become(t, Done("ERR_TRANS")) \/ Become(t, Done("ERR_MEMORY"))
          /\ UNCHANGED conn

\* The number is disconnected, whatever the reader answered.
Disconnect(t) ==
    /\ call[t].op = "close"
    /\ conn[call[t].ctn] # None
    /\ conn' = [conn EXCEPT ![call[t].ctn] = None]
    /\ Become(t, Done("OK")) \/ Become(t, Done("ERR_TRANS"))

\* A command is carried out on the terminal connected under the number.
Command(t) ==
    /\ call[t].op = "data"
    /\ conn[call[t].ctn] # None
    /\ \E code \in {"OK", "ERR_TRANS", "ERR_MEMORY", "ERR_INVALID", "ERR_HTSI"} :
         Become(t, Done(code))
    /\ UNCHANGED conn

\* ERR_CT: CT_init of a number in use, any other call of one that is not.
Refuse(t) ==
    /\ \/ call[t].op = "init" /\ conn[call[t].ctn] # None
       \/ call[t].op \in {"close", "data"} /\ conn[call[t].ctn] = None
    /\ Become(t, Done("ERR_CT"))
    /\ UNCHANGED conn

Return(t) ==
    /\ call[t].op = "done"
    /\ Become(t, Idle)
    /\ UNCHANGED conn

AbsNext ==
    \E t \in Threads :
        Call(t) \/ Open(t) \/ Disconnect(t) \/ Command(t) \/ Refuse(t) \/ Return(t)

AbsSpec == AbsInit /\ [][AbsNext]_absVars
=============================================================================
