-------------------------------- MODULE CtApi --------------------------------
(* The CT-API entry points CT_init, CT_close and CT_data (ct-api/ctapi.c) as   *)
(* called by concurrent threads: the list of card terminals (ct-api/ct_list.c) *)
(* with its mutex, and the life of a CardTerminal object with its own mutex.   *)
(*                                                                             *)
(* A CardTerminal is an address of the heap: malloc may hand a freed address   *)
(* out again, so a pointer read before a free may denote another terminal      *)
(* after it. What a command does to the reader is the subject of CardTerminal. *)
EXTENDS Integers, Sequences, SequencesExt

CONSTANTS
    Threads,      \* threads of the application
    Ctns,         \* card terminal numbers they use
    Ports,        \* port numbers
    PortsOf,      \* the ports the application opens under each number
    Cts,          \* addresses malloc may return for a CardTerminal
    Disciplines,  \* what the application promises: see disciplined
    None          \* NULL, no thread, no port

ASSUME NoneAssumption == None \notin Threads \cup Ctns \cup Ports \cup Cts
ASSUME PortsOfAssumption == PortsOf \in [Ctns -> SUBSET Ports]
ASSUME DisciplinesAssumption == Disciplines \subseteq BOOLEAN

VARIABLES
    listMutex,    \* owner of ct_list_mutex
    listExists,   \* ct_list # NULL
    nodes,        \* the nodes of ct_list from first to last
    elements,     \* ct_list->elements
    ctState,      \* each address: "free", "open" (initialised) or "closed"
    ctPort,       \* the port of the terminal's IO_Serial
    ctMutex,      \* owner of the terminal's mutex
    pc,           \* where each thread is
    ctn,          \* its parameter ctn
    pn,           \* its parameter pn
    ct,           \* its local variable ct
    ret,          \* its local variable ret
    disciplined   \* the application never runs CT_close(n) beside CT_data(n)

heap == <<ctState, ctPort, ctMutex>>
list == <<listExists, nodes, elements>>
locals == <<ctn, pn, ct, ret>>
vars == <<listMutex, list, heap, pc, locals, disciplined>>

Node == [ctn : Ctns, ct : Cts]
CommandCodes == {"OK", "ERR_TRANS", "ERR_MEMORY", "ERR_INVALID", "ERR_HTSI"}
Codes == CommandCodes \cup {"ERR_CT"}
InitSteps == {"init_lock", "init_open", "init_add"}
CloseSteps == {"close_lock", "close_terminal", "close_remove"}
DataSteps == {"data_lock", "data_get", "data_apdu", "data_mutex",
              "data_command", "data_unlock"}
\* A thread at one of these owns ct_list_mutex.
ListSteps == {"init_open", "init_add", "close_terminal", "close_remove",
              "data_get", "list_unlock"}
\* A thread at one of these dereferences its ct.
UsingSteps == {"data_apdu", "data_mutex", "data_command", "data_unlock"}

Init ==
    /\ listMutex = None
    /\ listExists = FALSE /\ nodes = <<>> /\ elements = 0
    /\ ctState = [c \in Cts |-> "free"]
    /\ ctPort = [c \in Cts |-> None]
    /\ ctMutex = [c \in Cts |-> None]
    /\ pc = [t \in Threads |-> "idle"]
    /\ ctn = [t \in Threads |-> None]
    /\ pn = [t \in Threads |-> None]
    /\ ct = [t \in Threads |-> None]
    /\ ret = [t \in Threads |-> None]
    /\ disciplined \in Disciplines

-----------------------------------------------------------------------------
(* The list operations of ct_list.c. *)

\* The nodes a walk from list->first meets under number n.
Matches(n) == {i \in DOMAIN nodes : nodes[i].ctn = n}
First(n) == CHOOSE i \in Matches(n) : \A j \in Matches(n) : i <= j

CT_List_GetCardTerminal(n) ==
    IF Matches(n) = {} THEN None ELSE nodes[First(n)].ct

\* Mutant of CT_List_AddCardTerminal: node->ct is never assigned.
MutAddWithoutCt(n, c) ==
    /\ listExists' = TRUE
    /\ nodes' = Append(nodes, [ctn |-> n, ct |-> None])
    /\ elements' = elements + 1

\* CT_List_New when the list is NULL, then the node appended at list->last.
CT_List_AddCardTerminal(n, c) ==
    /\ listExists' = TRUE
    /\ nodes' = Append(nodes, [ctn |-> n, ct |-> c])
    /\ elements' = elements + 1

\* Mutant of CT_List_RemoveCardTerminal: list->first is unlinked whatever matched.
MutRemoveHead(n) ==
    /\ nodes' = Tail(nodes)
    /\ elements' = elements - 1
    /\ listExists' = (elements' # 0)

\* The first node of that number is unlinked; the caller frees its terminal and
\* then deletes a list that has no more elements.
CT_List_RemoveCardTerminal(n) ==
    /\ nodes' = RemoveAt(nodes, First(n))
    /\ elements' = elements - 1
    /\ listExists' = (elements' # 0)

CardTerminal_Delete(c) ==
    /\ ctState' = [ctState EXCEPT ![c] = "free"]
    /\ ctPort' = [ctPort EXCEPT ![c] = None]

-----------------------------------------------------------------------------
(* The locks. *)

Goto(t, step) == pc' = [pc EXCEPT ![t] = step]
Result(t, code, step) == Goto(t, step) /\ ret' = [ret EXCEPT ![t] = code]

\* pthread_mutex_lock (&ct_list_mutex)
LockList(t, at, next) ==
    /\ pc[t] = at
    /\ listMutex = None
    /\ listMutex' = t
    /\ Goto(t, next)
    /\ UNCHANGED <<list, heap, locals, disciplined>>

\* pthread_mutex_unlock (&ct_list_mutex)
UnlockList(t) ==
    /\ pc[t] = "list_unlock"
    /\ listMutex' = None
    /\ Goto(t, "return")
    /\ UNCHANGED <<list, heap, locals, disciplined>>

\* The call returns to the application; its parameters and locals are gone.
Leave(t) ==
    /\ pc[t] = "return"
    /\ Goto(t, "idle")
    /\ ctn' = [ctn EXCEPT ![t] = None] /\ pn' = [pn EXCEPT ![t] = None]
    /\ ct' = [ct EXCEPT ![t] = None] /\ ret' = [ret EXCEPT ![t] = None]
    /\ UNCHANGED <<listMutex, list, heap, disciplined>>

-----------------------------------------------------------------------------
(* CT_init *)

CallInit(t, n, p) ==
    /\ pc[t] = "idle"
    /\ p \in PortsOf[n]
    /\ ctn' = [ctn EXCEPT ![t] = n] /\ pn' = [pn EXCEPT ![t] = p]
    /\ Goto(t, "init_lock")
    /\ UNCHANGED <<listMutex, list, heap, ct, ret, disciplined>>

InitInUse(t) ==
    /\ pc[t] = "init_open"
    /\ CT_List_GetCardTerminal(ctn[t]) # None
    /\ Result(t, "ERR_CT", "list_unlock")
    /\ UNCHANGED <<listMutex, list, heap, ctn, pn, ct, disciplined>>

\* CardTerminal_New or CardTerminal_Init fails: nothing of the object is left.
InitFails(t) ==
    /\ pc[t] = "init_open"
    /\ CT_List_GetCardTerminal(ctn[t]) = None
    /\ \E code \in {"ERR_MEMORY", "ERR_TRANS"} : Result(t, code, "list_unlock")
    /\ UNCHANGED <<listMutex, list, heap, ctn, pn, ct, disciplined>>

\* Mutant of InitOpens: the check that ctn is not in use is missing.
MutInitUnchecked(t) ==
    /\ pc[t] = "init_open"
    /\ \E c \in Cts :
        /\ ctState[c] = "free"
        /\ ctState' = [ctState EXCEPT ![c] = "open"]
        /\ ctPort' = [ctPort EXCEPT ![c] = pn[t]]
        /\ ctMutex' = [ctMutex EXCEPT ![c] = None]
        /\ ct' = [ct EXCEPT ![t] = c]
    /\ Goto(t, "init_add")
    /\ UNCHANGED <<listMutex, list, ctn, pn, ret, disciplined>>

\* CardTerminal_New and CardTerminal_Init succeed; the mutex is initialised last.
InitOpens(t) ==
    /\ pc[t] = "init_open"
    /\ CT_List_GetCardTerminal(ctn[t]) = None
    /\ \E c \in Cts :
        /\ ctState[c] = "free"
        /\ ctState' = [ctState EXCEPT ![c] = "open"]
        /\ ctPort' = [ctPort EXCEPT ![c] = pn[t]]
        /\ ctMutex' = [ctMutex EXCEPT ![c] = None]
        /\ ct' = [ct EXCEPT ![t] = c]
    /\ Goto(t, "init_add")
    /\ UNCHANGED <<listMutex, list, ctn, pn, ret, disciplined>>

InitAdds(t) ==
    /\ pc[t] = "init_add"
    /\ CT_List_AddCardTerminal(ctn[t], ct[t])
    /\ Result(t, "OK", "list_unlock")
    /\ UNCHANGED <<listMutex, heap, ctn, pn, ct, disciplined>>

\* Mutant of InitAddFails: the terminal is not closed and deleted.
MutInitAddLeaks(t) ==
    /\ pc[t] = "init_add"
    /\ Result(t, "ERR_MEMORY", "list_unlock")
    /\ UNCHANGED <<listMutex, list, heap, ctn, pn, ct, disciplined>>

\* No memory for the list or the node: the terminal is closed and deleted, and a
\* list that this call created is deleted again.
InitAddFails(t) ==
    /\ pc[t] = "init_add"
    /\ CardTerminal_Delete(ct[t])
    /\ Result(t, "ERR_MEMORY", "list_unlock")
    /\ UNCHANGED <<listMutex, list, ctMutex, ctn, pn, ct, disciplined>>

-----------------------------------------------------------------------------
(* CT_close *)

\* A disciplined application closes a number no CT_data is using.
CallClose(t, n) ==
    /\ pc[t] = "idle"
    /\ disciplined =>
         ~\E u \in Threads : pc[u] \in DataSteps /\ ctn[u] = n
    /\ ctn' = [ctn EXCEPT ![t] = n]
    /\ Goto(t, "close_lock")
    /\ UNCHANGED <<listMutex, list, heap, pn, ct, ret, disciplined>>

CloseUnknown(t) ==
    /\ pc[t] = "close_terminal"
    /\ CT_List_GetCardTerminal(ctn[t]) = None
    /\ Result(t, "ERR_CT", "list_unlock")
    /\ UNCHANGED <<listMutex, list, heap, ctn, pn, ct, disciplined>>

\* Mutant of CloseTerminal: an error of the reader ends the call at once.
MutCloseGivesUp(t) ==
    /\ pc[t] = "close_terminal"
    /\ LET c == CT_List_GetCardTerminal(ctn[t]) IN
        /\ c # None
        /\ ctState' = [ctState EXCEPT ![c] = "closed"]
        /\ ctMutex' = [ctMutex EXCEPT ![c] = None]
        /\ ct' = [ct EXCEPT ![t] = c]
    /\ Result(t, "OK", "close_remove") \/ Result(t, "ERR_TRANS", "list_unlock")
    /\ UNCHANGED <<listMutex, list, ctPort, ctn, pn, disciplined>>

\* CardTerminal_Close: slots and port are closed whether or not the reader
\* answers, and the mutex is destroyed without being taken.
CloseTerminal(t) ==
    /\ pc[t] = "close_terminal"
    /\ LET c == CT_List_GetCardTerminal(ctn[t]) IN
        /\ c # None
        /\ ctState' = [ctState EXCEPT ![c] = "closed"]
        /\ ctMutex' = [ctMutex EXCEPT ![c] = None]
        /\ ct' = [ct EXCEPT ![t] = c]
    /\ \E code \in {"OK", "ERR_TRANS"} : Result(t, code, "close_remove")
    /\ UNCHANGED <<listMutex, list, ctPort, ctn, pn, disciplined>>

CloseRemove(t) ==
    /\ pc[t] = "close_remove"
    /\ CT_List_RemoveCardTerminal(ctn[t])
    /\ CardTerminal_Delete(nodes[First(ctn[t])].ct)
    /\ Goto(t, "list_unlock")
    /\ UNCHANGED <<listMutex, ctMutex, locals, disciplined>>

-----------------------------------------------------------------------------
(* CT_data *)

CallData(t, n) ==
    /\ pc[t] = "idle"
    /\ disciplined =>
         ~\E u \in Threads : pc[u] \in CloseSteps /\ ctn[u] = n
    /\ ctn' = [ctn EXCEPT ![t] = n]
    /\ Goto(t, "data_lock")
    /\ UNCHANGED <<listMutex, list, heap, pn, ct, ret, disciplined>>

\* The terminal is looked up and the list mutex is released.
DataGet(t) ==
    /\ pc[t] = "data_get"
    /\ ct' = [ct EXCEPT ![t] = CT_List_GetCardTerminal(ctn[t])]
    /\ IF ct'[t] = None THEN Result(t, "ERR_CT", "return")
                        ELSE Goto(t, "data_apdu") /\ UNCHANGED ret
    /\ listMutex' = None
    /\ UNCHANGED <<list, heap, ctn, pn, disciplined>>

DataBadApdu(t) ==
    /\ pc[t] = "data_apdu"
    /\ Result(t, "ERR_MEMORY", "return")
    /\ UNCHANGED <<listMutex, list, heap, ctn, pn, ct, disciplined>>

DataApdu(t) ==
    /\ pc[t] = "data_apdu"
    /\ Goto(t, "data_mutex")
    /\ UNCHANGED <<listMutex, list, heap, locals, disciplined>>

\* Mutant of DataLock: the terminal's mutex is not waited for.
MutNoLock(t) ==
    /\ pc[t] = "data_mutex"
    /\ ctState[ct[t]] = "open"
    /\ ctMutex' = [ctMutex EXCEPT ![ct[t]] = t]
    /\ Goto(t, "data_command")
    /\ UNCHANGED <<listMutex, list, ctState, ctPort, locals, disciplined>>

\* pthread_mutex_lock (CardTerminal_GetMutex (ct))
DataLock(t) ==
    /\ pc[t] = "data_mutex"
    /\ ctState[ct[t]] = "open"
    /\ ctMutex[ct[t]] = None
    /\ ctMutex' = [ctMutex EXCEPT ![ct[t]] = t]
    /\ Goto(t, "data_command")
    /\ UNCHANGED <<listMutex, list, ctState, ctPort, locals, disciplined>>

\* Mutant of DataCommand: an address that names no slot returns at once.
MutEarlyReturn(t) ==
    /\ pc[t] = "data_command"
    /\ ctState[ct[t]] = "open"
    /\ \E code \in CommandCodes :
         Result(t, code, IF code = "ERR_INVALID" THEN "return" ELSE "data_unlock")
    /\ UNCHANGED <<listMutex, list, heap, ctn, pn, ct, disciplined>>

\* CardTerminal_Command, CT_Slot_Command or an address that names no slot.
DataCommand(t) ==
    /\ pc[t] = "data_command"
    /\ ctState[ct[t]] = "open"
    /\ \E code \in CommandCodes : Result(t, code, "data_unlock")
    /\ UNCHANGED <<listMutex, list, heap, ctn, pn, ct, disciplined>>

\* pthread_mutex_unlock (CardTerminal_GetMutex (ct)); then the answer is copied
\* out, or its end if the caller's buffer is too small.
DataUnlock(t) ==
    /\ pc[t] = "data_unlock"
    /\ ctState[ct[t]] = "open"
    /\ ctMutex' = [ctMutex EXCEPT ![ct[t]] = None]
    /\ \E code \in {ret[t], "ERR_MEMORY"} : Result(t, code, "return")
    /\ UNCHANGED <<listMutex, list, ctState, ctPort, ctn, pn, ct, disciplined>>

\* The terminal was closed or freed under the thread: what it does next is
\* undefined. The model stops here.
DataUndefined(t) ==
    /\ pc[t] \in {"data_mutex", "data_command", "data_unlock"}
    /\ ctState[ct[t]] # "open"
    /\ Goto(t, "undefined")
    /\ UNCHANGED <<listMutex, list, heap, locals, disciplined>>

-----------------------------------------------------------------------------

CT_init(t) ==
    \/ \E n \in Ctns, p \in Ports : CallInit(t, n, p)
    \/ LockList(t, "init_lock", "init_open")
    \/ InitInUse(t) \/ InitFails(t) \/ InitOpens(t)
    \/ InitAdds(t) \/ InitAddFails(t)

CT_close(t) ==
    \/ \E n \in Ctns : CallClose(t, n)
    \/ LockList(t, "close_lock", "close_terminal")
    \/ CloseUnknown(t) \/ CloseTerminal(t) \/ CloseRemove(t)

CT_data(t) ==
    \/ \E n \in Ctns : CallData(t, n)
    \/ LockList(t, "data_lock", "data_get")
    \/ DataGet(t) \/ DataBadApdu(t) \/ DataApdu(t) \/ DataLock(t)
    \/ DataCommand(t) \/ DataUnlock(t) \/ DataUndefined(t)

Defined == \A t \in Threads : pc[t] # "undefined"

Next ==
    /\ Defined
    /\ \E t \in Threads :
        CT_init(t) \/ CT_close(t) \/ CT_data(t) \/ UnlockList(t) \/ Leave(t)

Spec == Init /\ [][Next]_vars

\* A thread that is inside a call keeps running: every step but entering a call.
Proceed(t) ==
    /\ Defined
    /\ \/ LockList(t, "init_lock", "init_open")
       \/ LockList(t, "close_lock", "close_terminal")
       \/ LockList(t, "data_lock", "data_get")
       \/ InitInUse(t) \/ InitFails(t) \/ InitOpens(t)
       \/ InitAdds(t) \/ InitAddFails(t)
       \/ CloseUnknown(t) \/ CloseTerminal(t) \/ CloseRemove(t)
       \/ DataGet(t) \/ DataBadApdu(t) \/ DataApdu(t) \/ DataLock(t)
       \/ DataCommand(t) \/ DataUnlock(t) \/ DataUndefined(t)
       \/ UnlockList(t) \/ Leave(t)

FairSpec == Spec /\ \A t \in Threads : WF_vars(Proceed(t))

-----------------------------------------------------------------------------
(* Properties *)

Steps == InitSteps \cup CloseSteps \cup DataSteps
           \cup {"idle", "list_unlock", "return", "undefined"}

\* Every variable of the CT-API layer keeps its type.
TypeOK ==
    /\ listMutex \in Threads \cup {None}
    /\ listExists \in BOOLEAN /\ nodes \in Seq(Node) /\ elements \in Int
    /\ ctState \in [Cts -> {"free", "open", "closed"}]
    /\ ctPort \in [Cts -> Ports \cup {None}]
    /\ ctMutex \in [Cts -> Threads \cup {None}]
    /\ pc \in [Threads -> Steps]
    /\ ctn \in [Threads -> Ctns \cup {None}]
    /\ pn \in [Threads -> Ports \cup {None}]
    /\ ct \in [Threads -> Cts \cup {None}]
    /\ ret \in [Threads -> Codes \cup {None}]
    /\ disciplined \in BOOLEAN

\* The list CT_init and CT_close maintain: a number and a terminal occur once,
\* elements counts the nodes, and outside the critical sections ct_list is NULL
\* exactly when there is nothing to list.
ListConsistent ==
    /\ \A i, j \in DOMAIN nodes :
         nodes[i].ctn = nodes[j].ctn \/ nodes[i].ct = nodes[j].ct => i = j
    /\ elements = Len(nodes)
    /\ listExists <=> elements # 0

Listed(c) == \E i \in DOMAIN nodes : nodes[i].ct = c

\* Every CardTerminal that CT_init allocates is in the list or in the hands of
\* the one thread about to add it, and every listed one is allocated: no error
\* path of CT_init or CT_close leaks a terminal or leaves a freed one behind.
NoLeak ==
    \A c \in Cts :
        ctState[c] # "free" <=>
            \/ Listed(c)
            \/ \E t \in Threads : pc[t] = "init_add" /\ ct[t] = c

\* From its lookup to its return CT_data uses the terminal that is listed under
\* its number.
TerminalPinned ==
    \A t \in Threads :
        pc[t] \in UsingSteps =>
            /\ ctState[ct[t]] = "open"
            /\ \E i \in DOMAIN nodes : nodes[i] = [ctn |-> ctn[t], ct |-> ct[t]]

\* design.sgml says of every application "The Interfaces are thread-safe": no
\* thread in CT_data uses a terminal that another one closed or freed.
InterfacesThreadSafe == Defined

\* With an application that closes a number only when no CT_data is using it.
NoDanglingTerminal == disciplined => Defined /\ TerminalPinned

DistinctPorts ==
    \A m, n \in Ctns : m # n => PortsOf[m] \cap PortsOf[n] = {}

\* Two threads never drive the same serial port at once, provided every number
\* has ports of its own: the list mutex keeps a number from being opened twice
\* and the terminal's mutex keeps two commands from overlapping.
PortSerialized ==
    disciplined /\ DistinctPorts =>
        \A t, u \in Threads :
            t # u /\ pc[t] = "data_command" /\ pc[u] = "data_command"
              => ctPort[ct[t]] # ctPort[ct[u]]

\* No path through CT_init, CT_close or CT_data keeps a mutex: whoever holds one
\* gives it back, and no two calls wait for each other.
MutexesReleased ==
    disciplined =>
        /\ []<>(listMutex = None)
        /\ \A c \in Cts : []<>(ctMutex[c] = None)

-----------------------------------------------------------------------------
(* The inductive invariant behind these properties (CtApiProofs). *)

\* The list mutex belongs to the thread that is in a critical section.
LockInv == \A t \in Threads : pc[t] \in ListSteps <=> listMutex = t

\* What the parameters and locals of a call in progress hold.
ArgsInv ==
    \A t \in Threads :
        /\ pc[t] \in InitSteps \cup CloseSteps \cup DataSteps => ctn[t] \in Ctns
        /\ pc[t] \in InitSteps => pn[t] \in PortsOf[ctn[t]]
        /\ pc[t] \in UsingSteps \cup {"init_add", "close_remove"} => ct[t] \in Cts

\* A terminal is added only if new, and the one being closed is in the list.
CriticalInv ==
    \A t \in Threads :
        /\ pc[t] = "init_add" =>
             /\ ctState[ct[t]] = "open"
             /\ ctPort[ct[t]] = pn[t]
             /\ Matches(ctn[t]) = {}
             /\ ~Listed(ct[t])
        /\ pc[t] = "close_remove" =>
             \E i \in DOMAIN nodes : nodes[i] = [ctn |-> ctn[t], ct |-> ct[t]]

\* A terminal is closed only on its way out of the list.
ClosedInv ==
    \A c \in Cts :
        ctState[c] = "closed" =>
            \E t \in Threads : pc[t] = "close_remove" /\ ct[t] = c

\* A listed terminal has a port of its number.
PortInv ==
    \A i \in DOMAIN nodes : ctPort[nodes[i].ct] \in PortsOf[nodes[i].ctn]

\* What a disciplined application never does.
DisciplineInv ==
    disciplined =>
        \A t, u \in Threads :
            pc[t] \in CloseSteps /\ pc[u] \in DataSteps => ctn[t] # ctn[u]

\* A thread between DataLock and DataUnlock owns the mutex of its terminal.
MutexInv ==
    disciplined =>
        \A t \in Threads :
            pc[t] \in {"data_command", "data_unlock"} => ctMutex[ct[t]] = t

\* What a call in progress has in the locals that its return will show: CT_close and
\* CT_data have no port, and carry the result of the work they have done.
ResultInv ==
    \A t \in Threads :
        /\ pc[t] \in CloseSteps \cup DataSteps \cup {"idle"} => pn[t] = None
        /\ pc[t] = "close_remove" => ret[t] \in {"OK", "ERR_TRANS"}
        /\ pc[t] = "data_unlock" => ret[t] \in CommandCodes

IInv ==
    /\ TypeOK /\ LockInv /\ ArgsInv
    /\ ListConsistent /\ NoLeak /\ CriticalInv /\ ClosedInv
    /\ PortInv /\ DisciplineInv /\ NoDanglingTerminal /\ MutexInv

-----------------------------------------------------------------------------
(* The abstract interface, for a disciplined application. (An undisciplined   *)
(* one is mapped to an interface nobody calls.)                               *)

absConn ==
    [n \in Ctns |->
        IF disciplined /\ Matches(n) # {} THEN ctPort[nodes[First(n)].ct] ELSE None]

absCallOf(t) ==
    LET pending(op) == [op |-> op, ctn |-> ctn[t], pn |-> pn[t], ret |-> None]
        none == [op |-> "idle", ctn |-> None, pn |-> None, ret |-> None]
    IN  CASE ~disciplined \/ pc[t] = "idle"      -> none
          [] disciplined /\ pc[t] \in InitSteps  -> pending("init")
          [] disciplined /\ pc[t] \in CloseSteps -> pending("close")
          [] disciplined /\ pc[t] \in DataSteps  -> pending("data")
          [] OTHER -> [none EXCEPT !.op = "done", !.ret = ret[t]]

absCall == [t \in Threads |-> absCallOf(t)]

Abs == INSTANCE CtApiAbs WITH conn <- absConn, call <- absCall

\* CT_init, CT_close and CT_data are atomic to a disciplined application: each
\* call acts on the connections in one step between its call and its return.
ImplementsAbs == Abs!AbsSpec
=============================================================================
