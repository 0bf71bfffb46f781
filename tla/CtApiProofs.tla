----------------------------- MODULE CtApiProofs -----------------------------
(* Proofs about CtApi: its safety properties hold for every number of threads, *)
(* numbers, ports and addresses.                                               *)
EXTENDS CtApi, SequenceTheorems, TLAPS

\* What CT_List_RemoveCardTerminal leaves of the list.
LEMMA RemoveAtProperties ==
    ASSUME NEW S, NEW s \in Seq(S), NEW k \in DOMAIN s
    PROVE  /\ RemoveAt(s, k) \in Seq(S)
           /\ Len(RemoveAt(s, k)) = Len(s) - 1
           /\ \A j \in 1 .. Len(s) - 1 :
                RemoveAt(s, k)[j] = IF j < k THEN s[j] ELSE s[j + 1]
<1> DEFINE a == SubSeq(s, 1, k - 1)
           b == SubSeq(s, k + 1, Len(s))
<1>1. k \in 1 .. Len(s) /\ Len(s) \in Nat
  OBVIOUS
<1>2. /\ a \in Seq(S) /\ Len(a) = k - 1
      /\ \A j \in 1 .. k - 1 : a[j] = s[j]
  BY <1>1, SubSeqProperties
<1>3. /\ b \in Seq(S) /\ Len(b) = Len(s) - k
      /\ \A j \in 1 .. Len(s) - k : b[j] = s[k + j]
  BY <1>1, SubSeqProperties
<1> HIDE DEF a, b
<1>4. a \o b \in Seq(S) /\ Len(a \o b) = Len(s) - 1
  BY <1>1, <1>2, <1>3, ConcatProperties
<1>5. \A j \in 1 .. Len(s) - 1 : (a \o b)[j] = IF j < k THEN s[j] ELSE s[j + 1]
  BY <1>1, <1>2, <1>3, ConcatProperties
<1> QED
  BY <1>4, <1>5 DEF RemoveAt, a, b

\* In a list whose numbers are unique, the walk finds the one node of its number.
LEMMA Lookup ==
    ASSUME TypeOK, ListConsistent, NEW i \in DOMAIN nodes
    PROVE  /\ Matches(nodes[i].ctn) = {i}
           /\ First(nodes[i].ctn) = i
           /\ CT_List_GetCardTerminal(nodes[i].ctn) = nodes[i].ct
           /\ nodes[i].ctn \in Ctns /\ nodes[i].ct \in Cts
           /\ nodes[i] = [ctn |-> nodes[i].ctn, ct |-> nodes[i].ct]
<1> DEFINE n == nodes[i].ctn
<1>1. i \in Int /\ nodes[i] \in Node
  BY DEF TypeOK
<1>2. Matches(n) = {i}
  BY Zenon DEF Matches, ListConsistent
<1>3. First(n) = i
  BY <1>1, <1>2 DEF First
<1>4. CT_List_GetCardTerminal(n) = nodes[i].ct
  BY <1>2, <1>3 DEF CT_List_GetCardTerminal
<1> QED
  BY <1>1, <1>2, <1>3, <1>4 DEF Node

\* A lookup that finds nothing means that no node has the number.
LEMMA NotFound ==
    ASSUME TypeOK, ListConsistent, NEW n \in Ctns
    PROVE  CT_List_GetCardTerminal(n) = None <=> Matches(n) = {}
<1>1. CASE Matches(n) = {}
  BY <1>1 DEF CT_List_GetCardTerminal
<1>2. CASE Matches(n) # {}
  <2>1. PICK i \in DOMAIN nodes : nodes[i].ctn = n
    BY <1>2, SMTT(30) DEF Matches
  <2> QED
    BY <2>1, <1>2, Lookup, NoneAssumption
<1> QED
  BY <1>1, <1>2

\* The steps that change neither the list nor a terminal: calls, lock and unlock
\* of the list, errors, returns.
LEMMA StepLocal ==
    ASSUME IInv, NEW t \in Threads,
           \/ \E n \in Ctns, p \in Ports : CallInit(t, n, p)
           \/ LockList(t, "init_lock", "init_open")
           \/ InitInUse(t)
           \/ InitFails(t)
           \/ \E n \in Ctns : CallClose(t, n)
           \/ LockList(t, "close_lock", "close_terminal")
           \/ CloseUnknown(t)
           \/ \E n \in Ctns : CallData(t, n)
           \/ LockList(t, "data_lock", "data_get")
           \/ DataBadApdu(t)
           \/ DataApdu(t)
           \/ DataCommand(t)
           \/ DataUndefined(t)
           \/ UnlockList(t)
           \/ Leave(t)
    PROVE  IInv'
<1> USE NoneAssumption, PortsOfAssumption
    DEF Goto, Result, heap, list, locals, IInv, TypeOK, LockInv, ArgsInv,
        ListConsistent, NoLeak, CriticalInv, ClosedInv, PortInv, DisciplineInv,
        NoDanglingTerminal, MutexInv, Matches, Listed, Defined, TerminalPinned,
        Steps, InitSteps, CloseSteps, DataSteps, ListSteps, UsingSteps, Codes,
        CommandCodes
<1>1. CASE \E n \in Ctns, p \in Ports : CallInit(t, n, p)
  BY <1>1, SMTT(30) DEF CallInit
<1>2. CASE LockList(t, "init_lock", "init_open")
  BY <1>2 DEF LockList
<1>3. CASE InitInUse(t)
  BY <1>3 DEF InitInUse
<1>4. CASE InitFails(t)
  BY <1>4 DEF InitFails
<1>5. CASE \E n \in Ctns : CallClose(t, n)
  BY <1>5 DEF CallClose
<1>6. CASE LockList(t, "close_lock", "close_terminal")
  BY <1>6 DEF LockList
<1>7. CASE CloseUnknown(t)
  BY <1>7 DEF CloseUnknown
<1>8. CASE \E n \in Ctns : CallData(t, n)
  BY <1>8 DEF CallData
<1>9. CASE LockList(t, "data_lock", "data_get")
  BY <1>9 DEF LockList
<1>10. CASE DataBadApdu(t)
  BY <1>10 DEF DataBadApdu
<1>11. CASE DataApdu(t)
  BY <1>11 DEF DataApdu
<1>12. CASE DataCommand(t)
  BY <1>12 DEF DataCommand
<1>13. CASE DataUndefined(t)
  BY <1>13 DEF DataUndefined
<1>14. CASE UnlockList(t)
  BY <1>14 DEF UnlockList
<1>15. CASE Leave(t)
  BY <1>15 DEF Leave
<1> QED
  BY <1>1, <1>2, <1>3, <1>4, <1>5, <1>6, <1>7, <1>8, <1>9, <1>10, <1>11, <1>12, <1>13, <1>14, <1>15

\* CT_init opens a terminal at a free address: no list node has it.
LEMMA StepInitOpens ==
    ASSUME IInv, NEW t \in Threads, InitOpens(t)
    PROVE  IInv'
<1> USE DEF IInv, InitOpens, Goto, list, locals
<1>1. PICK c \in Cts :
        /\ ctState[c] = "free"
        /\ ctState' = [ctState EXCEPT ![c] = "open"]
        /\ ctPort' = [ctPort EXCEPT ![c] = pn[t]]
        /\ ctMutex' = [ctMutex EXCEPT ![c] = None]
        /\ ct' = [ct EXCEPT ![t] = c]
  OBVIOUS
<1>2. ~Listed(c)
  BY <1>1 DEF NoLeak
<1>3. ctn[t] \in Ctns /\ pn[t] \in PortsOf[ctn[t]] /\ pn[t] \in Ports
  BY PortsOfAssumption DEF ArgsInv, InitSteps, DataSteps
<1>4. Matches(ctn[t]) = {}
  BY <1>3, NotFound
<1>5. (TypeOK /\ LockInv /\ ArgsInv)'
  BY <1>1, <1>3, NoneAssumption
     DEF TypeOK, LockInv, ArgsInv, Steps, InitSteps, CloseSteps, DataSteps,
         ListSteps, UsingSteps
<1>6. (ListConsistent /\ NoLeak /\ ClosedInv)'
  BY <1>1, <1>2 DEF TypeOK, ListConsistent, NoLeak, ClosedInv, Listed
<1>7. CriticalInv'
  BY <1>1, <1>2, <1>4
     DEF TypeOK, CriticalInv, LockInv, ListSteps, Matches, Listed
<1>8. PortInv'
  BY <1>1, <1>2 DEF TypeOK, PortInv, Listed
<1>9. (DisciplineInv /\ NoDanglingTerminal /\ MutexInv)'
  BY <1>1, <1>2
     DEF TypeOK, DisciplineInv, NoDanglingTerminal, Defined, TerminalPinned,
         MutexInv, ArgsInv, CloseSteps, DataSteps, UsingSteps
<1> QED
  BY <1>5, <1>6, <1>7, <1>8, <1>9

\* CT_init appends a terminal whose number and address are not in the list.
LEMMA StepInitAdds ==
    ASSUME IInv, NEW t \in Threads, InitAdds(t)
    PROVE  IInv'
<1> USE DEF IInv, InitAdds, CT_List_AddCardTerminal, Goto, Result, heap
<1> DEFINE new == [ctn |-> ctn[t], ct |-> ct[t]]
<1>1. /\ ctn[t] \in Ctns /\ ct[t] \in Cts /\ pn[t] \in PortsOf[ctn[t]]
      /\ ctState[ct[t]] = "open" /\ ctPort[ct[t]] = pn[t]
      /\ Matches(ctn[t]) = {} /\ ~Listed(ct[t])
  BY DEF ArgsInv, InitSteps, CriticalInv
<1>2. new \in Node
  BY <1>1 DEF Node
<1>3. /\ nodes' \in Seq(Node)
      /\ Len(nodes') = Len(nodes) + 1
      /\ DOMAIN nodes' = DOMAIN nodes \cup {Len(nodes) + 1}
      /\ nodes'[Len(nodes) + 1] = new
      /\ \A i \in DOMAIN nodes : nodes'[i] = nodes[i]
  BY <1>2 DEF TypeOK
<1>4. Len(nodes) \in Nat
  BY DEF TypeOK
<1> HIDE DEF CT_List_AddCardTerminal
<1>5. listExists' = TRUE /\ elements' = elements + 1
  BY DEF CT_List_AddCardTerminal
<1>6. (TypeOK /\ LockInv /\ ArgsInv)'
  BY <1>3, <1>5, NoneAssumption
     DEF TypeOK, LockInv, ArgsInv, Steps, InitSteps, CloseSteps, DataSteps,
         ListSteps, UsingSteps, Codes, CommandCodes
<1>7. ListConsistent'
  <2>1. \A i \in DOMAIN nodes : nodes[i].ctn # ctn[t] /\ nodes[i].ct # ct[t]
    BY <1>1 DEF Matches, Listed
  <2>2. \A i, j \in DOMAIN nodes' :
          nodes'[i].ctn = nodes'[j].ctn \/ nodes'[i].ct = nodes'[j].ct => i = j
    BY <2>1, <1>3 DEF ListConsistent
  <2> QED
    BY <2>2, <1>3, <1>4, <1>5 DEF ListConsistent
<1>8. \A c : Listed(c)' <=> Listed(c) \/ c = ct[t]
  BY <1>3 DEF Listed
<1>9. (NoLeak /\ ClosedInv)'
  BY <1>1, <1>8 DEF TypeOK, NoLeak, ClosedInv, LockInv, ListSteps
<1>10. CriticalInv'
  BY DEF TypeOK, CriticalInv, LockInv, ListSteps
<1>11. PortInv'
  BY <1>1, <1>3 DEF PortInv
<1>12. (DisciplineInv /\ MutexInv)'
  BY DEF TypeOK, DisciplineInv, MutexInv, CloseSteps, DataSteps
<1>13. NoDanglingTerminal'
  <2> SUFFICES ASSUME disciplined PROVE (Defined /\ TerminalPinned)'
    BY DEF NoDanglingTerminal
  <2>1. Defined /\ TerminalPinned
    BY DEF NoDanglingTerminal
  <2>2. Defined'
    BY <2>1 DEF Defined, TypeOK
  <2>3. ASSUME NEW u \in Threads, pc'[u] \in UsingSteps
        PROVE  /\ ctState'[ct'[u]] = "open"
               /\ \E i \in DOMAIN nodes' :
                    nodes'[i] = [ctn |-> ctn'[u], ct |-> ct'[u]]
    <3>1. pc[u] \in UsingSteps
      BY <2>3 DEF UsingSteps, TypeOK
    <3>2. PICK i \in DOMAIN nodes : nodes[i] = [ctn |-> ctn[u], ct |-> ct[u]]
      BY <3>1, <2>1 DEF TerminalPinned
    <3> QED
      BY <3>1, <3>2, <2>1, <1>3 DEF TerminalPinned
  <2> QED
    BY <2>2, <2>3 DEF TerminalPinned
<1> QED
  BY <1>6, <1>7, <1>9, <1>10, <1>11, <1>12, <1>13

\* CT_init gives up: the terminal it frees is in no list.
LEMMA StepInitAddFails ==
    ASSUME IInv, NEW t \in Threads, InitAddFails(t)
    PROVE  IInv'
<1> USE DEF IInv, InitAddFails, CardTerminal_Delete, Goto, Result, list
<1>1. ct[t] \in Cts /\ ~Listed(ct[t])
  BY DEF ArgsInv, CriticalInv
<1>2. (TypeOK /\ LockInv /\ ArgsInv)'
  BY <1>1, NoneAssumption
     DEF TypeOK, LockInv, ArgsInv, Steps, InitSteps, CloseSteps, DataSteps,
         ListSteps, UsingSteps, Codes, CommandCodes
<1>3. \A c : Listed(c)' <=> Listed(c)
  BY DEF Listed
<1>4. (ListConsistent /\ NoLeak)'
  BY <1>1, <1>3
     DEF TypeOK, ListConsistent, NoLeak, LockInv, ListSteps
<1>5. (CriticalInv /\ ClosedInv)'
  BY <1>1 DEF TypeOK, CriticalInv, ClosedInv, LockInv, ListSteps
<1>6. PortInv'
  BY <1>1 DEF TypeOK, PortInv, Listed
<1>7. (DisciplineInv /\ NoDanglingTerminal /\ MutexInv)'
  BY <1>1
     DEF TypeOK, DisciplineInv, NoDanglingTerminal, Defined, TerminalPinned,
         MutexInv, ArgsInv, Listed, CloseSteps, DataSteps, UsingSteps
<1> QED
  BY <1>2, <1>4, <1>5, <1>6, <1>7

\* CT_close closes the terminal listed under its number; no CT_data of a
\* disciplined application is using it.
LEMMA StepCloseTerminal ==
    ASSUME IInv, NEW t \in Threads, CloseTerminal(t)
    PROVE  IInv'
<1> USE DEF IInv, CloseTerminal, Goto, Result, list
<1>1. ctn[t] \in Ctns
  BY DEF ArgsInv, CloseSteps
<1>2. PICK k \in DOMAIN nodes : nodes[k].ctn = ctn[t]
  BY <1>1, NotFound DEF Matches
<1> DEFINE c == nodes[k].ct
<1>3. /\ CT_List_GetCardTerminal(ctn[t]) = c
      /\ c \in Cts
      /\ nodes[k] = [ctn |-> ctn[t], ct |-> c]
  BY <1>2, Lookup
<1>4. /\ ctState' = [ctState EXCEPT ![c] = "closed"]
      /\ ctMutex' = [ctMutex EXCEPT ![c] = None]
      /\ ct' = [ct EXCEPT ![t] = c]
  BY <1>3
<1>5. (TypeOK /\ LockInv /\ ArgsInv)'
  BY <1>3, <1>4, NoneAssumption
     DEF TypeOK, LockInv, ArgsInv, Steps, InitSteps, CloseSteps, DataSteps,
         ListSteps, UsingSteps, Codes, CommandCodes
<1>6. \A x : Listed(x)' <=> Listed(x)
  BY DEF Listed
<1>7. Listed(c)
  BY DEF Listed
<1>8. (ListConsistent /\ NoLeak /\ PortInv)'
  BY <1>3, <1>4, <1>6, <1>7 DEF TypeOK, ListConsistent, NoLeak, PortInv
<1>9. (CriticalInv /\ ClosedInv)'
  BY <1>3, <1>4 DEF TypeOK, CriticalInv, ClosedInv, LockInv, ListSteps
<1>10. DisciplineInv'
  BY DEF TypeOK, DisciplineInv, CloseSteps, DataSteps
<1>11. disciplined =>
         \A u \in Threads : pc[u] \in UsingSteps => u # t /\ ct[u] # c
  <2> SUFFICES ASSUME disciplined, NEW u \in Threads, pc[u] \in UsingSteps
               PROVE  u # t /\ ct[u] # c
    OBVIOUS
  <2>1. PICK i \in DOMAIN nodes : nodes[i] = [ctn |-> ctn[u], ct |-> ct[u]]
    BY DEF NoDanglingTerminal, TerminalPinned
  <2>2. ctn[u] # ctn[t]
    BY DEF DisciplineInv, CloseSteps, DataSteps, UsingSteps
  <2>3. i # k
    BY <2>1, <2>2, <1>2
  <2> QED
    BY <2>1, <2>3 DEF ListConsistent, UsingSteps
<1>12. (NoDanglingTerminal /\ MutexInv)'
  BY <1>3, <1>4, <1>11
     DEF TypeOK, NoDanglingTerminal, Defined, TerminalPinned, MutexInv,
         ArgsInv, UsingSteps
<1> QED
  BY <1>5, <1>8, <1>9, <1>10, <1>12

\* CT_close unlinks the node of its number and frees its terminal.
LEMMA StepCloseRemove ==
    ASSUME IInv, NEW t \in Threads, CloseRemove(t)
    PROVE  IInv'
<1> USE DEF IInv, CloseRemove, Goto, locals
<1>1. ctn[t] \in Ctns /\ ct[t] \in Cts
  BY DEF ArgsInv, CloseSteps
<1>2. PICK k \in DOMAIN nodes : nodes[k] = [ctn |-> ctn[t], ct |-> ct[t]]
  BY DEF CriticalInv
<1>3. First(ctn[t]) = k
  <2>1. First(nodes[k].ctn) = k
    BY Lookup
  <2> QED
    BY <2>1, <1>2
<1>4. /\ ctState' = [ctState EXCEPT ![ct[t]] = "free"]
      /\ ctPort' = [ctPort EXCEPT ![ct[t]] = None]
  <2>1. nodes[First(ctn[t])].ct = ct[t]
    BY <1>2, <1>3
  <2>2. CardTerminal_Delete(nodes[First(ctn[t])].ct)
    OBVIOUS
  <2> QED
    BY <2>1, <2>2, Zenon DEF CardTerminal_Delete
<1>5. /\ nodes' = RemoveAt(nodes, k)
      /\ elements' = elements - 1
      /\ listExists' = (elements' # 0)
  BY <1>3 DEF CT_List_RemoveCardTerminal
<1>6. nodes \in Seq(Node) /\ Len(nodes) \in Nat /\ k \in 1 .. Len(nodes)
  BY DEF TypeOK
<1>7. /\ nodes' \in Seq(Node)
      /\ Len(nodes') = Len(nodes) - 1
      /\ \A j \in 1 .. Len(nodes) - 1 :
           nodes'[j] = IF j < k THEN nodes[j] ELSE nodes[j + 1]
  BY <1>5, <1>6, RemoveAtProperties
<1>8. DOMAIN nodes' = 1 .. Len(nodes) - 1 /\ DOMAIN nodes = 1 .. Len(nodes)
  BY <1>6, <1>7
<1> DEFINE old(j) == IF j < k THEN j ELSE j + 1
<1>9. /\ \A j \in DOMAIN nodes' :
           old(j) \in DOMAIN nodes \ {k} /\ nodes'[j] = nodes[old(j)]
      /\ \A i \in DOMAIN nodes \ {k} : \E j \in DOMAIN nodes' : i = old(j)
      /\ \A i, j \in DOMAIN nodes' : old(i) = old(j) => i = j
  <2>1. \A j \in DOMAIN nodes' :
           old(j) \in DOMAIN nodes \ {k} /\ nodes'[j] = nodes[old(j)]
    BY <1>6, <1>7, <1>8
  <2>2. ASSUME NEW i \in DOMAIN nodes \ {k}
        PROVE  \E j \in DOMAIN nodes' : i = old(j)
    <3>1. CASE i < k
      BY <3>1, <1>6, <1>8
    <3>2. CASE i > k
      <4>1. i - 1 \in DOMAIN nodes' /\ i = old(i - 1)
        BY <3>2, <1>6, <1>8
      <4> QED
        BY <4>1
    <3> QED
      BY <3>1, <3>2, <1>6, <1>8
  <2>3. \A i, j \in DOMAIN nodes' : old(i) = old(j) => i = j
    BY <1>6, <1>8
  <2> QED
    BY <2>1, <2>2, <2>3
<1> HIDE DEF old
<1>10. \A i \in DOMAIN nodes \ {k} : nodes[i].ctn # ctn[t] /\ nodes[i].ct # ct[t]
  BY <1>2 DEF ListConsistent
<1>11. \A x : Listed(x)' <=> Listed(x) /\ x # ct[t]
  <2>1. ASSUME NEW x, Listed(x)' PROVE Listed(x) /\ x # ct[t]
    BY <2>1, <1>9, <1>10 DEF Listed
  <2>2. ASSUME NEW x, Listed(x), x # ct[t] PROVE Listed(x)'
    BY <2>2, <1>2, <1>9 DEF Listed
  <2> QED
    BY <2>1, <2>2
<1>12. (TypeOK /\ LockInv /\ ArgsInv)'
  <2>1. elements' \in Int /\ listExists' \in BOOLEAN
    BY <1>5 DEF TypeOK
  <2> QED
    BY <2>1, <1>1, <1>4, <1>7, NoneAssumption
       DEF TypeOK, LockInv, ArgsInv, Steps, InitSteps, CloseSteps, DataSteps,
           ListSteps, UsingSteps
<1>13. ListConsistent'
  <2>1. \A i, j \in DOMAIN nodes' :
          nodes'[i].ctn = nodes'[j].ctn \/ nodes'[i].ct = nodes'[j].ct => i = j
    BY <1>9 DEF ListConsistent
  <2>2. elements' = Len(nodes')
    BY <1>5, <1>6, <1>7 DEF ListConsistent
  <2> QED
    BY <2>1, <2>2, <1>5 DEF ListConsistent
<1>14. (NoLeak /\ ClosedInv)'
  BY <1>1, <1>4, <1>11 DEF TypeOK, NoLeak, ClosedInv, LockInv, ListSteps
<1>15. CriticalInv'
  BY DEF TypeOK, CriticalInv, LockInv, ListSteps
<1>16. PortInv'
  BY <1>4, <1>9, <1>10 DEF PortInv, TypeOK, Node
<1>17. (DisciplineInv /\ MutexInv)'
  BY DEF TypeOK, DisciplineInv, MutexInv, CloseSteps, DataSteps
<1>18. NoDanglingTerminal'
  <2> SUFFICES ASSUME disciplined PROVE (Defined /\ TerminalPinned)'
    BY DEF NoDanglingTerminal
  <2>1. Defined /\ TerminalPinned
    BY DEF NoDanglingTerminal
  <2>2. Defined'
    BY <2>1 DEF Defined, TypeOK
  <2>3. ASSUME NEW u \in Threads, pc'[u] \in UsingSteps
        PROVE  /\ ctState'[ct'[u]] = "open"
               /\ \E i \in DOMAIN nodes' :
                    nodes'[i] = [ctn |-> ctn'[u], ct |-> ct'[u]]
    <3>1. pc[u] \in UsingSteps /\ ct[u] \in Cts
      BY <2>3 DEF UsingSteps, TypeOK, ArgsInv
    <3>2. PICK i \in DOMAIN nodes : nodes[i] = [ctn |-> ctn[u], ct |-> ct[u]]
      BY <3>1, <2>1 DEF TerminalPinned
    <3>3. ctn[u] # ctn[t]
      BY <3>1 DEF DisciplineInv, CloseSteps, DataSteps, UsingSteps
    <3>4. i # k
      BY <3>2, <3>3, <1>2
    <3>5. ct[u] # ct[t]
      BY <3>2, <3>4, <1>10
    <3> QED
      BY <3>1, <3>2, <3>4, <3>5, <2>1, <1>4, <1>9 DEF TerminalPinned, TypeOK
  <2> QED
    BY <2>2, <2>3 DEF TerminalPinned
<1> QED
  BY <1>12, <1>13, <1>14, <1>15, <1>16, <1>17, <1>18

\* CT_data looks its terminal up while it holds the list mutex, so that the one
\* it finds is neither being opened nor being closed.
LEMMA StepDataGet ==
    ASSUME IInv, NEW t \in Threads, DataGet(t)
    PROVE  IInv'
<1> USE DEF IInv, DataGet, Goto, Result, heap, list
<1> DEFINE c == CT_List_GetCardTerminal(ctn[t])
<1>1. ctn[t] \in Ctns
  BY DEF ArgsInv, DataSteps
<1>2. c # None => /\ c \in Cts
                  /\ \E i \in DOMAIN nodes : nodes[i] = [ctn |-> ctn[t], ct |-> c]
  <2> SUFFICES ASSUME c # None
               PROVE  /\ c \in Cts
                      /\ \E i \in DOMAIN nodes :
                           nodes[i] = [ctn |-> ctn[t], ct |-> c]
    OBVIOUS
  <2>1. PICK i \in DOMAIN nodes : nodes[i].ctn = ctn[t]
    BY <1>1, NotFound DEF Matches
  <2> QED
    BY <2>1, Lookup
<1>3. c \in Cts => ctState[c] = "open"
  BY <1>2, NoneAssumption
     DEF NoLeak, ClosedInv, LockInv, ListSteps, TypeOK, Listed
<1>4. /\ ct' = [ct EXCEPT ![t] = c]
      /\ \/ c = None /\ pc' = [pc EXCEPT ![t] = "return"]
                     /\ ret' = [ret EXCEPT ![t] = "ERR_CT"]
         \/ c # None /\ pc' = [pc EXCEPT ![t] = "data_apdu"] /\ ret' = ret
  BY DEF TypeOK
<1> HIDE DEF c
<1>5. (TypeOK /\ LockInv /\ ArgsInv)'
  BY <1>2, <1>4, NoneAssumption
     DEF TypeOK, LockInv, ArgsInv, Steps, InitSteps, CloseSteps, DataSteps,
         ListSteps, UsingSteps, Codes, CommandCodes
<1>6. (ListConsistent /\ NoLeak /\ PortInv)'
  BY <1>4 DEF TypeOK, ListConsistent, NoLeak, PortInv, Listed
<1>7. (CriticalInv /\ ClosedInv)'
  BY <1>4 DEF TypeOK, CriticalInv, ClosedInv, Matches, Listed
<1>8. (DisciplineInv /\ NoDanglingTerminal /\ MutexInv)'
  BY <1>2, <1>3, <1>4
     DEF TypeOK, DisciplineInv, NoDanglingTerminal, Defined, TerminalPinned,
         MutexInv, CloseSteps, DataSteps, UsingSteps
<1> QED
  BY <1>5, <1>6, <1>7, <1>8

\* CT_data takes the mutex of its terminal from nobody.
LEMMA StepDataLock ==
    ASSUME IInv, NEW t \in Threads, DataLock(t)
    PROVE  IInv'
<1> USE DEF IInv, DataLock, Goto, list, locals
<1>1. ct[t] \in Cts
  BY DEF ArgsInv, UsingSteps
<1>2. (TypeOK /\ LockInv /\ ArgsInv)'
  BY <1>1
     DEF TypeOK, LockInv, ArgsInv, Steps, InitSteps, CloseSteps, DataSteps,
         ListSteps, UsingSteps
<1>3. (ListConsistent /\ NoLeak /\ CriticalInv /\ ClosedInv /\ PortInv)'
  BY DEF TypeOK, ListConsistent, NoLeak, CriticalInv, ClosedInv, PortInv,
         Matches, Listed
<1>4. (DisciplineInv /\ NoDanglingTerminal)'
  BY DEF TypeOK, DisciplineInv, NoDanglingTerminal, Defined, TerminalPinned,
         CloseSteps, DataSteps, UsingSteps
<1>5. MutexInv'
  BY <1>1, NoneAssumption DEF TypeOK, MutexInv
<1> QED
  BY <1>2, <1>3, <1>4, <1>5

\* CT_data gives the mutex of its terminal back.
LEMMA StepDataUnlock ==
    ASSUME IInv, NEW t \in Threads, DataUnlock(t)
    PROVE  IInv'
<1> USE DEF IInv, DataUnlock, Result, Goto, list
<1>1. ct[t] \in Cts
  BY DEF ArgsInv, UsingSteps
<1>2. (TypeOK /\ LockInv /\ ArgsInv)'
  BY <1>1
     DEF TypeOK, LockInv, ArgsInv, Steps, Codes, CommandCodes, InitSteps,
         CloseSteps, DataSteps, ListSteps, UsingSteps
<1>3. (ListConsistent /\ NoLeak /\ CriticalInv /\ ClosedInv /\ PortInv)'
  BY DEF TypeOK, ListConsistent, NoLeak, CriticalInv, ClosedInv, PortInv,
         Matches, Listed
<1>4. (DisciplineInv /\ NoDanglingTerminal)'
  BY DEF TypeOK, DisciplineInv, NoDanglingTerminal, Defined, TerminalPinned,
         CloseSteps, DataSteps, UsingSteps
<1>5. MutexInv'
  BY <1>1, NoneAssumption DEF TypeOK, MutexInv, ArgsInv, UsingSteps
<1> QED
  BY <1>2, <1>3, <1>4, <1>5

-----------------------------------------------------------------------------

\* At the start there is no list and no terminal.
LEMMA InitInv == Init => IInv
<1> SUFFICES ASSUME Init PROVE IInv
  OBVIOUS
<1>1. TypeOK
  <2>1. disciplined \in BOOLEAN
    BY DisciplinesAssumption, Zenon DEF Init
  <2>2. listExists \in BOOLEAN
    BY Zenon DEF Init
  <2>3. nodes \in Seq(Node) /\ elements \in Int
    BY DEF Init
  <2> QED
    BY <2>1, <2>2, <2>3 DEF Init, TypeOK, Steps
<1>2. DOMAIN nodes = {} /\ Len(nodes) = 0
  BY DEF Init
<1>3. ListConsistent
  BY <1>2 DEF Init, ListConsistent
<1>4. LockInv /\ ArgsInv /\ CriticalInv /\ MutexInv /\ DisciplineInv
  BY NoneAssumption
     DEF Init, LockInv, ArgsInv, CriticalInv, MutexInv, DisciplineInv, Listed,
         InitSteps, CloseSteps, DataSteps, ListSteps, UsingSteps
<1>5. NoLeak /\ ClosedInv /\ PortInv /\ NoDanglingTerminal
  BY <1>2
     DEF Init, NoLeak, ClosedInv, PortInv, NoDanglingTerminal, Defined,
         TerminalPinned, Listed, UsingSteps
<1> QED
  BY <1>1, <1>3, <1>4, <1>5 DEF IInv

\* Every step of every thread preserves IInv.
LEMMA NextInv == IInv /\ [Next]_vars => IInv'
<1> SUFFICES ASSUME IInv, [Next]_vars PROVE IInv'
  OBVIOUS
<1>1. CASE UNCHANGED vars
  BY <1>1
     DEF vars, list, heap, locals, IInv, TypeOK, LockInv, ArgsInv,
         ListConsistent, NoLeak, CriticalInv, ClosedInv, PortInv, DisciplineInv,
         NoDanglingTerminal, MutexInv, Matches, Listed, Defined, TerminalPinned
<1>2. CASE Next
  <2>1. PICK t \in Threads :
          CT_init(t) \/ CT_close(t) \/ CT_data(t) \/ UnlockList(t) \/ Leave(t)
    BY <1>2 DEF Next
  <2>2. CASE CT_init(t)
    BY <2>2, StepLocal, StepInitOpens, StepInitAdds, StepInitAddFails
       DEF CT_init
  <2>3. CASE CT_close(t)
    BY <2>3, StepLocal, StepCloseTerminal, StepCloseRemove DEF CT_close
  <2>4. CASE CT_data(t)
    BY <2>4, StepLocal, StepDataGet, StepDataLock, StepDataUnlock DEF CT_data
  <2>5. CASE UnlockList(t) \/ Leave(t)
    BY <2>5, StepLocal
  <2> QED
    BY <2>1, <2>2, <2>3, <2>4, <2>5
<1> QED
  BY <1>1, <1>2

\* IInv holds in every state the three entry points can reach together.
THEOREM Invariant == Spec => []IInv
  BY InitInv, NextInv, PTL DEF Spec

\* Every variable of the CT-API layer keeps its type.
THEOREM TypeCorrect == Spec => []TypeOK
<1>1. IInv => TypeOK
  BY DEF IInv
<1> QED
  BY <1>1, Invariant, PTL

\* However CT_init and CT_close interleave, the list holds every number and every
\* terminal once, counts its nodes, and exists exactly when it has some.
THEOREM ListIsConsistent == Spec => []ListConsistent
<1>1. IInv => ListConsistent
  BY DEF IInv
<1> QED
  BY <1>1, Invariant, PTL

\* No path of CT_init or CT_close leaks a terminal or keeps a freed one listed.
THEOREM NoTerminalLeaks == Spec => []NoLeak
<1>1. IInv => NoLeak
  BY DEF IInv
<1> QED
  BY <1>1, Invariant, PTL

\* CT_data never uses a closed or freed terminal, however many threads there are,
\* if no number is closed while a CT_data on it is in progress.
THEOREM NoTerminalDangles == Spec => []NoDanglingTerminal
<1>1. IInv => NoDanglingTerminal
  BY DEF IInv
<1> QED
  BY <1>1, Invariant, PTL

\* The mutexes of CT_data and CT_init serialize the use of every serial port, if
\* no port is opened under two numbers.
THEOREM PortsAreSerialized == Spec => []PortSerialized
<1>1. IInv => PortSerialized
  <2> SUFFICES ASSUME IInv, disciplined, DistinctPorts,
                      NEW t \in Threads, NEW u \in Threads,
                      pc[t] = "data_command", pc[u] = "data_command",
                      ctPort[ct[t]] = ctPort[ct[u]]
               PROVE  t = u
    BY DEF PortSerialized
  <2>1. TerminalPinned /\ pc[t] \in UsingSteps /\ pc[u] \in UsingSteps
    BY DEF IInv, NoDanglingTerminal, UsingSteps
  <2>2. PICK i \in DOMAIN nodes : nodes[i] = [ctn |-> ctn[t], ct |-> ct[t]]
    BY <2>1 DEF TerminalPinned
  <2>3. PICK j \in DOMAIN nodes : nodes[j] = [ctn |-> ctn[u], ct |-> ct[u]]
    BY <2>1 DEF TerminalPinned
  <2>4. ctPort[ct[t]] \in PortsOf[ctn[t]] /\ ctPort[ct[t]] \in PortsOf[ctn[u]]
    BY <2>2, <2>3 DEF IInv, PortInv
  <2>5. ctn[t] \in Ctns /\ ctn[u] \in Ctns
    BY DEF IInv, ArgsInv, DataSteps
  <2>6. ctn[t] = ctn[u]
    BY <2>4, <2>5 DEF DistinctPorts
  <2>7. ct[t] = ct[u]
    BY <2>2, <2>3, <2>6 DEF IInv, ListConsistent
  <2> QED
    BY <2>7 DEF IInv, MutexInv
<1> QED
  BY <1>1, Invariant, PTL
-----------------------------------------------------------------------------
(* CtApi implements CtApiAbs. *)

\* CT_List_RemoveCardTerminal takes one node out and no other.
LEMMA RemoveAtKeeps ==
    ASSUME NEW S, NEW s \in Seq(S), NEW k \in DOMAIN s
    PROVE  /\ \A i \in DOMAIN s \ {k} :
                \E j \in DOMAIN RemoveAt(s, k) : RemoveAt(s, k)[j] = s[i]
           /\ \A j \in DOMAIN RemoveAt(s, k) :
                \E i \in DOMAIN s \ {k} : RemoveAt(s, k)[j] = s[i]
<1> DEFINE r == RemoveAt(s, k)
           N == Len(s)
<1>1. /\ N \in Nat /\ k \in 1 .. N /\ DOMAIN s = 1 .. N
      /\ r \in Seq(S) /\ Len(r) = N - 1
      /\ \A j \in 1 .. N - 1 : r[j] = IF j < k THEN s[j] ELSE s[j + 1]
  <2>1. N \in Nat /\ k \in 1 .. N /\ DOMAIN s = 1 .. N
    OBVIOUS
  <2>2. /\ r \in Seq(S) /\ Len(r) = N - 1
        /\ \A j \in 1 .. N - 1 : r[j] = IF j < k THEN s[j] ELSE s[j + 1]
    <3> HIDE DEF r, N
    <3> QED
      BY RemoveAtProperties DEF r, N
  <2> QED
    BY <2>1, <2>2
<1> HIDE DEF r, N
<1>2. DOMAIN r = 1 .. N - 1
  BY <1>1
<1>3. ASSUME NEW i \in DOMAIN s \ {k} PROVE \E j \in DOMAIN r : r[j] = s[i]
  <2>1. CASE i < k
    <3>1. i \in 1 .. N - 1
      BY <2>1, <1>1
    <3> QED
      BY <3>1, <2>1, <1>1, <1>2
  <2>2. CASE ~(i < k)
    <3>1. i - 1 \in 1 .. N - 1 /\ ~(i - 1 < k) /\ (i - 1) + 1 = i
      BY <2>2, <1>1
    <3> QED
      BY <3>1, <1>1, <1>2
  <2> QED
    BY <2>1, <2>2
<1>4. ASSUME NEW j \in DOMAIN r PROVE \E i \in DOMAIN s \ {k} : r[j] = s[i]
  <2>1. j \in 1 .. N - 1
    BY <1>2
  <2>2. CASE j < k
    <3>1. j \in DOMAIN s \ {k} /\ r[j] = s[j]
      BY <2>1, <2>2, <1>1
    <3> QED
      BY <3>1
  <2>3. CASE ~(j < k)
    <3>1. j + 1 \in DOMAIN s \ {k} /\ r[j] = s[j + 1]
      BY <2>1, <2>3, <1>1
    <3> QED
      BY <3>1
  <2> QED
    BY <2>2, <2>3
<1> QED
  BY <1>3, <1>4 DEF r

\* The locals that a return will show are kept by every step.
LEMMA NextResult == TypeOK /\ ResultInv /\ [Next]_vars => ResultInv'
<1> SUFFICES ASSUME TypeOK, ResultInv, [Next]_vars PROVE ResultInv'
  OBVIOUS
<1>1. CASE UNCHANGED vars
  BY <1>1 DEF vars, locals, ResultInv
<1>2. CASE Next
  <2>1. PICK t \in Threads :
          CT_init(t) \/ CT_close(t) \/ CT_data(t) \/ UnlockList(t) \/ Leave(t)
    BY <1>2 DEF Next
  <2> USE DEF TypeOK, ResultInv, Goto, Result, locals, InitSteps, CloseSteps, DataSteps
  <2>2. CASE CT_init(t)
    BY <2>2 DEF CT_init, CallInit, LockList, InitInUse, InitFails, InitOpens, InitAdds,
                InitAddFails
  <2>3. CASE CT_close(t)
    BY <2>3 DEF CT_close, CallClose, LockList, CloseUnknown, CloseTerminal, CloseRemove
  <2>4. CASE CT_data(t)
    BY <2>4 DEF CT_data, CallData, LockList, DataGet, DataBadApdu, DataApdu, DataLock,
                DataCommand, DataUnlock, DataUndefined
  <2>5. CASE UnlockList(t) \/ Leave(t)
    BY <2>5 DEF UnlockList, Leave
  <2> QED
    BY <2>1, <2>2, <2>3, <2>4, <2>5
<1> QED
  BY <1>1, <1>2

\* The connection of a number in the list, and of one that is not.
Connected ==
    /\ \A i \in DOMAIN nodes :
         /\ absConn[nodes[i].ctn] = ctPort[nodes[i].ct]
         /\ absConn[nodes[i].ctn] # None
    /\ \A n \in Ctns : Matches(n) = {} => absConn[n] = None

\* A number is connected to the port of the terminal that is listed under it.
LEMMA Connection == IInv /\ disciplined => Connected
<1> SUFFICES ASSUME IInv, disciplined PROVE Connected
  OBVIOUS
<1>1. ASSUME NEW i \in DOMAIN nodes
      PROVE  /\ absConn[nodes[i].ctn] = ctPort[nodes[i].ct]
             /\ absConn[nodes[i].ctn] # None
  <2>1. /\ Matches(nodes[i].ctn) = {i} /\ First(nodes[i].ctn) = i
        /\ nodes[i].ctn \in Ctns
    BY Lookup DEF IInv
  <2>2. absConn[nodes[i].ctn] = ctPort[nodes[i].ct]
    BY <2>1 DEF absConn
  <2>3. ctPort[nodes[i].ct] \in Ports
    BY <2>1, PortsOfAssumption DEF IInv, PortInv
  <2> QED
    BY <2>2, <2>3, NoneAssumption
<1>2. \A n \in Ctns : Matches(n) = {} => absConn[n] = None
  BY DEF absConn
<1> QED
  BY <1>1, <1>2 DEF Connected

\* The look-up of a number answers whether it is connected.
LEMMA FoundIfConnected ==
    ASSUME IInv, disciplined, NEW n \in Ctns
    PROVE  CT_List_GetCardTerminal(n) = None <=> absConn[n] = None
<1>1. CASE Matches(n) = {}
  BY <1>1, NotFound, Connection DEF IInv, Connected
<1>2. CASE Matches(n) # {}
  <2>1. PICK i \in DOMAIN nodes : nodes[i].ctn = n
    BY <1>2 DEF Matches
  <2> QED
    BY <2>1, <1>2, NotFound, Connection DEF IInv, Connected
<1> QED
  BY <1>1, <1>2

\* The call a thread is in, by its place in the code.
LEMMA CallAt ==
    ASSUME NEW t \in Threads, disciplined
    PROVE  /\ pc[t] = "idle" =>
                absCall[t] = [op |-> "idle", ctn |-> None, pn |-> None, ret |-> None]
           /\ pc[t] \in InitSteps =>
                absCall[t].op = "init" /\ absCall[t].ctn = ctn[t] /\ absCall[t].pn = pn[t]
           /\ pc[t] \in CloseSteps => absCall[t].op = "close" /\ absCall[t].ctn = ctn[t]
           /\ pc[t] \in DataSteps => absCall[t].op = "data" /\ absCall[t].ctn = ctn[t]
           /\ pc[t] \in {"list_unlock", "return"} => absCall[t].op = "done"
<1>1. absCall[t] = absCallOf(t)
  BY DEF absCall
<1> QED
  BY <1>1 DEF absCallOf, InitSteps, CloseSteps, DataSteps

\* A step of one thread leaves the calls of the others alone.
LEMMA OneCall ==
    ASSUME TypeOK, NEW t \in Threads, disciplined' = disciplined,
           \A u \in Threads \ {t} :
             pc'[u] = pc[u] /\ ctn'[u] = ctn[u] /\ pn'[u] = pn[u] /\ ret'[u] = ret[u]
    PROVE  absCall' = [absCall EXCEPT ![t] = absCall'[t]]
<1>1. \A u \in Threads \ {t} : absCallOf(u)' = absCallOf(u)
  BY DEF absCallOf
<1> QED
  BY <1>1 DEF absCall

\* A step that changes neither the list nor the port of a listed terminal leaves the
\* connections alone.
LEMMA SameConnections ==
    ASSUME IInv, UNCHANGED <<nodes, disciplined>>,
           \A c : Listed(c) => ctPort'[c] = ctPort[c]
    PROVE  absConn' = absConn
<1>1. \A n \in Ctns : Matches(n)' = Matches(n) /\ First(n)' = First(n)
  BY DEF Matches, First
<1>2. ASSUME NEW n \in Ctns, Matches(n) # {}
      PROVE  ctPort'[nodes[First(n)].ct] = ctPort[nodes[First(n)].ct]
  <2>1. PICK i \in DOMAIN nodes : nodes[i].ctn = n
    BY <1>2 DEF Matches
  <2>2. First(n) = i
    BY <2>1, Lookup DEF IInv
  <2> QED
    BY <2>1, <2>2 DEF Listed
<1> QED
  BY <1>1, <1>2 DEF absConn

\* Who is not disciplined is mapped to an interface nobody calls.
LEMMA RefinesUndisciplined ==
    ASSUME ~disciplined, disciplined' = disciplined
    PROVE  UNCHANGED Abs!absVars
<1>1. absConn' = absConn
  BY DEF absConn
<1>2. \A t \in Threads : absCallOf(t)' = absCallOf(t)
  BY DEF absCallOf
<1>3. absCall' = absCall
  BY <1>2 DEF absCall
<1> QED
  BY <1>1, <1>3 DEF Abs!absVars

\* The steps of a call that neither begin nor end what it does: locks and unlocks, the
\* opening and closing of a terminal, the command itself.
LEMMA RefinesInside ==
    ASSUME IInv, ResultInv, disciplined, NEW t \in Threads,
           \/ LockList(t, "init_lock", "init_open")
           \/ InitOpens(t)
           \/ LockList(t, "close_lock", "close_terminal")
           \/ CloseTerminal(t)
           \/ LockList(t, "data_lock", "data_get")
           \/ DataApdu(t)
           \/ DataLock(t)
           \/ DataCommand(t)
           \/ UnlockList(t)
    PROVE  UNCHANGED Abs!absVars
<1> USE DEF Goto, Result, list, heap, locals
<1>1. /\ disciplined' = disciplined /\ nodes' = nodes
      /\ ctn' = ctn /\ pn' = pn /\ pc' = [pc EXCEPT ![t] = pc'[t]]
      /\ \A u \in Threads \ {t} : ret'[u] = ret[u]
  BY DEF LockList, InitOpens, CloseTerminal, DataApdu, DataLock, DataCommand, UnlockList,
         IInv, TypeOK
<1>2. \A c : Listed(c) => ctPort'[c] = ctPort[c]
  <2>1. CASE InitOpens(t)
    BY <2>1 DEF InitOpens, IInv, TypeOK, NoLeak, Listed, Node
  <2>2. CASE ~InitOpens(t)
    BY <2>2 DEF LockList, CloseTerminal, DataApdu, DataLock, DataCommand, UnlockList
  <2> QED
    BY <2>1, <2>2
<1>3. absConn' = absConn
  BY <1>1, <1>2, SameConnections
<1>4. absCallOf(t)' = absCallOf(t)
  BY <1>1, ZenonT(40)
     DEF LockList, InitOpens, CloseTerminal, DataApdu, DataLock, DataCommand, UnlockList,
         IInv, TypeOK, absCallOf, InitSteps, CloseSteps, DataSteps
<1>5. \A u \in Threads : absCallOf(u)' = absCallOf(u)
  BY <1>1, <1>4, ZenonT(40) DEF absCallOf, IInv, TypeOK
<1>6. absCall' = absCall
  BY <1>5 DEF absCall
<1> QED
  BY <1>3, <1>6 DEF Abs!absVars

\* A call begins.
LEMMA RefinesCall ==
    ASSUME IInv, ResultInv, disciplined, NEW t \in Threads,
           \/ \E n \in Ctns, p \in Ports : CallInit(t, n, p)
           \/ \E n \in Ctns : CallClose(t, n)
           \/ \E n \in Ctns : CallData(t, n)
    PROVE  Abs!Call(t)
<1> USE DEF Goto, list, heap
<1>1. /\ disciplined' /\ disciplined' = disciplined /\ UNCHANGED <<nodes, ctPort>>
      /\ pc[t] = "idle" /\ pn[t] = None
      /\ \A u \in Threads \ {t} :
           pc'[u] = pc[u] /\ ctn'[u] = ctn[u] /\ pn'[u] = pn[u] /\ ret'[u] = ret[u]
  BY ZenonT(40) DEF CallInit, CallClose, CallData, IInv, TypeOK, ResultInv
<1>2. absConn' = absConn
  BY <1>1, SameConnections
<1>3. absCall' = [absCall EXCEPT ![t] = absCall'[t]]
  BY <1>1, OneCall DEF IInv
<1>4. absCall[t] = Abs!Idle
  BY <1>1, CallAt DEF Abs!Idle
<1>5. \E n \in Ctns :
        \/ \E p \in PortsOf[n] : absCall'[t] = Abs!Pending("init", n, p)
        \/ absCall'[t] = Abs!Pending("close", n, None)
        \/ absCall'[t] = Abs!Pending("data", n, None)
  <2>1. absCall'[t] = absCallOf(t)'
    BY DEF absCall
  <2>2. CASE \E n \in Ctns, p \in Ports : CallInit(t, n, p)
    <3>1. PICK n \in Ctns, p \in Ports : CallInit(t, n, p)
      BY <2>2
    <3>2. pc'[t] = "init_lock" /\ ctn'[t] = n /\ pn'[t] = p /\ p \in PortsOf[n]
      BY <3>1, <1>1 DEF CallInit, IInv, TypeOK
    <3>3. absCallOf(t)' = Abs!Pending("init", n, p)
      BY <3>2, <1>1 DEF absCallOf, Abs!Pending, InitSteps, CloseSteps, DataSteps
    <3> QED
      BY <2>1, <3>2, <3>3
  <2>3. CASE \E n \in Ctns : CallClose(t, n)
    <3>1. PICK n \in Ctns : CallClose(t, n)
      BY <2>3
    <3>2. pc'[t] = "close_lock" /\ ctn'[t] = n /\ pn'[t] = None
      BY <3>1, <1>1 DEF CallClose, IInv, TypeOK
    <3>3. absCallOf(t)' = Abs!Pending("close", n, None)
      BY <3>2, <1>1 DEF absCallOf, Abs!Pending, InitSteps, CloseSteps, DataSteps
    <3> QED
      BY <2>1, <3>3
  <2>4. CASE \E n \in Ctns : CallData(t, n)
    <3>1. PICK n \in Ctns : CallData(t, n)
      BY <2>4
    <3>2. pc'[t] = "data_lock" /\ ctn'[t] = n /\ pn'[t] = None
      BY <3>1, <1>1 DEF CallData, IInv, TypeOK
    <3>3. absCallOf(t)' = Abs!Pending("data", n, None)
      BY <3>2, <1>1 DEF absCallOf, Abs!Pending, InitSteps, CloseSteps, DataSteps
    <3> QED
      BY <2>1, <3>3
  <2> QED
    BY <2>2, <2>3, <2>4
<1>6. \E n \in Ctns :
        \/ \E p \in PortsOf[n] : Abs!Become(t, Abs!Pending("init", n, p))
        \/ Abs!Become(t, Abs!Pending("close", n, None))
        \/ Abs!Become(t, Abs!Pending("data", n, None))
  BY <1>3, <1>5 DEF Abs!Become
<1> QED
  BY <1>2, <1>4, <1>6 DEF Abs!Call

\* What a step that ends a call's work makes of the call.
LEMMA Ended ==
    ASSUME IInv, disciplined, disciplined' = disciplined, NEW t \in Threads,
           pc' = [pc EXCEPT ![t] = pc'[t]], pc'[t] \in {"list_unlock", "return"},
           ctn' = ctn, pn' = pn,
           \A u \in Threads \ {t} : ret'[u] = ret[u]
    PROVE  absCall' = [absCall EXCEPT ![t] =
                         [op |-> "done", ctn |-> None, pn |-> None, ret |-> ret'[t]]]
<1>1. absCall' = [absCall EXCEPT ![t] = absCall'[t]]
  BY OneCall DEF IInv, TypeOK
<1>2. absCall'[t] = absCallOf(t)'
  BY DEF absCall
<1>3. absCallOf(t)' = [op |-> "done", ctn |-> None, pn |-> None, ret |-> ret'[t]]
  BY DEF absCallOf, InitSteps, CloseSteps, DataSteps
<1> QED
  BY <1>1, <1>2, <1>3

\* The steps in which a call has its effect, or finds out that it has none: what it
\* returns goes with the connection it met.
LEMMA RefinesEffect ==
    ASSUME IInv, ResultInv, disciplined, NEW t \in Threads,
           \/ InitInUse(t) \/ InitFails(t) \/ InitAddFails(t)
           \/ CloseUnknown(t)
           \/ DataGet(t) /\ ct'[t] = None
           \/ DataBadApdu(t) \/ DataUnlock(t)
    PROVE  Abs!Open(t) \/ Abs!Refuse(t) \/ Abs!Command(t)
<1> USE DEF Goto, Result, list, heap, locals
<1>1. /\ disciplined' = disciplined /\ nodes' = nodes /\ ctn' = ctn /\ pn' = pn
      /\ pc' = [pc EXCEPT ![t] = pc'[t]] /\ pc'[t] \in {"list_unlock", "return"}
      /\ \A u \in Threads \ {t} : ret'[u] = ret[u]
  BY DEF InitInUse, InitFails, InitAddFails, CloseUnknown, DataGet, DataBadApdu, DataUnlock,
         IInv, TypeOK
<1>2. absCall' = [absCall EXCEPT ![t] =
                    [op |-> "done", ctn |-> None, pn |-> None, ret |-> ret'[t]]]
  BY <1>1, Ended
<1>3. absConn' = absConn
  <2>1. \A c : Listed(c) => ctPort'[c] = ctPort[c]
    <3>1. CASE InitAddFails(t)
      BY <3>1 DEF InitAddFails, CardTerminal_Delete, IInv, TypeOK, CriticalInv, Listed, Node
    <3>2. CASE ~InitAddFails(t)
      BY <3>2 DEF InitInUse, InitFails, CloseUnknown, DataGet, DataBadApdu, DataUnlock
    <3> QED
      BY <3>1, <3>2
  <2> QED
    BY <2>1, <1>1, SameConnections
<1>4. ctn[t] \in Ctns
  BY DEF InitInUse, InitFails, InitAddFails, CloseUnknown, DataGet, DataBadApdu, DataUnlock,
         IInv, ArgsInv, InitSteps, CloseSteps, DataSteps
<1>5. CASE InitInUse(t)
  <2>1. pc[t] = "init_open" /\ ret'[t] = "ERR_CT" /\ absConn[ctn[t]] # None
    BY <1>4, <1>5, FoundIfConnected DEF InitInUse, IInv, TypeOK
  <2>2. absCall[t].op = "init" /\ absCall[t].ctn = ctn[t]
    BY <2>1, CallAt DEF InitSteps
  <2> QED
    BY <1>2, <1>3, <2>1, <2>2 DEF Abs!Refuse, Abs!Become, Abs!Done
<1>6. CASE InitFails(t)
  <2>1. /\ pc[t] = "init_open" /\ ret'[t] \in {"ERR_TRANS", "ERR_MEMORY"}
        /\ absConn[ctn[t]] = None
    BY <1>4, <1>6, FoundIfConnected DEF InitFails, IInv, TypeOK
  <2>2. absCall[t].op = "init" /\ absCall[t].ctn = ctn[t]
    BY <2>1, CallAt DEF InitSteps
  <2> QED
    BY <1>2, <1>3, <2>1, <2>2 DEF Abs!Open, Abs!Become, Abs!Done
<1>7. CASE InitAddFails(t)
  <2>1. pc[t] = "init_add" /\ ret'[t] = "ERR_MEMORY" /\ absConn[ctn[t]] = None
    BY <1>4, <1>7, Connection
       DEF InitAddFails, IInv, TypeOK, CriticalInv, Connected
  <2>2. absCall[t].op = "init" /\ absCall[t].ctn = ctn[t]
    BY <2>1, CallAt DEF InitSteps
  <2> QED
    BY <1>2, <1>3, <2>1, <2>2 DEF Abs!Open, Abs!Become, Abs!Done
<1>8. CASE CloseUnknown(t)
  <2>1. pc[t] = "close_terminal" /\ ret'[t] = "ERR_CT" /\ absConn[ctn[t]] = None
    BY <1>4, <1>8, FoundIfConnected DEF CloseUnknown, IInv, TypeOK
  <2>2. absCall[t].op = "close" /\ absCall[t].ctn = ctn[t]
    BY <2>1, CallAt DEF CloseSteps
  <2> QED
    BY <1>2, <1>3, <2>1, <2>2 DEF Abs!Refuse, Abs!Become, Abs!Done
<1>9. CASE DataGet(t) /\ ct'[t] = None
  <2>1. pc[t] = "data_get" /\ ret'[t] = "ERR_CT" /\ CT_List_GetCardTerminal(ctn[t]) = None
    BY <1>9 DEF DataGet, IInv, TypeOK
  <2>2. absConn[ctn[t]] = None
    BY <2>1, <1>4, FoundIfConnected
  <2>3. absCall[t].op = "data" /\ absCall[t].ctn = ctn[t]
    BY <2>1, CallAt DEF DataSteps
  <2> QED
    BY <1>2, <1>3, <2>1, <2>2, <2>3 DEF Abs!Refuse, Abs!Become, Abs!Done
<1>10. CASE DataBadApdu(t) \/ DataUnlock(t)
  <2>1. /\ pc[t] \in {"data_apdu", "data_unlock"}
        /\ ret'[t] \in {"OK", "ERR_TRANS", "ERR_MEMORY", "ERR_INVALID", "ERR_HTSI"}
    BY <1>10 DEF DataBadApdu, DataUnlock, IInv, TypeOK, ResultInv, CommandCodes
  <2>2. PICK i \in DOMAIN nodes : nodes[i] = [ctn |-> ctn[t], ct |-> ct[t]]
    BY <2>1 DEF IInv, NoDanglingTerminal, TerminalPinned, UsingSteps
  <2>3. absConn[ctn[t]] # None
    BY <2>2, Connection DEF Connected
  <2>4. absCall[t].op = "data" /\ absCall[t].ctn = ctn[t]
    BY <2>1, CallAt DEF DataSteps
  <2> QED
    BY <1>2, <1>3, <2>1, <2>3, <2>4 DEF Abs!Command, Abs!Become, Abs!Done
<1> QED
  BY <1>5, <1>6, <1>7, <1>8, <1>9, <1>10

\* CT_data that has found its terminal has not yet had its effect.
LEMMA RefinesFound ==
    ASSUME IInv, disciplined, NEW t \in Threads, DataGet(t), ct'[t] # None
    PROVE  UNCHANGED Abs!absVars
<1>1. /\ pc[t] = "data_get" /\ pc' = [pc EXCEPT ![t] = "data_apdu"]
      /\ UNCHANGED <<ret, ctn, pn, nodes, ctPort, disciplined>>
  BY DEF DataGet, Goto, Result, list, heap
<1>2. absConn' = absConn
  BY <1>1, SameConnections
<1>3. \A u \in Threads : absCallOf(u)' = absCallOf(u)
  BY <1>1 DEF absCallOf, IInv, TypeOK, InitSteps, CloseSteps, DataSteps
<1>4. absCall' = absCall
  BY <1>3 DEF absCall
<1> QED
  BY <1>2, <1>4 DEF Abs!absVars

\* CT_init adds the terminal: its number is connected to its port.
LEMMA RefinesInitAdds ==
    ASSUME IInv, disciplined, NEW t \in Threads, InitAdds(t)
    PROVE  Abs!Open(t)
<1>1. /\ pc[t] = "init_add" /\ pc' = [pc EXCEPT ![t] = "list_unlock"]
      /\ ret' = [ret EXCEPT ![t] = "OK"]
      /\ nodes' = Append(nodes, [ctn |-> ctn[t], ct |-> ct[t]])
      /\ UNCHANGED <<ctn, pn, ct, ctPort, disciplined>>
  BY DEF InitAdds, Goto, Result, heap, CT_List_AddCardTerminal
<1>2. /\ ctn[t] \in Ctns /\ Matches(ctn[t]) = {} /\ ctPort[ct[t]] = pn[t]
  BY <1>1 DEF IInv, ArgsInv, InitSteps, CriticalInv
<1>3. absCall' = [absCall EXCEPT ![t] =
                    [op |-> "done", ctn |-> None, pn |-> None, ret |-> ret'[t]]]
  BY <1>1, Ended DEF IInv, TypeOK
<1>4. ret'[t] = "OK"
  BY <1>1 DEF IInv, TypeOK
<1>5. /\ absCall[t].op = "init" /\ absCall[t].ctn = ctn[t] /\ absCall[t].pn = pn[t]
      /\ absConn[ctn[t]] = None
  <2>1. absConn[ctn[t]] = None
    BY <1>2, Connection DEF Connected
  <2>2. absCall[t].op = "init" /\ absCall[t].ctn = ctn[t] /\ absCall[t].pn = pn[t]
    BY <1>1, CallAt DEF InitSteps
  <2> QED
    BY <2>1, <2>2
<1>6. absConn' = [absConn EXCEPT ![ctn[t]] = pn[t]]
  <2>1. IInv'
    BY StepInitAdds
  <2>2. /\ DOMAIN nodes' = DOMAIN nodes \cup {Len(nodes) + 1}
        /\ nodes'[Len(nodes) + 1] = [ctn |-> ctn[t], ct |-> ct[t]]
        /\ \A i \in DOMAIN nodes : nodes'[i] = nodes[i]
    BY <1>1 DEF IInv, TypeOK
  <2>3. /\ \A i \in DOMAIN nodes' : absConn'[nodes'[i].ctn] = ctPort'[nodes'[i].ct]
        /\ \A n \in Ctns : Matches(n)' = {} => absConn'[n] = None
    <3>1. (IInv /\ disciplined => Connected)'
      BY Connection, PTL
    <3>2. Connected'
      BY <2>1, <3>1, <1>1
    <3> QED
      BY <3>2 DEF Connected
  <2>4. absConn'[ctn[t]] = pn[t]
    BY <2>2, <2>3, <1>1, <1>2
  <2>5. ASSUME NEW n \in Ctns, n # ctn[t] PROVE absConn'[n] = absConn[n]
    <3>1. CASE Matches(n) = {}
      <4>1. Matches(n)' = {}
        BY <3>1, <2>2, <2>5 DEF Matches
      <4> QED
        BY <3>1, <4>1, <2>3, Connection DEF Connected
    <3>2. CASE Matches(n) # {}
      <4>1. PICK i \in DOMAIN nodes : nodes[i].ctn = n
        BY <3>2 DEF Matches
      <4>2. absConn'[n] = ctPort'[nodes[i].ct]
        BY <4>1, <2>2, <2>3
      <4>3. absConn[n] = ctPort[nodes[i].ct]
        BY <4>1, Connection DEF Connected
      <4> QED
        BY <4>2, <4>3, <1>1
    <3> QED
      BY <3>1, <3>2
  <2>6. absConn = [n \in Ctns |-> absConn[n]] /\ absConn' = [n \in Ctns |-> absConn'[n]]
    BY DEF absConn
  <2> QED
    BY <2>4, <2>5, <2>6
<1> QED
  BY <1>3, <1>4, <1>5, <1>6 DEF Abs!Open, Abs!Become, Abs!Done

\* CT_close removes the terminal: its number is connected to nothing.
LEMMA RefinesCloseRemove ==
    ASSUME IInv, ResultInv, disciplined, NEW t \in Threads, CloseRemove(t)
    PROVE  Abs!Disconnect(t)
<1>1. /\ pc[t] = "close_remove" /\ pc' = [pc EXCEPT ![t] = "list_unlock"]
      /\ UNCHANGED <<ctn, pn, ct, ret, disciplined>>
      /\ CT_List_RemoveCardTerminal(ctn[t])
      /\ CardTerminal_Delete(nodes[First(ctn[t])].ct)
  BY DEF CloseRemove, Goto, locals
<1>2. ctn[t] \in Ctns /\ ct[t] \in Cts /\ ret[t] \in {"OK", "ERR_TRANS"}
  BY <1>1 DEF IInv, ArgsInv, CloseSteps, ResultInv
<1>3. PICK k \in DOMAIN nodes : nodes[k] = [ctn |-> ctn[t], ct |-> ct[t]]
  BY <1>1 DEF IInv, CriticalInv
<1>4. absCall' = [absCall EXCEPT ![t] =
                    [op |-> "done", ctn |-> None, pn |-> None, ret |-> ret'[t]]]
  BY <1>1, Ended DEF IInv, TypeOK
<1>5. absCall[t].op = "close" /\ absCall[t].ctn = ctn[t] /\ absConn[ctn[t]] # None
  <2>1. absConn[ctn[t]] # None
    BY <1>3, Connection DEF Connected
  <2>2. absCall[t].op = "close" /\ absCall[t].ctn = ctn[t]
    BY <1>1, CallAt DEF CloseSteps
  <2> QED
    BY <2>1, <2>2
<1>6. absConn' = [absConn EXCEPT ![ctn[t]] = None]
  <2>1. IInv'
    BY StepCloseRemove
  <2>2. First(nodes[k].ctn) = k /\ nodes[k].ctn = ctn[t] /\ nodes[k].ct = ct[t]
    BY <1>3, Lookup DEF IInv
  <2>3. nodes' = RemoveAt(nodes, k) /\ ctPort' = [ctPort EXCEPT ![ct[t]] = None]
    BY <1>1, <2>2 DEF CT_List_RemoveCardTerminal, CardTerminal_Delete
  <2>4. nodes \in Seq(Node) /\ Len(nodes) \in Nat /\ k \in 1 .. Len(nodes)
    BY DEF IInv, TypeOK
  <2>5. ASSUME NEW i \in DOMAIN nodes, i # k
        PROVE  \E j \in DOMAIN nodes' : nodes'[j] = nodes[i]
    BY <2>3, <2>4, <2>5, RemoveAtKeeps
  <2>6. ASSUME NEW j \in DOMAIN nodes'
        PROVE  \E i \in DOMAIN nodes : i # k /\ nodes'[j] = nodes[i]
    BY <2>3, <2>4, <2>6, RemoveAtKeeps
  <2>7. \A i \in DOMAIN nodes : i # k => nodes[i].ctn # ctn[t] /\ nodes[i].ct # ct[t]
    BY <2>2 DEF IInv, ListConsistent
  <2>8. /\ \A i \in DOMAIN nodes' : absConn'[nodes'[i].ctn] = ctPort'[nodes'[i].ct]
        /\ \A n \in Ctns : Matches(n)' = {} => absConn'[n] = None
    <3>1. (IInv /\ disciplined => Connected)'
      BY Connection, PTL
    <3>2. Connected'
      BY <2>1, <3>1, <1>1
    <3> QED
      BY <3>2 DEF Connected
  <2>9. absConn'[ctn[t]] = None
    <3>1. Matches(ctn[t])' = {}
      BY <2>6, <2>7, <1>1 DEF Matches
    <3> QED
      BY <3>1, <2>8, <1>1, <1>2
  <2>10. ASSUME NEW n \in Ctns, n # ctn[t] PROVE absConn'[n] = absConn[n]
    <3>1. CASE Matches(n) = {}
      <4>1. Matches(n)' = {}
        BY <3>1, <2>6 DEF Matches
      <4> QED
        BY <3>1, <4>1, <2>8, Connection DEF Connected
    <3>2. CASE Matches(n) # {}
      <4>1. PICK i \in DOMAIN nodes : nodes[i].ctn = n
        BY <3>2 DEF Matches
      <4>2. i # k /\ nodes[i].ct # ct[t]
        BY <4>1, <2>2, <2>7, <2>10
      <4>3. PICK j \in DOMAIN nodes' : nodes'[j] = nodes[i]
        BY <4>2, <2>5
      <4>4. absConn'[n] = ctPort'[nodes[i].ct]
        BY <4>1, <4>3, <2>8
      <4>5. absConn[n] = ctPort[nodes[i].ct]
        BY <4>1, Connection DEF Connected
      <4>6. ctPort'[nodes[i].ct] = ctPort[nodes[i].ct]
        BY <4>2, <2>3 DEF IInv, TypeOK
      <4> QED
        BY <4>4, <4>5, <4>6
    <3> QED
      BY <3>1, <3>2
  <2>11. absConn = [n \in Ctns |-> absConn[n]] /\ absConn' = [n \in Ctns |-> absConn'[n]]
    BY DEF absConn
  <2> QED
    BY <2>9, <2>10, <2>11
<1> QED
  BY <1>1, <1>2, <1>4, <1>5, <1>6 DEF Abs!Disconnect, Abs!Become, Abs!Done

\* A call returns.
LEMMA RefinesReturn ==
    ASSUME IInv, disciplined, NEW t \in Threads, Leave(t)
    PROVE  Abs!Return(t)
<1>1. /\ disciplined' /\ disciplined' = disciplined /\ UNCHANGED <<nodes, ctPort>>
      /\ pc[t] = "return" /\ pc'[t] = "idle"
      /\ \A u \in Threads \ {t} :
           pc'[u] = pc[u] /\ ctn'[u] = ctn[u] /\ pn'[u] = pn[u] /\ ret'[u] = ret[u]
  BY DEF Leave, Goto, list, heap, IInv, TypeOK
<1>2. absConn' = absConn
  BY <1>1, SameConnections
<1>3. absCall' = [absCall EXCEPT ![t] = absCall'[t]]
  BY <1>1, OneCall DEF IInv
<1>4. absCall'[t] = absCallOf(t)'
  BY DEF absCall
<1>5. absCallOf(t)' = Abs!Idle
  BY <1>1 DEF absCallOf, Abs!Idle, InitSteps, CloseSteps, DataSteps
<1>6. absCall[t].op = "done"
  BY <1>1, CallAt
<1> QED
  BY <1>2, <1>3, <1>4, <1>5, <1>6 DEF Abs!Return, Abs!Become

\* Every step of every thread is a step of the abstract interface or changes nothing there.
LEMMA NextRefines ==
    IInv /\ ResultInv /\ [Next]_vars => [Abs!AbsNext]_Abs!absVars
<1> SUFFICES ASSUME IInv, ResultInv, [Next]_vars
             PROVE  Abs!AbsNext \/ UNCHANGED Abs!absVars
  OBVIOUS
<1>1. CASE UNCHANGED vars
  <2>1. /\ \A n \in Ctns : Matches(n)' = Matches(n) /\ First(n)' = First(n)
        /\ \A t \in Threads : absCallOf(t)' = absCallOf(t)
        /\ UNCHANGED <<nodes, ctPort, disciplined>>
    BY <1>1 DEF vars, list, heap, locals, Matches, First, absCallOf
  <2>2. absConn' = absConn /\ absCall' = absCall
    BY <2>1 DEF absConn, absCall
  <2> QED
    BY <2>2 DEF Abs!absVars
<1>2. CASE Next
  <2>1. PICK t \in Threads :
          CT_init(t) \/ CT_close(t) \/ CT_data(t) \/ UnlockList(t) \/ Leave(t)
    BY <1>2 DEF Next
  <2>2. CASE ~disciplined
    <3>1. disciplined' = disciplined
      BY <2>1 DEF CT_init, CT_close, CT_data, UnlockList, Leave, CallInit, LockList,
           InitInUse, InitFails, InitOpens, InitAdds, InitAddFails, CallClose, CloseUnknown,
           CloseTerminal, CloseRemove, CallData, DataGet, DataBadApdu, DataApdu, DataLock,
           DataCommand, DataUnlock, DataUndefined
    <3> QED
      BY <2>2, <3>1, RefinesUndisciplined
  <2>3. CASE disciplined
    <3>1. ASSUME \/ Abs!Call(t) \/ Abs!Open(t) \/ Abs!Disconnect(t)
                 \/ Abs!Command(t) \/ Abs!Refuse(t) \/ Abs!Return(t)
          PROVE  Abs!AbsNext
      BY <3>1 DEF Abs!AbsNext
    <3>2. CASE CT_init(t)
      BY <2>3, <3>1, <3>2, RefinesCall, RefinesInside, RefinesEffect, RefinesInitAdds
         DEF CT_init
    <3>3. CASE CT_close(t)
      BY <2>3, <3>1, <3>3, RefinesCall, RefinesInside, RefinesEffect, RefinesCloseRemove
         DEF CT_close
    <3>4. CASE CT_data(t)
      <4>1. ~DataUndefined(t)
        BY <2>3 DEF DataUndefined, IInv, NoDanglingTerminal, TerminalPinned, UsingSteps
      <4> QED
        BY <2>3, <3>1, <3>4, <4>1, RefinesCall, RefinesInside, RefinesEffect, RefinesFound
           DEF CT_data
    <3>5. CASE UnlockList(t) \/ Leave(t)
      BY <2>3, <3>1, <3>5, RefinesInside, RefinesReturn
    <3> QED
      BY <2>1, <3>2, <3>3, <3>4, <3>5
  <2> QED
    BY <2>2, <2>3
<1> QED
  BY <1>1, <1>2

\* To a disciplined application, however many threads it has, CT_init, CT_close and
\* CT_data are atomic: each call acts on the connections in one step between its call
\* and its return, and returns what goes with that step.
THEOREM Refinement == Spec => ImplementsAbs
<1>1. Init => Abs!AbsInit /\ ResultInv
  <2> SUFFICES ASSUME Init PROVE Abs!AbsInit /\ ResultInv
    OBVIOUS
  <2>1. ResultInv
    BY DEF Init, ResultInv
  <2>2. \A n \in Ctns : Matches(n) = {}
    BY DEF Init, Matches
  <2>3. absConn = [n \in Ctns |-> None]
    BY <2>2 DEF absConn
  <2>4. \A t \in Threads : absCallOf(t) = Abs!Idle
    BY DEF Init, absCallOf, Abs!Idle, InitSteps, CloseSteps, DataSteps
  <2>5. absCall = [t \in Threads |-> Abs!Idle]
    BY <2>4 DEF absCall
  <2> QED
    BY <2>1, <2>3, <2>5 DEF Abs!AbsInit
<1>2. IInv => TypeOK
  BY DEF IInv
<1> QED
  BY <1>1, <1>2, NextResult, NextRefines, Invariant, PTL
     DEF Spec, ImplementsAbs, Abs!AbsSpec

=============================================================================
