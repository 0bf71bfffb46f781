-------------------------- MODULE IfdHandlerProofs --------------------------
(* Proofs about IfdHandler, for any number of threads and readers: IInv is     *)
(* inductive, one lemma per group of actions, and implies the invariants the   *)
(* model checker checks.                                                       *)
EXTENDS IfdHandler, TLAPS

\* Lun >> 16 modulo IFDH_MAX_READERS is an index of the arrays of ifdhandler.c.
LEMMA ReaderInRange == \A l \in Luns \cup {0} : Ctn(l) \in Readers
  BY MaxReadersAssumption, LunsAssumption DEF Ctn, Readers

\* A call begins; it holds nothing yet.
LEMMA StepCall ==
    ASSUME IInv, NEW t \in Threads, NEW o \in Ops, NEW l \in Luns,
           Call(t, o, l)
    PROVE  IInv'
<1> USE ReaderInRange, NoneAssumption, AnswersAssumption
    DEF IInv, Call, Goto, Result, At, ct
<1>2. TypeOK'
  BY DEF TypeOK, Steps
<1>3. MutexInv'
  BY DEF TypeOK, MutexInv, Holding, Powering, PowerOps, Reader
<1>4. UseInv'
  BY DEF TypeOK, UseInv, Powering, PowerOps, Reader
<1>5. ChannelInv'
  BY DEF TypeOK, ChannelInv, Allocating, Closing, Reader
<1>6. AtrInv'
  BY DEF TypeOK, AtrInv, MutexInv, UseInv, Holding, Powering, PowerOps,
         Allocating, Reader
<1> QED
  BY <1>2, <1>3, <1>4, <1>5, <1>6

\* The mutex is taken from nobody.
LEMMA StepLock ==
    ASSUME IInv, NEW t \in Threads, Lock(t, "lock", "locked")
    PROVE  IInv'
<1> USE ReaderInRange, NoneAssumption, AnswersAssumption
    DEF IInv, Lock, Goto, Result, At, ct
<1>2. TypeOK'
  BY DEF TypeOK, Steps, Codes
<1>3. MutexInv'
  BY DEF TypeOK, MutexInv, Holding, Powering, PowerOps, Reader
<1>4. UseInv'
  BY DEF TypeOK, UseInv, MutexInv, Holding, Powering, PowerOps, Reader
<1>5. ChannelInv'
  BY DEF TypeOK, ChannelInv, MutexInv, Holding, Allocating, Closing, Reader
<1>6. AtrInv'
  BY DEF TypeOK, AtrInv, MutexInv, UseInv, Holding, Powering, PowerOps,
         Allocating, Reader
<1> QED
  BY <1>2, <1>3, <1>4, <1>5, <1>6

\* IFDHCloseChannel takes the mutex to free the context.
LEMMA StepFreeLock ==
    ASSUME IInv, NEW t \in Threads, Lock(t, "free_lock", "free")
    PROVE  IInv'
<1> USE ReaderInRange, NoneAssumption, AnswersAssumption
    DEF IInv, Lock, Goto, Result, At, ct
<1>2. TypeOK'
  BY DEF TypeOK, Steps, Codes
<1>3. MutexInv'
  BY DEF TypeOK, MutexInv, Holding, Powering, PowerOps, Reader
<1>4. UseInv'
  BY DEF TypeOK, UseInv, MutexInv, Holding, Powering, PowerOps, Reader
<1>5. ChannelInv'
  BY DEF TypeOK, ChannelInv, MutexInv, Holding, Allocating, Closing, Reader
<1>6. AtrInv'
  BY DEF TypeOK, AtrInv, MutexInv, UseInv, Holding, Powering, PowerOps,
         Allocating, Reader
<1> QED
  BY <1>2, <1>3, <1>4, <1>5, <1>6

\* The mutex is given back and the call is over.
LEMMA StepUnlock ==
    ASSUME IInv, NEW t \in Threads, Unlock(t)
    PROVE  IInv'
<1> USE ReaderInRange, NoneAssumption, AnswersAssumption
    DEF IInv, Unlock, Leave, Goto, Result, At, ct
<1>2. TypeOK'
  BY DEF TypeOK, Steps, Codes
<1>3. MutexInv'
  BY DEF TypeOK, MutexInv, Holding, Powering, PowerOps, Reader
<1>4. UseInv'
  BY DEF TypeOK, UseInv, MutexInv, Holding, Powering, PowerOps, Reader
<1>5. ChannelInv'
  BY DEF TypeOK, ChannelInv, MutexInv, Holding, Allocating, Closing, Reader
<1>6. AtrInv'
  BY DEF TypeOK, AtrInv, MutexInv, UseInv, Holding, Powering, PowerOps,
         Allocating, Reader
<1> QED
  BY <1>2, <1>3, <1>4, <1>5, <1>6

\* What a call does with the mutex held and no more than a look at the context.
LEMMA StepLook ==
    ASSUME IInv, NEW t \in Threads, 
           \/ CreateAgain(t) \/ GetAtr(t) \/ GetTag(t) \/ NoContext(t)
           \/ OtherAction(t) \/ Undefined(t)
    PROVE  IInv'
<1> USE ReaderInRange, NoneAssumption, AnswersAssumption
    DEF IInv, CreateAgain, GetAtr, GetTag, NoContext, OtherAction, Undefined,
        Goto, Result, At, ct
<1>2. TypeOK'
  BY DEF TypeOK, Steps, Codes
<1>3. MutexInv'
  BY DEF TypeOK, MutexInv, Holding, Powering, PowerOps, Reader
<1>4. UseInv'
  BY DEF TypeOK, UseInv, MutexInv, Holding, Powering, PowerOps, Reader
<1>5. ChannelInv'
  BY DEF TypeOK, ChannelInv, MutexInv, Holding, Allocating, Closing, Reader
<1>6. AtrInv'
  BY DEF TypeOK, AtrInv, MutexInv, UseInv, Holding, Powering, PowerOps,
         Allocating, Reader
<1> QED
  BY <1>2, <1>3, <1>4, <1>5, <1>6

\* IFDHCreateChannel connects a number only if nobody is about to free the
\* context of the previous connection.
LEMMA StepCreateInit ==
    ASSUME IInv, NEW t \in Threads, CreateInit(t)
    PROVE  IInv'
<1> USE ReaderInRange, NoneAssumption, AnswersAssumption
    DEF IInv, CreateInit, Goto, Result, At, ct
<1>2. TypeOK'
  BY DEF TypeOK, Steps, Codes
<1>3. MutexInv'
  BY DEF TypeOK, MutexInv, Holding, Powering, PowerOps, Reader
<1>4. UseInv'
  BY DEF TypeOK, UseInv, MutexInv, Holding, Powering, PowerOps, Reader
<1>5. ChannelInv'
  BY DEF TypeOK, ChannelInv, MutexInv, Holding, Allocating, Closing, Reader
<1>6. AtrInv'
  BY DEF TypeOK, AtrInv, MutexInv, UseInv, Holding, Powering, PowerOps,
         Allocating, Reader
<1> QED
  BY <1>2, <1>3, <1>4, <1>5, <1>6

\* The context is allocated while the mutex is held.
LEMMA StepCreateAlloc ==
    ASSUME IInv, NEW t \in Threads, CreateAlloc(t)
    PROVE  IInv'
<1> USE ReaderInRange, NoneAssumption, AnswersAssumption
    DEF IInv, CreateAlloc, Goto, Result, At, ct
<1>2. TypeOK'
  BY DEF TypeOK, Steps, Codes
<1>3. MutexInv'
  BY DEF TypeOK, MutexInv, Holding, Powering, PowerOps, Reader
<1>4. UseInv'
  BY DEF TypeOK, UseInv, MutexInv, Holding, Powering, PowerOps, Reader
<1>5. ChannelInv'
  BY DEF TypeOK, ChannelInv, MutexInv, Holding, Allocating, Closing, Reader
<1>6. AtrInv'
  BY DEF TypeOK, AtrInv, MutexInv, UseInv, Holding, Powering, PowerOps,
         Allocating, Reader
<1> QED
  BY <1>2, <1>3, <1>4, <1>5, <1>6

\* CT_close in IFDHCloseChannel, without the mutex.
LEMMA StepCloseCt ==
    ASSUME IInv, NEW t \in Threads, CloseCt(t)
    PROVE  IInv'
<1> USE ReaderInRange, NoneAssumption, AnswersAssumption
    DEF IInv, CloseCt, Leave, Goto, Result, At, ct
<1>2. TypeOK'
  BY ZenonT(40) DEF TypeOK, Steps, Codes
<1>3. MutexInv'
  BY DEF TypeOK, MutexInv, Holding, Powering, PowerOps, Reader
<1>4. UseInv'
  BY DEF TypeOK, UseInv, MutexInv, Holding, Powering, PowerOps, Reader
<1>5. ChannelInv'
  BY SMTT(30) DEF TypeOK, ChannelInv, MutexInv, Holding, Allocating, Closing, Reader
<1>6. AtrInv'
  BY DEF TypeOK, AtrInv, MutexInv, UseInv, Holding, Powering, PowerOps,
         Allocating, Reader
<1> QED
  BY <1>2, <1>3, <1>4, <1>5, <1>6

\* The context is freed by the one thread that disconnected its number.
LEMMA StepCloseFree ==
    ASSUME IInv, NEW t \in Threads, CloseFree(t)
    PROVE  IInv'
<1> USE ReaderInRange, NoneAssumption, AnswersAssumption
    DEF IInv, CloseFree, Goto, Result, At, ct
<1>2. TypeOK'
  BY DEF TypeOK, Steps, Codes
<1>3. MutexInv'
  BY DEF TypeOK, MutexInv, Holding, Powering, PowerOps, Reader
<1>4. UseInv'
  BY DEF TypeOK, UseInv, MutexInv, Holding, Powering, PowerOps, Reader
<1>5. ChannelInv'
  BY DEF TypeOK, ChannelInv, MutexInv, Holding, Allocating, Closing, Reader
<1>6. AtrInv'
  BY DEF TypeOK, AtrInv, MutexInv, UseInv, Holding, Powering, PowerOps,
         Allocating, Reader
<1> QED
  BY <1>2, <1>3, <1>4, <1>5, <1>6

\* A command is about to go to CT_data.
LEMMA StepPrepare ==
    ASSUME IInv, NEW t \in Threads, Prepare(t)
    PROVE  IInv'
<1> USE ReaderInRange, NoneAssumption, AnswersAssumption
    DEF IInv, Prepare, Goto, Result, At, ct
<1>2. TypeOK'
  BY DEF TypeOK, Steps, Codes
<1>3. MutexInv'
  BY DEF TypeOK, MutexInv, Holding, Powering, PowerOps, Reader
<1>4. UseInv'
  BY DEF TypeOK, UseInv, MutexInv, Holding, Powering, PowerOps, Reader
<1>5. ChannelInv'
  BY DEF TypeOK, ChannelInv, MutexInv, Holding, Allocating, Closing, Reader
<1>6. AtrInv'
  BY DEF TypeOK, AtrInv, MutexInv, UseInv, Holding, Powering, PowerOps,
         Allocating, Reader
<1> QED
  BY <1>2, <1>3, <1>4, <1>5, <1>6

\* CT_data answers.
LEMMA StepCtData ==
    ASSUME IInv, NEW t \in Threads, CtData(t)
    PROVE  IInv'
<1> USE ReaderInRange, NoneAssumption, AnswersAssumption
    DEF IInv, CtData, Leave, Goto, Result, At, ct
<1>2. TypeOK'
  <2>1. PICK a \in {"error", "short", Empty} \cup Atrs :
          /\ lastAtr' \in {lastAtr, [lastAtr EXCEPT ![Reader(t)] =
                                       IF a \in Atrs THEN a ELSE Empty]}
          /\ \/ Result(t, a, "store") /\ op' = op /\ lun' = lun
             \/ Leave(t)
    OBVIOUS
  <2>2. lastAtr' \in [Readers -> Atrs \cup {Empty}]
    BY <2>1, ZenonT(40) DEF TypeOK
  <2>3. rv' \in [Threads -> Codes \cup Atrs \cup {Empty, None}]
    BY <2>1 DEF TypeOK, Codes
  <2>4. pc' \in [Threads -> Steps] /\ op' \in [Threads -> Ops \cup {None}]
        /\ lun' \in [Threads -> Luns \cup {0}]
    BY <2>1 DEF TypeOK, Steps
  <2> QED
    BY <2>2, <2>3, <2>4 DEF TypeOK
<1>3. MutexInv'
  BY DEF TypeOK, MutexInv, Holding, Powering, PowerOps, Reader
<1>4. UseInv'
  BY DEF TypeOK, UseInv, MutexInv, Holding, Powering, PowerOps, Reader
<1>5. ChannelInv'
  BY SMTT(30) DEF TypeOK, ChannelInv, MutexInv, Holding, Allocating, Closing, Reader
<1>6. AtrInv'
  BY SMTT(30) DEF TypeOK, AtrInv, MutexInv, UseInv, Holding, Powering, PowerOps,
         Allocating, Reader
<1> QED
  BY <1>2, <1>3, <1>4, <1>5, <1>6

\* The ATR of the answer is stored.
LEMMA StepStore ==
    ASSUME IInv, NEW t \in Threads, Store(t)
    PROVE  IInv'
<1> USE ReaderInRange, NoneAssumption, AnswersAssumption
    DEF IInv, Store, Goto, Result, At, ct
<1>2. TypeOK'
  BY DEF TypeOK, Steps, Codes
<1>3. MutexInv'
  BY DEF TypeOK, MutexInv, Holding, Powering, PowerOps, Reader
<1>4. UseInv'
  BY DEF TypeOK, UseInv, MutexInv, Holding, Powering, PowerOps, Reader
<1>5. ChannelInv'
  BY DEF TypeOK, ChannelInv, MutexInv, Holding, Allocating, Closing, Reader
<1>6. AtrInv'
  BY DEF TypeOK, AtrInv, MutexInv, UseInv, Holding, Powering, PowerOps,
         Allocating, Reader
<1> QED
  BY <1>2, <1>3, <1>4, <1>5, <1>6

-----------------------------------------------------------------------------

\* At the start no reader is connected and none has a context.
LEMMA InitInv == Init => IInv
<1> SUFFICES ASSUME Init PROVE IInv
  OBVIOUS
<1>1. TypeOK
  BY DEF Init, TypeOK, Steps
<1>2. MutexInv /\ UseInv
  BY NoneAssumption DEF Init, MutexInv, UseInv, Holding, Powering
<1>3. ChannelInv /\ AtrInv
  BY DEF Init, ChannelInv, AtrInv, Allocating, Closing
<1> QED
  BY <1>1, <1>2, <1>3 DEF IInv

\* Every step of every thread preserves IInv.
LEMMA NextInv == IInv /\ [Next]_vars => IInv'
<1> SUFFICES ASSUME IInv, [Next]_vars PROVE IInv'
  OBVIOUS
<1>1. CASE UNCHANGED vars
  BY <1>1
     DEF vars, ct, IInv, TypeOK, MutexInv, UseInv, ChannelInv, AtrInv, Holding,
         Powering, Allocating, Closing, Reader
<1>2. CASE Next
  <2>1. PICK t \in Threads :
          Proceed(t) \/ \E o \in Ops, l \in Luns : Call(t, o, l)
    BY <1>2 DEF Next
  <2>2. CASE \E o \in Ops, l \in Luns : Call(t, o, l)
    BY <2>2, StepCall
  <2>3. CASE Proceed(t)
    BY <2>3, StepLock, StepFreeLock, StepUnlock, StepLook, StepCreateInit,
       StepCreateAlloc, StepCloseCt, StepCloseFree, StepPrepare, StepCtData,
       StepStore
       DEF Proceed
  <2> QED
    BY <2>1, <2>2, <2>3
<1> QED
  BY <1>1, <1>2

\* IInv holds in every state the functions of ifdhandler.c can reach together.
THEOREM Invariant == Spec => []IInv
  BY InitInv, NextInv, PTL DEF Spec

\* Every variable of the IFD handler keeps its type.
THEOREM TypeCorrect == Spec => []TypeOK
<1>1. IInv => TypeOK
  BY DEF IInv
<1> QED
  BY <1>1, Invariant, PTL

\* A reader at rest has a context exactly when it is connected, although
\* IFDHCloseChannel calls CT_close before it takes the mutex.
THEOREM ContextsMatch == Spec => []ContextMatches
<1>1. IInv => ContextMatches
  <2> SUFFICES ASSUME IInv, NEW c \in Readers, Quiet(c), ~spoiled[c]
               PROVE  context[c] # None <=> conn[c]
    BY DEF ContextMatches
  <2>1. ~Allocating(c) /\ \A t \in Threads : ~Closing(t, c)
    BY DEF Quiet, Allocating, Closing
  <2> QED
    BY <2>1 DEF IInv, ChannelInv
<1> QED
  BY <1>1, Invariant, PTL

\* The ATR in the context is the one the card gave last.
THEOREM AtrsAreLatest == Spec => []AtrIsLatest
<1>1. IInv => AtrIsLatest
  <2> SUFFICES ASSUME IInv, NEW c \in Readers, mutex[c] = None,
                      context[c] # None, conn[c]
               PROVE  context[c] = lastAtr[c]
    BY DEF AtrIsLatest
  <2>1. \A t \in Threads : ~(pc[t] = "store" /\ Reader(t) = c)
    BY NoneAssumption DEF IInv, MutexInv, Holding, Powering
  <2> QED
    BY <2>1 DEF IInv, AtrInv
<1> QED
  BY <1>1, Invariant, PTL

\* Only IFDHGetCapabilities can meet a context that is NULL.
THEOREM NoContextDangles == Spec => []NoNullContext
<1>1. IInv => NoNullContext
  BY DEF IInv, UseInv, NoNullContext
<1> QED
  BY <1>1, Invariant, PTL
=============================================================================
