----------------------------- MODULE IfdHandler -----------------------------
(* The PC/SC driver (ifd-handler/ifdhandler.c): one context per reader, made   *)
(* by IFDHCreateChannel and freed by IFDHCloseChannel, one mutex per context,  *)
(* and the calls that several threads of the resource manager make.            *)
(*                                                                             *)
(* CT_init, CT_close and CT_data each take effect in one step (CtApiAbs). What *)
(* happens when a CT_close hits a CT_data of the same reader half way is       *)
(* undefined and the subject of CtApi; here one of them comes first.           *)
(* IFDH_MAX_SLOTS is 1, so a reader has one context.                           *)
EXTENDS Integers

CONSTANTS
    Threads,      \* threads of the resource manager
    MaxReaders,   \* IFDH_MAX_READERS
    Luns,         \* the reader numbers (Lun >> 16) it uses
    Atrs,         \* ATRs of cards
    Empty,        \* no ATR: ATR_Length = 0
    None          \* NULL, no thread

ASSUME MaxReadersAssumption == MaxReaders \in Nat \ {0}
ASSUME LunsAssumption == Luns \subseteq Nat
ASSUME NoneAssumption == None \notin Threads \cup Atrs \cup {Empty}
ASSUME AnswersAssumption == {"error", "short"} \cap (Atrs \cup {Empty}) = {}

VARIABLES
    conn,      \* whether the number is connected in the CT-API
    context,   \* the ATR in ifdh_context[ctn][0], or None if that is NULL
    mutex,     \* owner of ifdh_context_mutex[ctn]
    pc, op,    \* where each thread is, in which function
    lun,       \* its parameter Lun
    rv,        \* ret and rv: what CT_data answered ("error", "short", Empty or an
               \* ATR), then what the function returns
    lastAtr,   \* history: the ATR of the last command that reported one
    spoiled    \* history: a malloc or a CT_close has failed for the reader

ct == <<conn, lastAtr>>
vars == <<ct, context, mutex, pc, op, lun, rv, spoiled>>

Readers == 0 .. MaxReaders - 1
\* Lun >> 16 modulo IFDH_MAX_READERS
Ctn(l) == l % MaxReaders
Reader(t) == Ctn(lun[t])

\* "power_up" stands for every call that takes an ATR from the answer, which are
\* IFDHPowerICC with IFD_POWER_UP and IFD_RESET and IFDHSetProtocolParameters,
\* and "transmit" for IFDHTransmitToICC and IFDHControl.
PowerOps == {"power_up", "power_down"}            \* keep the mutex over CT_data
DataOps == PowerOps \cup {"transmit", "presence"}
Ops == DataOps \cup {"create", "close", "get_atr", "get_tag", "other_action"}

Init ==
    /\ conn = [c \in Readers |-> FALSE]
    /\ context = [c \in Readers |-> None]
    /\ mutex = [c \in Readers |-> None]
    /\ pc = [t \in Threads |-> "idle"] /\ op = [t \in Threads |-> None]
    /\ lun = [t \in Threads |-> 0] /\ rv = [t \in Threads |-> None]
    /\ lastAtr = [c \in Readers |-> Empty]
    /\ spoiled = [c \in Readers |-> FALSE]

Goto(t, step) == pc' = [pc EXCEPT ![t] = step]
Result(t, code, step) == Goto(t, step) /\ rv' = [rv EXCEPT ![t] = code]
At(t, step, ops) == pc[t] = step /\ op[t] \in ops

-----------------------------------------------------------------------------
(* Calls, returns and the mutex. *)

\* Close and presence go to the CT-API without looking at the context.
Call(t, o, l) ==
    /\ pc[t] = "idle"
    /\ op' = [op EXCEPT ![t] = o] /\ lun' = [lun EXCEPT ![t] = l]
    /\ \/ o = "close" /\ Goto(t, "ct_close")
       \/ o = "presence" /\ Goto(t, "ct_data")
       \/ o \notin {"close", "presence"} /\ Goto(t, "lock")
    /\ UNCHANGED <<ct, context, mutex, rv, spoiled>>

Lock(t, at, next) ==
    /\ pc[t] = at
    /\ mutex[Reader(t)] = None
    /\ mutex' = [mutex EXCEPT ![Reader(t)] = t]
    /\ Goto(t, next)
    /\ UNCHANGED <<ct, context, op, lun, rv, spoiled>>

\* The function returns; its parameters and locals are gone.
Leave(t) ==
    /\ Goto(t, "idle")
    /\ op' = [op EXCEPT ![t] = None] /\ lun' = [lun EXCEPT ![t] = 0]
    /\ rv' = [rv EXCEPT ![t] = None]

Unlock(t) ==
    /\ pc[t] = "unlock"
    /\ mutex' = [mutex EXCEPT ![Reader(t)] = None]
    /\ Leave(t)
    /\ UNCHANGED <<ct, context, spoiled>>

-----------------------------------------------------------------------------
(* IFDHCreateChannel *)

\* "Assume that IFDHCreateChannel is being called for another already
\* initialized slot in this same reader, and return Success"
CreateAgain(t) ==
    /\ At(t, "locked", {"create"})
    /\ context[Reader(t)] # None
    /\ Result(t, "IFD_SUCCESS", "unlock")
    /\ UNCHANGED <<ct, context, mutex, op, lun, spoiled>>

\* CT_init. It fails if the number is connected, and may fail if not.
CreateInit(t) ==
    /\ At(t, "locked", {"create"})
    /\ context[Reader(t)] = None
    /\ \/ /\ ~conn[Reader(t)]
          /\ conn' = [conn EXCEPT ![Reader(t)] = TRUE]
          /\ lastAtr' = [lastAtr EXCEPT ![Reader(t)] = Empty]
          /\ Goto(t, "alloc") /\ UNCHANGED rv
       \/ Result(t, "IFD_COMMUNICATION_ERROR", "unlock") /\ UNCHANGED ct
    /\ UNCHANGED <<context, mutex, op, lun, spoiled>>

\* malloc and memset; the call succeeds even if there is no memory.
CreateAlloc(t) ==
    /\ pc[t] = "alloc"
    /\ \/ context' = [context EXCEPT ![Reader(t)] = Empty] /\ UNCHANGED spoiled
       \/ spoiled' = [spoiled EXCEPT ![Reader(t)] = TRUE] /\ UNCHANGED context
    /\ Result(t, "IFD_SUCCESS", "unlock")
    /\ UNCHANGED <<ct, mutex, op, lun>>

-----------------------------------------------------------------------------
(* IFDHCloseChannel *)

\* CT_close disconnects even if it reports an error; the context is freed only
\* if it does not.
CloseCt(t) ==
    /\ pc[t] = "ct_close"
    /\ conn' = [conn EXCEPT ![Reader(t)] = FALSE]
    /\ \/ /\ conn[Reader(t)]
          /\ Goto(t, "free_lock") /\ UNCHANGED <<op, lun, rv, spoiled>>
       \/ /\ Leave(t)
          /\ spoiled' =
               [spoiled EXCEPT ![Reader(t)] = spoiled[Reader(t)] \/ conn[Reader(t)]]
    /\ UNCHANGED <<context, mutex, lastAtr>>

\* Mutant of CloseFree: the pointer is kept after free.
MutCloseKeeps(t) ==
    /\ pc[t] = "free"
    /\ Result(t, "IFD_SUCCESS", "unlock")
    /\ UNCHANGED <<ct, context, mutex, op, lun, spoiled>>

CloseFree(t) ==
    /\ pc[t] = "free"
    /\ context' = [context EXCEPT ![Reader(t)] = None]
    /\ Result(t, "IFD_SUCCESS", "unlock")
    /\ UNCHANGED <<ct, mutex, op, lun, spoiled>>

-----------------------------------------------------------------------------
(* The calls that use a context. *)

\* IFDHGetCapabilities: the ATR is read from the context without a check.
GetAtr(t) ==
    /\ At(t, "locked", {"get_atr"})
    /\ context[Reader(t)] # None
    /\ Result(t, "IFD_SUCCESS", "unlock")
    /\ UNCHANGED <<ct, context, mutex, op, lun, spoiled>>

GetTag(t) ==
    /\ At(t, "locked", {"get_tag"})
    /\ Result(t, "IFD_SUCCESS", "unlock") \/ Result(t, "IFD_ERROR_TAG", "unlock")
    /\ UNCHANGED <<ct, context, mutex, op, lun, spoiled>>

\* Mutant of NoContext: the unlock is missing on this path.
MutNoContextKeeps(t) ==
    /\ At(t, "locked", PowerOps \cup {"transmit"} \cup {"other_action"})
    /\ context[Reader(t)] = None
    /\ Leave(t)
    /\ UNCHANGED <<ct, context, mutex, spoiled>>

NoContext(t) ==
    /\ At(t, "locked", PowerOps \cup {"transmit"} \cup {"other_action"})
    /\ context[Reader(t)] = None
    /\ Result(t, "IFD_ICC_NOT_PRESENT", "unlock")
    /\ UNCHANGED <<ct, context, mutex, op, lun, spoiled>>

\* IFDHPowerICC with an action it does not know.
OtherAction(t) ==
    /\ At(t, "locked", {"other_action"})
    /\ context[Reader(t)] # None
    /\ Result(t, "IFD_NOT_SUPPORTED", "unlock")
    /\ UNCHANGED <<ct, context, mutex, op, lun, spoiled>>

\* Mutant of Prepare: IFDHPowerICC releases the mutex before CT_data as
\* IFDHTransmitToICC does.
MutPowerOpen(t) ==
    /\ At(t, "locked", PowerOps \cup {"transmit"})
    /\ context[Reader(t)] # None
    /\ Goto(t, "ct_data")
    /\ mutex' = [mutex EXCEPT ![Reader(t)] = None]
    /\ UNCHANGED <<ct, context, op, lun, rv, spoiled>>

\* IFDHTransmitToICC and IFDHControl release the mutex before CT_data.
Prepare(t) ==
    /\ At(t, "locked", PowerOps \cup {"transmit"})
    /\ context[Reader(t)] # None
    /\ Goto(t, "ct_data")
    /\ mutex' = [mutex EXCEPT ![Reader(t)] = IF op[t] = "transmit" THEN None ELSE t]
    /\ UNCHANGED <<ct, context, op, lun, rv, spoiled>>

\* CT_data: an error, an answer too short to have a status, a status alone
\* (Empty), or an ATR. The functions do not look at the status.
CtData(t) ==
    /\ pc[t] = "ct_data"
    /\ \E a \in {"error", "short", Empty} \cup Atrs :
        /\ a # "error" => conn[Reader(t)]
        /\ a \in Atrs => op[t] = "power_up"
        /\ lastAtr' =
             IF \/ op[t] = "power_up" /\ a \in Atrs \cup {Empty}
                \/ op[t] = "power_down" /\ a # "error"
             THEN [lastAtr EXCEPT ![Reader(t)] = IF a \in Atrs THEN a ELSE Empty]
             ELSE lastAtr
        /\ \/ /\ op[t] \in PowerOps
              /\ Result(t, a, "store") /\ UNCHANGED <<op, lun>>
           \/ op[t] \notin PowerOps /\ Leave(t)
    /\ UNCHANGED <<conn, context, mutex, spoiled>>

\* Mutant of Store: the ATR is not cleared when the card is powered down.
MutKeepAtr(t) ==
    /\ pc[t] = "store"
    /\ context[Reader(t)] # None
    /\ IF op[t] = "power_up" /\ rv[t] \in Atrs \cup {Empty}
       THEN /\ context' = [context EXCEPT ![Reader(t)] = rv[t]]
            /\ Result(t, "IFD_SUCCESS", "unlock")
       ELSE Result(t, "IFD_COMMUNICATION_ERROR", "unlock") /\ UNCHANGED context
    /\ UNCHANGED <<ct, mutex, op, lun, spoiled>>

\* Mutant of Store: the result of CT_data is not looked at.
MutStoreAnyway(t) ==
    /\ pc[t] = "store"
    /\ context[Reader(t)] # None
    /\ context' = [context EXCEPT ![Reader(t)] = rv[t]]
    /\ Result(t, "IFD_SUCCESS", "unlock")
    /\ UNCHANGED <<ct, mutex, op, lun, spoiled>>

\* What is left of the answer is the ATR, for IFDHPowerICC with IFD_POWER_DOWN
\* nothing.
Store(t) ==
    /\ pc[t] = "store"
    /\ context[Reader(t)] # None
    /\ \/ /\ op[t] = "power_up" /\ rv[t] \in Atrs \cup {Empty}
          /\ context' = [context EXCEPT ![Reader(t)] = rv[t]]
          /\ Result(t, "IFD_SUCCESS", "unlock")
       \/ /\ op[t] = "power_down" /\ rv[t] # "error"
          /\ context' = [context EXCEPT ![Reader(t)] = Empty]
          /\ Result(t, "IFD_SUCCESS", "unlock")
       \/ /\ rv[t] = "error" \/ (op[t] = "power_up" /\ rv[t] = "short")
          /\ Result(t, "error", "unlock")
          /\ UNCHANGED context
    /\ UNCHANGED <<ct, mutex, op, lun, spoiled>>

\* A context that is NULL is dereferenced; the model stops.
Undefined(t) ==
    /\ At(t, "locked", {"get_atr"}) \/ pc[t] = "store"
    /\ context[Reader(t)] = None
    /\ Goto(t, "undefined")
    /\ UNCHANGED <<ct, context, mutex, op, lun, rv, spoiled>>

-----------------------------------------------------------------------------

Defined == \A t \in Threads : pc[t] # "undefined"

Proceed(t) ==
    /\ Defined
    /\ \/ Lock(t, "lock", "locked") \/ Lock(t, "free_lock", "free")
       \/ Unlock(t)
       \/ CreateAgain(t) \/ CreateInit(t) \/ CreateAlloc(t)
       \/ CloseCt(t) \/ CloseFree(t)
       \/ GetAtr(t) \/ GetTag(t) \/ NoContext(t) \/ OtherAction(t)
       \/ Prepare(t) \/ CtData(t) \/ Store(t) \/ Undefined(t)

Next ==
    \E t \in Threads :
        \/ Proceed(t)
        \/ Defined /\ \E o \in Ops, l \in Luns : Call(t, o, l)

Spec == Init /\ [][Next]_vars

\* A thread that is inside a function keeps running.
FairSpec == Spec /\ \A t \in Threads : WF_vars(Proceed(t))

-----------------------------------------------------------------------------
(* Properties *)

Steps == {"idle", "lock", "locked", "alloc", "ct_close", "free_lock", "free",
          "ct_data", "store", "unlock", "undefined"}
Codes == {"IFD_SUCCESS", "IFD_COMMUNICATION_ERROR", "IFD_ICC_NOT_PRESENT",
          "IFD_NOT_SUPPORTED", "IFD_ERROR_TAG", "error", "short"}

\* Every variable of the IFD handler keeps its type.
TypeOK ==
    /\ conn \in [Readers -> BOOLEAN]
    /\ context \in [Readers -> Atrs \cup {Empty, None}]
    /\ mutex \in [Readers -> Threads \cup {None}]
    /\ pc \in [Threads -> Steps]
    /\ op \in [Threads -> Ops \cup {None}]
    /\ lun \in [Threads -> Luns \cup {0}]
    /\ rv \in [Threads -> Codes \cup Atrs \cup {Empty, None}]
    /\ lastAtr \in [Readers -> Atrs \cup {Empty}]
    /\ spoiled \in [Readers -> BOOLEAN]

Quiet(c) == \A t \in Threads : pc[t] # "idle" => Reader(t) # c

\* However IFDHCreateChannel and IFDHCloseChannel interleave (the latter takes
\* the mutex only after CT_close), a reader at rest has a context exactly when it
\* is connected, unless a malloc or a CT_close has failed.
ContextMatches ==
    \A c \in Readers :
        Quiet(c) /\ ~spoiled[c] => (context[c] # None <=> conn[c])

\* Of two calls that get an ATR, the one that reached the card last leaves its
\* ATR in the context, and after a power down there is none.
AtrIsLatest ==
    \A c \in Readers :
        mutex[c] = None /\ context[c] # None /\ conn[c] =>
            context[c] = lastAtr[c]

\* No context is used after it was freed, except by IFDHGetCapabilities for a
\* channel that is not there, which does not look.
NoNullContext ==
    \A t \in Threads : pc[t] = "undefined" => op[t] = "get_atr"

\* Every path through the handler gives the mutex back, so no reader is blocked.
MutexesReleased == \A c \in Readers : []<>(mutex[c] = None \/ ~Defined)

-----------------------------------------------------------------------------
(* The inductive invariant behind these properties (IfdHandlerProofs). *)

\* A thread between IFDHPowerICC's CT_data and the use of its answer.
Powering(t) == pc[t] = "store" \/ (pc[t] = "ct_data" /\ op[t] \in PowerOps)
Holding(t) ==
    pc[t] \in {"locked", "alloc", "free", "unlock", "undefined"} \/ Powering(t)

\* The mutex of a reader belongs to the thread that is between lock and unlock.
MutexInv ==
    \A t \in Threads, c \in Readers :
        mutex[c] = t <=> Holding(t) /\ Reader(t) = c

\* A context in use is not NULL.
UseInv ==
    \A t \in Threads :
        /\ Powering(t) => context[Reader(t)] # None
        /\ pc[t] = "store" => op[t] \in PowerOps
        /\ pc[t] = "undefined" => op[t] = "get_atr"

Allocating(c) == \E t \in Threads : pc[t] = "alloc" /\ Reader(t) = c
Closing(t, c) == pc[t] \in {"free_lock", "free"} /\ Reader(t) = c

\* A context, or the thread about to allocate it, belongs either to a connected
\* number or to the one thread that has disconnected it and is about to free it.
ChannelInv ==
    \A c \in Readers :
        /\ Allocating(c) => context[c] = None
        /\ ~spoiled[c] =>
            /\ context[c] # None \/ Allocating(c)
                 <=> conn[c] \/ \E t \in Threads : Closing(t, c)
            /\ \A t, u \in Threads :
                 Closing(t, c) => ~conn[c] /\ (Closing(u, c) => t = u)

\* What Store is about to write is what the card said last.
AtrInv ==
    \A c \in Readers :
        conn[c] =>
            /\ Allocating(c) => lastAtr[c] = Empty
            /\ context[c] # None =>
                \/ context[c] = lastAtr[c]
                \/ \E t \in Threads :
                    /\ pc[t] = "store" /\ Reader(t) = c
                    /\ \/ op[t] = "power_up" /\ rv[t] \in Atrs \cup {Empty}
                       \/ op[t] = "power_down" /\ rv[t] # "error"
            /\ \A t \in Threads :
                pc[t] = "store" /\ Reader(t) = c =>
                    /\ op[t] = "power_up" /\ rv[t] \in Atrs \cup {Empty}
                         => lastAtr[c] = rv[t]
                    /\ op[t] = "power_down" /\ rv[t] # "error" => lastAtr[c] = Empty

IInv == TypeOK /\ MutexInv /\ UseInv /\ ChannelInv /\ AtrInv

-----------------------------------------------------------------------------
(* What a comment of ifdhandler.c says. *)

\* The comment in IFDHCreateChannel: a reader that has a context is "already
\* initialized", so success means that there is a reader to talk to.
AlreadyInitialised ==
    [][\A t \in Threads : CreateAgain(t) => conn[Reader(t)]]_vars
=============================================================================
