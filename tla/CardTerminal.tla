---------------------------- MODULE CardTerminal ----------------------------
(* One card terminal: the commands CT_data hands to CardTerminal_Command      *)
(* (ct-api/cardterminal.c) and to CT_Slot_Command (ct-api/ct_slot.c), the     *)
(* opening and closing of the terminal, and the reader with cards that people *)
(* insert and remove at any moment. The mutex of the terminal (CtApi) lets    *)
(* one command run at a time.                                                 *)
(*                                                                            *)
(* Every exchange with the reader may fail. The reader is external: its       *)
(* change bit is set by a movement of the card and cleared by the status      *)
(* answer that reports it, and a card that is inserted has no power.          *)
EXTENDS Integers

CONSTANTS
    MaxSlots,     \* CARDTERMINAL_MAX_SLOTS
    MaxTimeout,   \* bound on the seconds REQUEST ICC and EJECT ICC may wait
    MaxLengths,   \* the memory lengths ICC_Sync_ProbeMemoryLength tries at most
    None          \* no card, no answer yet

ASSUME MaxSlotsAssumption == MaxSlots \in Nat \ {0}
ASSUME MaxTimeoutAssumption == MaxTimeout \in Nat
ASSUME MaxLengthsAssumption == MaxLengths \in Nat \ {0}

Slots == 0 .. MaxSlots - 1

\* A card is found by ICC_Sync_Init, with its ATR or by trying, by ICC_Async_Init,
\* or by neither.
MemoryKinds == {"memory", "memory_without_atr"}
Kinds == MemoryKinds \cup {"processor", "mute"}
ASSUME NoneAssumption == None \notin Kinds

VARIABLES
    \* the reader
    readerSlots,  \* the slots it has
    card,         \* the kind of card in each slot, or None
    changed,      \* its change bit for each slot
    powered,      \* whether the card in the slot is activated
    \* the CardTerminal and its CT_Slots
    numSlots,     \* ct->num_slots, 0 when the terminal is not open
    ifd,          \* slot->ifd # NULL
    icc,          \* slot->icc_type
    protocol,     \* slot->protocol_type
    \* the command in progress
    op, sn,       \* the command and the slot it is at
    timed,        \* whether it came with a timeout
    timer,        \* the seconds it still waits for a card
    seen, change, \* what CT_Slot_Check has found: card, change
    lengths,      \* the memory lengths still to be tried
    answer,       \* what the command returned
    pc,
    \* history
    moved,        \* slot->icc was made, or its making was begun, before the last
                  \* movement of a card
    consumed,     \* and that movement went unnoticed, see ProbeStatus
    calm,         \* no card has moved since the command began
    broken        \* the last RESET CT of the kernel failed

reader == <<readerSlots, card, changed, powered>>
slots == <<numSlots, ifd, icc, protocol, moved, consumed>>
call == <<op, sn, timed, timer, seen, change, lengths, answer, pc>>
history == <<calm, broken>>
vars == <<reader, slots, call, history>>

Init ==
    /\ readerSlots \in 1 .. MaxSlots
    /\ card = [s \in Slots |-> None]
    /\ changed = [s \in Slots |-> FALSE]
    /\ powered = [s \in Slots |-> FALSE]
    /\ numSlots = 0
    /\ ifd = [s \in Slots |-> FALSE]
    /\ icc = [s \in Slots |-> "null"]
    /\ protocol = [s \in Slots |-> "null"]
    /\ op = "close" /\ sn = 0 /\ timed = FALSE /\ timer = 0
    /\ seen = FALSE /\ change = FALSE /\ lengths = 0
    /\ answer = None /\ pc = "closed"
    /\ moved = [s \in Slots |-> FALSE]
    /\ consumed = [s \in Slots |-> FALSE]
    /\ calm = TRUE /\ broken = FALSE

-----------------------------------------------------------------------------
(* The people at the reader. *)

\* The slot whose card ICC_Sync_Init is trying to find out about.
Probing(s) == pc \in {"probe_type", "probe_length"} /\ s = sn

Moves(s) ==
    /\ changed' = [changed EXCEPT ![s] = TRUE]
    /\ moved' = [moved EXCEPT ![s] = icc[s] # "null" \/ Probing(s)]
    /\ consumed' = [consumed EXCEPT ![s] = FALSE]
    /\ calm' = FALSE
    /\ UNCHANGED <<readerSlots, numSlots, ifd, icc, protocol, call, broken>>

Insert(s, k) ==
    /\ s < readerSlots
    /\ card[s] = None
    /\ card' = [card EXCEPT ![s] = k]
    /\ UNCHANGED powered
    /\ Moves(s)

Remove(s) ==
    /\ card[s] # None
    /\ card' = [card EXCEPT ![s] = None]
    /\ powered' = [powered EXCEPT ![s] = FALSE]
    /\ Moves(s)

-----------------------------------------------------------------------------
(* Steps all commands are made of. *)

Begin(o, s, t, first) ==
    /\ pc = "idle"
    /\ op' = o /\ sn' = s /\ timed' = (t # 0) /\ timer' = t
    /\ seen' = FALSE /\ change' = FALSE /\ lengths' = 0 /\ answer' = None
    /\ pc' = first
    /\ calm' = TRUE
    /\ UNCHANGED <<reader, slots, broken>>

Goto(step) ==
    /\ pc' = step
    /\ UNCHANGED <<op, sn, timed, timer, seen, change, lengths, answer>>

Return(a) ==
    /\ pc' = "idle" /\ answer' = a
    /\ UNCHANGED <<op, sn, timed, timer, seen, change, lengths>>

\* The command goes on with the next slot at the given step, or returns.
NextSlotOr(step, a) ==
    IF sn + 1 < numSlots
    THEN /\ sn' = sn + 1 /\ pc' = step
         /\ seen' = FALSE /\ change' = FALSE
         /\ UNCHANGED <<op, timed, timer, lengths, answer>>
    ELSE Return(a)

\* The objects of the slot are deleted, whatever their cards answered; the power
\* is off unless the deactivation failed.
DropIcc(ok) ==
    /\ icc' = [icc EXCEPT ![sn] = "null"]
    /\ protocol' = [protocol EXCEPT ![sn] = "null"]
    /\ moved' = [moved EXCEPT ![sn] = FALSE]
    /\ consumed' = [consumed EXCEPT ![sn] = FALSE]
    /\ \/ powered' = [powered EXCEPT ![sn] = FALSE]
       \/ (icc[sn] = "null" \/ ~ok) /\ UNCHANGED powered
    /\ UNCHANGED <<readerSlots, card, changed>>

-----------------------------------------------------------------------------
(* CardTerminal_Init, CardTerminal_Close and RESET CT of the kernel. *)

\* The serial port is opened and the first slot created.
Open ==
    /\ pc = "closed"
    /\ op' = "init" /\ sn' = 0 /\ timed' = FALSE /\ timer' = 0
    /\ seen' = FALSE /\ change' = FALSE /\ lengths' = 0 /\ answer' = None
    /\ pc' = "init_slot"
    /\ numSlots' = 1
    /\ calm' = TRUE /\ broken' = FALSE
    /\ UNCHANGED <<reader, ifd, icc, protocol, moved, consumed>>

\* CT_Slot_Init finds the reader.
InitSlot ==
    /\ pc = "init_slot"
    /\ ifd' = [ifd EXCEPT ![sn] = TRUE]
    /\ \/ /\ op = "init" /\ sn < readerSlots - 1
          /\ numSlots' = numSlots + 1
          /\ sn' = sn + 1
          /\ UNCHANGED <<op, timed, timer, seen, change, lengths, answer, pc>>
       \/ /\ op = "init" /\ sn >= readerSlots - 1
          /\ Return("ok")
          /\ UNCHANGED numSlots
       \/ /\ op = "reset"
          /\ NextSlotOr("close_slot", "reset_ok")
          /\ UNCHANGED numSlots
    /\ UNCHANGED <<reader, icc, protocol, moved, consumed, history>>

\* No memory, no port or no reader. CardTerminal_Init deletes every slot and
\* closes the port; RESET CT returns with the slot as CT_Slot_Close left it.
InitSlotFails ==
    /\ pc = "init_slot"
    /\ \/ /\ op = "init"
          /\ numSlots' = 0
          /\ ifd' = [s \in Slots |-> FALSE]
          /\ pc' = "closed" /\ answer' = "error"
          /\ UNCHANGED <<op, sn, timed, timer, seen, change, lengths, broken>>
       \/ /\ op = "reset"
          /\ Return("error")
          /\ broken' = TRUE
          /\ UNCHANGED <<numSlots, ifd>>
    /\ UNCHANGED <<reader, icc, protocol, moved, consumed, calm>>

\* CT_Slot_Close: protocol, card and reader object go, whatever the reader says.
\* Without a reader object there is nobody to fail. RESET CT stops at an error.
CloseSlot ==
    /\ pc = "close_slot"
    /\ icc[sn] # "null" => ifd[sn]
    /\ \E ok \in BOOLEAN :
        /\ ok \/ ifd[sn]
        /\ DropIcc(ok)
        /\ ifd' = [ifd EXCEPT ![sn] = FALSE]
        /\ \/ /\ op = "reset"
              /\ IF ok THEN Goto("init_slot") ELSE Return("error")
              /\ broken' = ~ok
              /\ UNCHANGED numSlots
           \/ /\ op = "close" /\ sn + 1 < numSlots
              /\ sn' = sn + 1
              /\ answer' = IF ok THEN answer ELSE "error"
              /\ UNCHANGED <<op, timed, timer, seen, change, lengths, pc, numSlots,
                             broken>>
           \/ /\ op = "close" /\ sn + 1 = numSlots
              /\ pc' = "closed"
              /\ answer' = IF ok /\ answer = None THEN "ok" ELSE "error"
              /\ numSlots' = 0
              /\ UNCHANGED <<op, sn, timed, timer, seen, change, lengths, broken>>
    /\ UNCHANGED calm

-----------------------------------------------------------------------------
(* CT_Slot_Check, CT_Slot_Release and CT_Slot_Probe in the commands. *)

\* Mutant of AfterCheck: GET STATUS forgets a card only when the slot is empty.
MutIgnoreChange ==
    \/ /\ op \in {"reset_icc", "request"} /\ ~seen'
       /\ pc' = "idle" /\ answer' = "no_card"
    \/ /\ op \in {"reset_icc", "request"} /\ seen'
       /\ pc' = "probe_sync" /\ UNCHANGED answer
    \/ /\ op = "status"
       /\ pc' = IF icc[sn] # "null" /\ ~seen' THEN "release" ELSE "status_next"
       /\ UNCHANGED answer
    \/ op = "eject" /\ pc' = "release" /\ UNCHANGED answer

\* What a command does with the card and the change CT_Slot_Check found.
AfterCheck ==
    \/ /\ op \in {"reset_icc", "request"} /\ ~seen'
       /\ pc' = "idle" /\ answer' = "no_card"
    \/ /\ op \in {"reset_icc", "request"} /\ seen'
       /\ pc' = "probe_sync" /\ UNCHANGED answer
    \/ /\ op = "status"
       /\ pc' = IF icc[sn] # "null" /\ (~seen' \/ change')
                THEN "release" ELSE "status_next"
       /\ UNCHANGED answer
    \/ op = "eject" /\ pc' = "release" /\ UNCHANGED answer

\* Mutant of Check: timeout is never decremented.
MutWaitForEver ==
    /\ pc = "check"
    /\ ifd[sn]
    /\ seen' = (card[sn] # None)
    /\ change' = (change \/ changed[sn])
    /\ changed' = [changed EXCEPT ![sn] = FALSE]
    /\ IF timer > 0 /\ ~seen' THEN UNCHANGED <<pc, answer>> ELSE AfterCheck
    /\ UNCHANGED <<timer, op, sn, timed, lengths, readerSlots, card, powered,
                   slots, history>>

\* IFD_Towitoko_GetStatus answers; without a card the timer runs.
Check ==
    /\ pc = "check"
    /\ ifd[sn]
    /\ seen' = (card[sn] # None)
    /\ change' = (change \/ changed[sn])
    /\ changed' = [changed EXCEPT ![sn] = FALSE]
    /\ IF timer > 0 /\ ~seen'
       THEN timer' = timer - 1 /\ UNCHANGED <<pc, answer>>
       ELSE AfterCheck /\ UNCHANGED timer
    /\ UNCHANGED <<op, sn, timed, lengths, readerSlots, card, powered, slots,
                   history>>

CheckFails ==
    /\ pc = "check"
    /\ ifd[sn]
    /\ Return("error")
    /\ UNCHANGED <<reader, slots, history>>

\* Mutant of Release: the reader object is dropped as in CT_Slot_Close.
MutReleaseCloses ==
    /\ pc = "release"
    /\ icc[sn] # "null" => ifd[sn]
    /\ \E ok \in BOOLEAN :
        /\ DropIcc(ok)
        /\ Return(IF ok THEN "eject_ok" ELSE "error")
    /\ ifd' = [ifd EXCEPT ![sn] = FALSE]
    /\ UNCHANGED <<numSlots, history>>

\* CT_Slot_Release; without a card there is nobody to fail.
Release ==
    /\ pc = "release"
    /\ icc[sn] # "null" => ifd[sn]
    /\ \E ok \in BOOLEAN :
        /\ ok \/ icc[sn] # "null"
        /\ DropIcc(ok)
        /\ \/ ~ok /\ Return("error")
           \/ ok /\ op = "reset_icc" /\ Goto("check")
           \/ ok /\ op = "status" /\ Goto("status_next")
           \/ ok /\ op = "eject" /\ ~timed /\ Return("eject_ok")
           \/ ok /\ op = "eject" /\ timed
                /\ Return(IF seen THEN "not_removed" ELSE "removed")
    /\ UNCHANGED <<numSlots, ifd, history>>

\* Every part of a probe may leave the card that is there with or without power.
Activate ==
    \E on \in BOOLEAN : powered' = [powered EXCEPT ![sn] = on /\ card[sn] # None]

\* A status read by ICC_Sync_Init, which looks at one bit of it and discards the
\* others, the change bit among them; nobody asks whether it could be read.
ProbeStatus(ok) ==
    IF ok
    THEN /\ changed' = [changed EXCEPT ![sn] = FALSE]
         /\ consumed' = [consumed EXCEPT ![sn] = moved[sn] /\ card[sn] # None]
    ELSE UNCHANGED <<changed, consumed>>

\* The LED, the baud rate, the activation and ICC_Sync_Init's reset. A card with
\* an ATR is known by it, and no status is read.
ProbeSync ==
    /\ pc = "probe_sync"
    /\ Activate
    /\ \/ /\ card[sn] = "memory"
          /\ icc' = [icc EXCEPT ![sn] = "sync"]
          /\ Goto("probe_protocol")
       \/ Goto("probe_type") /\ UNCHANGED icc
       \/ Goto("probe_async") /\ UNCHANGED icc
    /\ UNCHANGED <<readerSlots, card, changed, numSlots, ifd, protocol, moved,
                   consumed, history>>

\* ICC_Sync_Clear: there is no object after all.
ProbeGivesUp ==
    /\ pc' = "probe_async" /\ lengths' = 0
    /\ moved' = [moved EXCEPT ![sn] = FALSE]
    /\ consumed' = [consumed EXCEPT ![sn] = FALSE]
    /\ UNCHANGED <<op, sn, timed, timer, seen, change, answer, icc>>

\* ICC_Sync_ProbeCardType without an ATR: a memory card confirms an address. A
\* status that could not be read is not initialised and may say anything.
ProbeType ==
    /\ pc = "probe_type"
    /\ Activate
    /\ \E ok \in BOOLEAN :
        \/ /\ card[sn] \in MemoryKinds \/ ~ok
           /\ ProbeStatus(ok)
           /\ pc' = "probe_length" /\ lengths' = MaxLengths
           /\ UNCHANGED <<op, sn, timed, timer, seen, change, answer, icc, moved>>
        \/ /\ changed' = [changed EXCEPT ![sn] = ~ok /\ @]
           /\ ProbeGivesUp
    /\ UNCHANGED <<readerSlots, card, numSlots, ifd, protocol, history>>

\* One round of ICC_Sync_ProbeMemoryLength; with the last one the object is made,
\* unless the LED or the deactivation fails.
ProbeLength ==
    /\ pc = "probe_length"
    /\ Activate
    /\ \E ok \in BOOLEAN :
        \/ /\ lengths > 1
           /\ ProbeStatus(ok)
           /\ lengths' = lengths - 1
           /\ UNCHANGED <<op, sn, timed, timer, seen, change, answer, pc, icc, moved>>
        \/ /\ ProbeStatus(ok)
           /\ icc' = [icc EXCEPT ![sn] = "sync"]
           /\ pc' = "probe_protocol" /\ lengths' = 0
           /\ UNCHANGED <<op, sn, timed, timer, seen, change, answer, moved>>
        \/ /\ changed' = [changed EXCEPT ![sn] = ~ok /\ @]
           /\ ProbeGivesUp
    /\ UNCHANGED <<readerSlots, card, numSlots, ifd, protocol, history>>

\* ICC_Sync_New or ICC_Async_New finds no memory.
ProbeNoMemory ==
    /\ pc \in {"probe_sync", "probe_async"}
    /\ Return("error")
    /\ UNCHANGED <<reader, slots, history>>

\* ICC_Async_Init. A card that is neither leaves it powered.
ProbeAsync ==
    /\ pc = "probe_async"
    /\ \/ /\ card[sn] = "processor"
          /\ icc' = [icc EXCEPT ![sn] = "async"]
          /\ powered' = [powered EXCEPT ![sn] = TRUE]
          /\ Goto("probe_protocol")
       \/ Activate /\ Return("error") /\ UNCHANGED icc
    /\ UNCHANGED <<readerSlots, card, changed, numSlots, ifd, protocol, moved,
                   consumed, history>>

\* PPS_Perform or Protocol_Sync_Init. An unknown P2 is only found out now.
ProbeProtocol ==
    /\ pc = "probe_protocol"
    /\ \E p \in IF icc[sn] = "sync" THEN {"sync"} ELSE {"T0", "T1"} :
         protocol' = [protocol EXCEPT ![sn] = p]
    /\ Return("activated") \/ Return("wrong_param")
    /\ UNCHANGED <<reader, numSlots, ifd, icc, moved, consumed, history>>

ProbeProtocolFails ==
    /\ pc = "probe_protocol"
    /\ \E ok \in BOOLEAN : DropIcc(ok)
    /\ Return("error")
    /\ UNCHANGED <<numSlots, ifd, history>>

-----------------------------------------------------------------------------
(* The commands. *)

\* A command for a slot looks at the slot first. RequestICC does so without
\* asking whether the terminal has it.
SelectReset ==
    /\ pc = "select" /\ op = "reset_icc"
    /\ IF sn < numSlots THEN Goto("release") ELSE Return("invalid")
    /\ UNCHANGED <<reader, slots, history>>

SelectRequest ==
    /\ pc = "select" /\ op = "request" /\ sn < numSlots
    /\ IF icc[sn] # "null" THEN Return("card_present") ELSE Goto("check")
    /\ UNCHANGED <<reader, slots, history>>

SelectEject ==
    /\ pc = "select" /\ op = "eject"
    /\ \/ sn >= numSlots /\ Return("invalid")
       \/ sn < numSlots /\ icc[sn] = "null" /\ Return("eject_ok")
       \/ sn < numSlots /\ icc[sn] # "null" /\ Goto("check")
    /\ UNCHANGED <<reader, slots, history>>

\* CT_Slot_Command. A processor card answers while it is powered; a memory card
\* is activated again for every access.
SlotCommand ==
    /\ pc = "select" /\ op = "command"
    /\ \/ sn >= numSlots /\ Return("invalid") /\ UNCHANGED powered
       \/ /\ sn < numSlots /\ protocol[sn] = "null"
          /\ Return("icc_error") /\ UNCHANGED powered
       \/ /\ sn < numSlots /\ protocol[sn] \in {"T0", "T1"} /\ ifd[sn]
          /\ \/ card[sn] = "processor" /\ powered[sn] /\ Return("card")
             \/ Return("error")
          /\ UNCHANGED powered
       \/ /\ sn < numSlots /\ protocol[sn] = "sync" /\ ifd[sn]
          /\ \/ card[sn] \in MemoryKinds /\ Return("card")
             \/ Return("error")
          /\ Activate
    /\ UNCHANGED <<readerSlots, card, changed, slots, history>>

\* GET STATUS of the manufacturer asks the reader object of the first slot.
Manufacturer ==
    /\ pc = "select" /\ op = "manufacturer"
    /\ ifd[0]
    /\ Return("ok")
    /\ UNCHANGED <<reader, slots, history>>

\* A class, instruction, functional unit or qualifier that is not supported.
WrongCommand ==
    /\ pc = "select" /\ op = "other"
    /\ Return("wrong_param")
    /\ UNCHANGED <<reader, slots, history>>

\* Mutant of StatusNext: only the first slot is looked at.
MutFirstSlotOnly ==
    /\ pc = "status_next"
    /\ Return("status_ok")
    /\ UNCHANGED <<reader, slots, history>>

StatusNext ==
    /\ pc = "status_next"
    /\ NextSlotOr("check", "status_ok")
    /\ UNCHANGED <<reader, slots, history>>

\* A pointer that is NULL, or that a freed reader object has left behind. What
\* comes next is undefined; the model stops.
NullDereference ==
    /\ \/ pc = "select" /\ op = "request" /\ sn >= numSlots
       \/ pc = "select" /\ op = "manufacturer" /\ ~ifd[0]
       \/ pc = "check" /\ ~ifd[sn]
       \/ pc \in {"close_slot", "release"} /\ icc[sn] # "null" /\ ~ifd[sn]
       \/ /\ pc = "select" /\ op = "command" /\ sn < numSlots
          /\ protocol[sn] # "null" /\ ~ifd[sn]
    /\ Goto("undefined")
    /\ UNCHANGED <<reader, slots, history>>

Step ==
    \/ InitSlot \/ InitSlotFails \/ CloseSlot
    \/ Check \/ CheckFails \/ Release
    \/ ProbeSync \/ ProbeType \/ ProbeLength \/ ProbeAsync \/ ProbeNoMemory
    \/ ProbeProtocol \/ ProbeProtocolFails
    \/ SelectReset \/ SelectRequest \/ SelectEject \/ SlotCommand
    \/ Manufacturer \/ WrongCommand \/ StatusNext \/ NullDereference

Call ==
    \/ Open
    \/ Begin("close", 0, 0, "close_slot")
    \/ Begin("reset", 0, 0, "close_slot")
    \/ Begin("status", 0, 0, "check")
    \/ Begin("manufacturer", 0, 0, "select")
    \/ Begin("other", 0, 0, "select")
    \/ \E s \in Slots :
        \/ Begin("reset_icc", s, 0, "select")
        \/ Begin("command", s, 0, "select")
        \/ \E t \in 0 .. MaxTimeout :
             Begin("request", s, t, "select") \/ Begin("eject", s, t, "select")

Movement == \E s \in Slots : Remove(s) \/ \E k \in Kinds : Insert(s, k)

Next == pc # "undefined" /\ (Step \/ Call \/ Movement)

Spec == Init /\ [][Next]_vars

\* A command in progress goes on.
FairSpec == Spec /\ WF_vars(pc # "undefined" /\ Step)

-----------------------------------------------------------------------------
(* Properties *)

\* The types of the reader's state, of the terminal's and of the call's.
ReaderType ==
    /\ readerSlots \in 1 .. MaxSlots
    /\ card \in [Slots -> Kinds \cup {None}]
    /\ changed \in [Slots -> BOOLEAN]
    /\ powered \in [Slots -> BOOLEAN]

SlotsType ==
    /\ numSlots \in 0 .. MaxSlots
    /\ ifd \in [Slots -> BOOLEAN]
    /\ icc \in [Slots -> {"null", "sync", "async"}]
    /\ protocol \in [Slots -> {"null", "sync", "T0", "T1"}]
    /\ moved \in [Slots -> BOOLEAN]
    /\ consumed \in [Slots -> BOOLEAN]

CallType ==
    /\ op \in {"init", "close", "reset", "status", "reset_icc", "request",
              "eject", "command", "manufacturer", "other"}
    /\ sn \in Slots
    /\ timed \in BOOLEAN /\ timer \in 0 .. MaxTimeout
    /\ seen \in BOOLEAN /\ change \in BOOLEAN /\ lengths \in 0 .. MaxLengths
    /\ answer \in {None, "ok", "error", "reset_ok", "status_ok", "no_card",
                  "activated", "wrong_param", "invalid", "card_present",
                  "eject_ok", "removed", "not_removed", "icc_error", "card"}
    /\ pc \in {"closed", "idle", "init_slot", "close_slot", "select", "check",
              "release", "probe_sync", "probe_type", "probe_length", "probe_async",
              "probe_protocol", "status_next", "undefined"}

HistoryType == calm \in BOOLEAN /\ broken \in BOOLEAN

\* Every variable keeps its type; in particular no loop leaves ct->slots.
TypeOK == ReaderType /\ SlotsType /\ CallType /\ HistoryType

\* A movement of a card is not forgotten: as long as a slot keeps an object made
\* before it, the reader still shows a change or an empty slot, so that the next
\* GET STATUS finds out. This holds for all commands but for one thing the code
\* does: ICC_Sync_Init, on a card without an ATR, reads the status to find out the
\* type and the length of the memory and discards the change bit (icc_sync.c:513,
\* 598), so that a card exchanged before such a read passes for the first one.
NoLostChange ==
    \A s \in Slots :
        /\ moved[s]
        /\ ~consumed[s]
        /\ ~(pc = "release" /\ sn = s)
        => changed[s] \/ card[s] = None

\* A GET STATUS that succeeds, while no card moves, leaves no slot with the
\* object of another card than the one that is in it, but for an exchange that
\* ICC_Sync_Init has consumed.
StatusResyncs ==
    pc = "idle" /\ answer = "status_ok" /\ calm =>
        \A s \in Slots :
            icc[s] # "null" => (moved[s] => consumed[s]) /\ card[s] # None

\* No command follows a NULL or dangling pointer, however commands fail and cards
\* move, except in the two places where the code is known to: REQUEST ICC for a
\* slot the terminal does not have, and a slot that a RESET CT of the kernel has
\* closed and could not open again.
NoNullDereference ==
    pc = "undefined" => broken \/ (op = "request" /\ sn >= numSlots)

\* Every command returns, if only with an error; none waits for a card for ever.
CommandsReturn == []<>(pc \in {"idle", "closed", "undefined"})

-----------------------------------------------------------------------------
(* The inductive invariant: what every step of every command relies on. *)

ProbePcs ==
    {"probe_sync", "probe_type", "probe_length", "probe_async", "probe_protocol"}

\* Where a command is says which command it is, and from its first look at a slot
\* on it stays inside the slots the terminal has.
CallInv ==
    /\ numSlots <= readerSlots
    /\ pc = "closed" => numSlots = 0
    /\ pc # "closed" => numSlots > 0
    /\ pc \in ProbePcs \cup {"init_slot", "close_slot", "check", "release",
                           "status_next"} => sn < numSlots
    /\ pc = "init_slot" => op \in {"init", "reset"}
    /\ pc = "init_slot" /\ op = "init" => numSlots = sn + 1
    /\ pc = "close_slot" => op \in {"close", "reset"}
    /\ pc = "check" => op \in {"status", "reset_icc", "request", "eject"}
    /\ pc = "release" => op \in {"status", "reset_icc", "eject"}
    /\ pc \in ProbePcs =>
           op \in {"reset_icc", "request"}
    /\ pc = "status_next" => op = "status"

\* A card object has a reader object and a protocol a card object; only an object
\* made, or being made, can be that of another card, and only such a one can have
\* lost its change. All slots have
\* a reader object, unless a RESET CT has failed or a loop over the slots has
\* still to create it or has just deleted it.
PointerInv ==
    /\ \A s \in Slots :
        /\ protocol[s] # "null" => icc[s] # "null"
        /\ moved[s] => icc[s] # "null" \/ Probing(s)
        /\ consumed[s] => moved[s]
        /\ icc[s] # "null" => ifd[s] /\ s < numSlots
    /\ pc = "init_slot" /\ op = "init" => \A s \in Slots : icc[s] = "null"
    /\ pc = "init_slot" \/ (pc = "close_slot" /\ op = "reset") =>
           \A s \in Slots : s < sn => ifd[s]
    /\ pc = "close_slot" /\ op = "close" =>
           \A s \in Slots : s < sn => icc[s] = "null"
    /\ pc \in ProbePcs => ifd[sn]
    /\ pc \notin {"closed", "init_slot", "close_slot", "undefined"} /\ ~broken =>
           \A s \in Slots : s < numSlots => ifd[s]

\* RESET ICC and REQUEST ICC look for a card only when the slot has no object of
\* another one, so that the change bit they clear is nobody else's; a protocol is
\* made only for a card object.
ProbeInv ==
    /\ pc \in (ProbePcs \ {"probe_protocol"}) \cup {"check"}
       /\ op \in {"reset_icc", "request"} => icc[sn] = "null"
    /\ pc = "probe_length" => lengths > 0
    /\ pc = "probe_protocol" => icc[sn] # "null"

\* The object of the slot is that of the card in it, as far as can be known.
Synced(s) == icc[s] # "null" => (moved[s] => consumed[s]) /\ card[s] # None

\* GET STATUS, while no card moves, leaves every slot it has passed in order.
ResyncInv ==
    calm /\ op = "status" =>
        /\ pc \in {"check", "release"} =>
               \A s \in Slots : s < sn => Synced(s)
        /\ pc = "status_next" => \A s \in Slots : s <= sn => Synced(s)

IInv ==
    /\ TypeOK /\ CallInv /\ PointerInv /\ ProbeInv /\ ResyncInv
    /\ NoLostChange /\ StatusResyncs /\ NoNullDereference

=============================================================================
